# PRISM Club: models, checks and proofs

PRISM Club is a community platform: a NestJS API (`src/apps/api`) over PostgreSQL
through Prisma, with a Flutter app and an admin console as clients. The clients
keep no state that the API relies on, so this project is about the API: the
services under `src/apps/api/src/modules`, the crons beside them and the tables of
`src/prisma/schema.prisma`.

The API runs as several stateless replicas. A request is a chain of awaited
queries; between two of them anything may happen to the rows the first has read.
Only what runs inside `prisma.$transaction` is atomic, and that under READ
COMMITTED: each statement sees what had been committed when it began, an update
waits for the row lock of another transaction and then goes ahead. Crons exclude
each other by advisory locks, and most manual runs of the ops endpoints do not take
them. Nothing is retried, and a process may die anywhere. So the hard behaviour of
this code is in checks that are stale when they are acted upon, in writes split
over several statements, and in rows that several services and crons write.

## Inventory

| Component | State | Operations | What is hard | Correct when |
|---|---|---|---|---|
| Knowledge contributions (`knowledge-contribution.service.ts`) | `knowledge_contributions`, `knowledge_blocks`, `knowledge_block_revisions`, `contribution_reputation`, notices | submit, withdraw, resolve with three verdicts | the PENDING check is outside the transaction; the next version and order are read and then inserted | the tables agree, histories have no gap, a decided proposal stays decided |
| Recruitment (`recruitment.service.ts`) | `recruitment_posts`, `recruitment_applications`, JSON on the post, notices | apply, withdraw, decide | two copies of the status; a capacity counted under READ COMMITTED; deciders racing | a decision comes whole, with its notice and its FILLED; few seats are given too many; filled is final |
| Scoped DM (`dm.service.ts`, `dm-lifecycle.cron.ts`) | `dm_channels`, `dm_messages` | open, send, mark read; the daily close | the cron runs over rows requests are using; ticks are skipped or fail | each channel has its grace and closes, a closed one is quiet |
| Polls (`poll.service.ts`) | `poll_votes` | vote, clear | toggle direction read before the transaction | single choice up to a race; tallies final after the expiry |
| Notification inbox (`notification.service.ts`) | `notifications` | create or group, mark read, list | find and write are two statements, the payload is written whole; the page is filtered after it was cut | few rows per burst, well-formed lists, closed rows rest |
| Event reminders (`event-reminder.cron.ts`, `event-rsvp.service.ts`) | `event_rsvps`, `event_reminder_sends`, event status | RSVP, hourly and manual run, status refresh | record and notice are two statements; windows against ticks; runs without lock | at most once each, one loss per failure, nobody forgotten when nothing fails |
| Event cards and pages (`event-card`, `event-live`, `event-review`, `event-digest.service.ts`) | mirrored cards, live posts, reviews, recaps, the log of update notices | upsert with its fan-out, write, archive, recap | a fan-out nobody waits for; a period that moves with the event | updates are spaced, recaps come when the day is over, a deleted review is neither listed nor quoted |
| Reactions, boosts, saves, replies (`reaction`, `boost`, `save`, `save-collection`, `reply.service.ts`) | rows, counters on the post, collections | toggle, file, reply, delete | the row read before the transaction decides which way the counter goes | counters follow rows, bookmarks lie in their member's collections |
| Moderation (`report`, `auto-moderation`, `room-role.service.ts`) | `reports`, audit rows, room roles, status of targets | report, resolve, bulk, grant, revoke; the gates | two moderators; HIDE of what its author deleted; counting and then inserting | effect, audit and resolution belong together; gates hold up to a race |
| Ties (`user-follow`, `follow`, `block-mute`) | follows, blocks, mutes | toggle, block, mute | block in two statements, follow in two reads and a write | every reader checks the block itself |
| Posts and mentions (`post`, `mention.service.ts`) | `posts`, `mentions` | create and announce, delete, list | a chain of statements, the last of them after the answer | what is listed opens |
| Lists and searches (`home`, `search`, `share`, `room`, `knowledge`, `event-detail`, `memories`, `user-profile`, `audit-log` ...) | none | list, page, search, preview | each has its own copy of the conditions; cursors into lists that change | they agree; a walk misses little |
| Computed tables (`signal`, `digest`, `follow-recommendation`, `topic-hub-similarity`, `weekly-digest.service.ts`) | signals, digests, recommendations, similarities | nightly, weekly and manual runs | read and written hub by hub while members go on; batches cut without an order; an operator's run beside the cron's | nothing twice; the tables catch up |
| Accounts (`auth.service.ts`, `device-token`, `push-delivery`) | users, refresh tokens, OAuth states, devices | sign up, in and out, rotate, register, push | look and then write; a token sent twice | one account each, a reuse ends the session, ended sessions stay ended |
| Cron locks (`cron-lock.service.ts`) | session locks of a connection pool | try, unlock | the unlock may run on another connection | one replica at a time |
| Rate limits, mail, media, analytics, ops, portfolios | counters in one process, files, appended rows | - | no protocol of their own | - |

How they meet: contributions and recruitment gate DM channels, whose cron reads
their status; posts carry polls and recruitments, verdicts hide them, and a dozen
services list what is left; posts, replies and DM write to the inbox by
`createOrGroup`; the other services insert notification rows in their own
transactions; follows, posts and contributions feed the nightly computations.
`PROJECT.json` lists every component with its files, and the hazards of this code
at the lines where they bite.

## Modules

| Module | Models | State |
|---|---|---|
| `BlockHistory` | what a reader of a knowledge block is promised: a text and an append-only list of revisions | `shown`, `history` |
| `Contributions` | the contribution service, statement by statement | `row`, `block`, `revisions`, `reputation`, `notified`, `request` |
| `RecruitmentBoard` | what an author and applicants are promised: applying, withdrawing, deciding, closing and hiding as atomic steps | `post`, `legacy`, `app` |
| `RecruitmentPromise` | what the service promises of a decision: application, notice and, when it fills the recruitment, both copies of its status in one step | + `recruitment`, `told` |
| `Recruitment` | the recruitment service over these rows | + `request` |
| `DmChannels` | the DM service and its cron over the board and over proposals | + `sentBack`, `channel`, `call`, `cron` |
| `Polls` | one poll | `multiple`, `expired`, `votes`, `ballot` |
| `Inbox` | the rows one member has under one group key | `inbox`, `old`, `request` |
| `EventReminders` | one event, its RSVPs and the runs that remind of it | `now`, `event`, `rsvp`, `sends`, `notified`, `run`, ... |
| `EventPages` | the page of that event: updates from the catalogue, live posts, reviews, recaps | + `live`, `review`, `recap`, `notices`, `log`, `sync`, `page`, `slipped` |
| `Engagement` | what members leave on a post: reactions, boosts, bookmarks and their collections, replies | `post`, `mark`, `count`, `filed`, `folder`, `reply`, `replyCount`, `request` |
| `Moderation` | the gates, reports, verdicts, room moderators, deletion | `target`, `report`, `verdict`, `told`, `roster`, `request` |
| `Social` | follows, blocks, mutes; posts with announcement and mentions | `follow`, `block`, `mute`, `post`, `mention`, `notice`, `request` |
| `Computed` | signals, digests, recommendations, similar hubs and the weekly digest, over `Social` | + `expert`, `signal`, `digest`, `recommended`, `similar`, `stamp`, `last`, `early`, `sunday`, `job` |
| `Places` | what is shown of rooms, hubs and events: operators over that state | none of its own |
| `Feeds` | what is shown of posts and notices, and walks page by page | + `walk`, `audit` |
| `Accounts` | users, sessions, OAuth states, devices | `account`, `token`, `state`, `device`, `muted`, `reused`, `request` |
| `*_proofs` | theorems about the module they extend | |
| `MC*` | instances for TLC, each with its `.cfg` | + `setting` or `agenda` |

`RecruitmentPromise` and `DmChannels` both extend `RecruitmentBoard`, the steps an
author, members and moderators take on a post: the second has it as the environment
whose status the cron reads, the first binds a decision to what must come with it,
and `Recruitment` implements it, the variables of the promise being its own.
`Contributions` is checked against `BlockHistory` through a refinement mapping.
`EventPages` extends `EventReminders`; `Feeds` extends `Places`, that `Computed`,
and that `Social`: readers are operators over what the writers left, and a step of
one leaves the others' variables alone.

How state and actions correspond to the code. A variable is a table, or the
columns of it that matter, one record per row; `request`, `ballot`, `call`, `cron`,
`run`, `job`, `sync` and `page` hold the locals a handler keeps across an `await`, with a program
counter. A handler is an action per database round trip whose order with others
matters; what a transaction writes takes effect at its commit action, and row locks
appear as a predicate (`Locked`) that other writers wait for. A unique key is a
guard: the insert that would break it fails, and the request with it. uuids are
never used again, so a request that holds the id of a deleted row holds `Gone`.
Every handler can be cut off between two of its actions (`Abort`, `Fail`,
`FailTick`, `FailRun`, `FailSync`, `FailPage`), with its transaction rolled back.
`map` in `PROJECT.json` names the lines of each definition. Operators called
"faulty variant" are plausible bugs of that code; no specification uses them.
They are there to show that the properties tell them apart.

What is abstracted:

* Texts, titles, evidence, messages and payload fields are identities or left out.
* `Contributions`: a proposal's text is its identity, scores are in tenths.
* `RecruitmentBoard`: `setRecruitmentStatus` is one step, and `withdraw`'s read of
  the post's visibility is one step with its conditional UPDATE.
  `CANCELLED`, which the schema names, is never written by the code and is left out.
* `DmChannels`: time is in days since an event and stops counting after the
  grace; one request at a time; message visibility, read marks, block and rate
  checks, which only refuse, are left out. A contribution that two curators
  resolve differently is left to `Contributions`.
* `Polls`: the reads before the transaction are one step; validation, access and
  the poll's `CLOSED`, which the code never writes, are left out.
* `Inbox`: one member and one group key; `actors_overflow`, which only the client shows, is left out.
  Symmetric rows of other members never meet these.
* `EventReminders`: one event, `INTERESTED` stands for `GOING`; the event query
  and the RSVP query of a run are one step; the check and the upsert of `setRsvp`
  are one step (moving the event between them gives the same rows as moving it
  after them); `TICK_EVENT_CAP` is not reached. The variables `smooth`, `early`, `failures`
  and `notified` only record what has happened.
* `EventPages`: `HIDDEN` of reviews is written by no code; ratings, bodies and
  helpful marks are left out; a recap is the set of reviews it quotes; `lost` and
  `slipped` only count.
* `Engagement`: one post, whose room everybody can read; blocks and reply policies
  only refuse; `HideReply` and `RestoreReply` are the verdicts of `Moderation`.
* `Moderation`: a window of time is a flag on a row that is taken away once. A
  verdict on a ROOM, USER or REFERENCE touches no target and is left out. The
  gates are on or off (`Kept`, `Enforce`), as their environment variables have them.
  `sawAll` only records whether a gate's query, which is cut at `Take`, returned
  all the recent rows.
* `Social`: which row of a room `createOrGroup` merges into is `Inbox`'s business;
  here it is any. What the gate decides of a post is a choice. `Moderate` hides a
  post whatever its status and shows one that is hidden, as the verdicts of
  `Moderation` do, which has their rows; `gone` only records that the author deleted it.
* `Feeds`, `Places`: ranks, cuts and scores are left out where they only order rows.
  No code changes the status of a room, hub or block, though every reader checks
  for it: `Dormant` and `Unpublished` are constants, for an operator may.
* `Computed`: time goes in ticks and stands still while weekly digests are sent,
  since a run takes minutes and the cooldown is six days: in the code a run stamps
  the instant it began at, and a digest is early or not up to these minutes. What
  posts a reader could be told of is taken to be new every week. Which members came
  in the last ninety days is a constant (`Newcomers`). Runs take any `UserCap` members,
  `HubCap` hubs or `Batch` readers, for the code cuts without an order; the first
  ten, twenty or five rows kept of what a run has scored are not cut. Two hubs share
  no room (`categoryId` is unique), so the least score of a similar hub is one on
  their contributors alone (`Unlike`). Who contributed to a hub only grows.
* `Accounts`: hashes, JWTs and cookies are identities; what Kakao says of a member is a
  constant; `seed.ts` creates accounts without e-mail. A nickname with a random
  ending is any but the one asked for, looked for before or, the eleventh time, not.
  `reused` only records which reuses were answered, and whether a rotation was under way.

## Runs

| Run | Expectation | What it shows |
|---|---|---|
| `contributions` | passes | `LedgersAgree`: an author's approved count is the number of revisions in their name, scores are the formula of the counters, each revision was announced once. `HistoryIntact`: versions 1, 2, ..., the newest is what readers get, and the unique key on (block, version) is never met. `SettledIsFinal`: no request touches a decided proposal again. `AppendOnlyHistory`: the tables implement `BlockHistory` |
| `contributions_once` | violated | two approvals of one proposal of a new block both take effect, against the comment at `knowledge-contribution.service.ts:358` |
| `recruitment` | passes | `FewSeatsOver`: a recruitment still open is oversubscribed by at most one seat per other request, however decisions, withdrawals and applications overlap. `SettledOnceFilled`: after the row has left OPEN settled applications stay. `ImplementsPromise`: each decision is one step with its one notice and its FILLED, and nothing else sends a notice or fills |
| `dm` | passes | `RecruitmentGrace`, `ClosedStaysQuiet` and, under fairness, `EveryChannelCloses`, beside an author who toggles the status or a proposal sent back, and ticks that fail |
| `races` | passes | the two services that look and then insert. `OneVotePerRequest`: on a single-choice poll a race leaves no more votes than requests. `FewUnreadRows`: a race leaves no more rows than calls. `ActorsAgree`: lists stay without repeats, within the cap, with the filtered actor among them |
| `reminders` | passes | `OnceEach`, `OneLostPerFailure`; `EveryoneReminded`: with every tick run in its hour, the D-1 window misses nobody wherever between the hours the event starts. `UpdatesSpaced`: within one window a member gets no more update notices than calls overlap and fan-outs fail. `RecapsInTime`: wherever the catalogue moves the event, a recap of a period not yet over is only shown for a run that found the event moved since it had listed it, one for each |
| `engagement` | passes | `CountersAgree`, `FiledAtHome`; `ReplyCountOnlyFallsBehind`: the reply counter never promises too much, and drifts only by a deletion that comes twice or a verdict on what was deleted |
| `moderation` | passes | `VerdictsAgree`: report, audit rows and notices tell one story, and judges were entitled. `HiddenForCause`, `DeletedStaysDown`: what is hidden was caught or judged, and no one verdict brings back what its author deleted. `GatesHold`: of the rows for which it saw all the recent ones, a gate lets through its threshold and one more for each further request that overlaps |
| `social` | passes | `ListedIsOpenable`: the copies of the conditions agree. `WalkMissesFew`: no row twice, and at most one missed for each cursor that left the list. `NothingTwice`: no more signals of a type than refreshes overlap, and, on whichever days operators run the digests, none before the cooldown of the last is over but for each run that failed. `TablesCatchUp`, under fairness: what the nightly runs compute catches up with follows and contributions, unless there are more hubs or active members than a run takes |
| `weekly_rest` | violated | two readers, a batch of one, no failure, Sundays only: each Sunday's run may take the same reader, who is due again, and never the other, against `weekly-digest.cron.ts:12`. With a batch of two TLC finds nothing |
| `accounts` | passes | `OneAccountEach`: e-mails, nicknames and Kakao identities stay unique, a state serves one callback. `EndedStaysEnded`: a session that has ended, with no rotation under way, never goes on; and a reuse ends its session, unless a rotation of it is under way |
| `reuse_kills` | violated | that exception is real: a rotation that has revoked the newest token when the reuse of an older one revokes the family issues its successor afterwards, and that one is good, against `auth.service.ts:353` |

An instance that looks at several unrelated parts of a module chooses at the start
which of them is to move (`setting`, `agenda`): an initial value no step changes.
TLC then explores their sum instead of their product, and each setting can start
where the interesting cases are near: with reports filed, posts written, readers due.

### Bounds

* `contributions`: one seeded block and room for two, two proposals, two curators,
  two requests at a time. A race is between two requests; two proposals make edits
  of the same block and new blocks meet, and one race the starting point of
  another. The seed is in any order and with or without backfilled revisions.
* `recruitment`: three applicants, two requests, a capacity of two or none: two
  decisions on one application, two on two for the last seats, and a third that
  would take one too many if the second were not counted.
* `dm`: one channel, since channels never read each other; a grace
  of two days, so that a tick comes before, at and after its end; two messages.
* `races`: of polls, one member, whose votes are independent of others', three
  options and two requests, with five ids, two more than votes that can exist, so
  that each toggles, clears and replaces. Of the inbox, four actors with a cap of
  two, so that actors are cut off and come back; two calls at a time; two rows, one
  for each call of a race, or one before and one after a read or the end of the window.
* `reminders`: half hours; a day of two hours, which shortens only the idle time
  between the windows; windows as wide as in the code, the ten minutes of H-1 being
  one instant; an event in the past, for review prompts, or one that starts
  between two hours; runs that take up to an hour; an operator beside the cron;
  one failure. RSVPs change before the last hour. For the updates: two calls at a
  time, one member with an RSVP, four instants, a window of one; for the page: one
  request at a time, which is enough to look before and write after a move, and one
  recap whose event moves under its run (`MaxSlips`).
* `engagement`: two members, two requests, a cap of one collection with room for
  three, three replies, a counter that falls one below zero.
* `moderation`: an owner, a member and staff; two rooms, four targets, three
  reports, thresholds of one, two bodies; queries cut at two rows, so that a gate
  does overlook some.
* `social`: three members, one of them a planner; a public, a private and a dormant
  room in two hubs; four posts; pages of one item, so that three rows make a walk;
  two replicas; one failure. A cooldown of two ticks and a week of four, so that an
  operator's run finds readers due again before Sunday; caps of two hubs and two
  members, of whom three are active at first, and the third only while follows
  last; hubs are alike from half of their contributors on. `weekly_rest`: two
  readers, both with something to read every week, and a batch of one.
* `accounts`: two seeded members, one inactive, two to come; one e-mail, two Kakao
  identities who want the same nickname; three requests, so that two race while a
  third uses what they made; three tokens, the length of a family with a reuse.

Deadlock is not checked where everything may be decided or used up: proposals
(`contributions`), uuids of folders, replies, reports and posts (`engagement`,
`moderation`, `social`), tokens (`accounts`). It is in `recruitment`, `dm`,
`races` and `reminders`.

### Fairness

`DmChannels`: fairness is on the cron alone:
days pass (`WF(Day)`), and each query of the daily run succeeds again and again
if it is attempted again and again (`SF` of each stage). The first is the
scheduler's; the second says that the database is not down at the very same query
every day, which the code's `catch` and the next day's run are there for. A tick
may fail or be skipped any number of times. Nothing is assumed of members, their
requests or curators.

`MCSocial`: the nightly runs come again and again and are not stopped for ever (`WF`
of each), as the scheduler has it; failures are bounded by `MaxFailures`. `TablesCatchUp` speaks of what holds again and again; in its
settings follows only end and contributions are only approved, so that members
come to rest. The violation of `RestIsPickedUp` stands under `RestSpec`: time passes
and every Sunday's run takes place, to its end (`WF` of both), and there is nothing
else in it, no failure and no operator.

All other runs check safety properties only: a request may stop anywhere.

## Proofs

`tlapm` checks every theorem for all values of the constants, from the assumption
named in the module: finite sets of requests, runs or members where a
cardinality is taken, "nobody" and the like being no member, numbers being
naturals. Each goes by an inductive invariant:
initially true, preserved by each action, with one lemma per action.

* `Contributions_proofs`: `TypeCorrect`, `HistoryCorrect`, `LedgersCorrect`,
  `SettledForGood`, `HistoryImplemented` (of `AppendOnlyHistory`). Invariant: types; what a request in flight holds is a row that
  has been submitted (`InFlightOK`); at most one transaction holds the lock of a
  block (`LockOK`), so a version it has read is still the largest (`VersionOK`);
  revisions belong to approved proposals and number a block from one without gap
  (`RevisionsOK`, `OrderOK`). The properties alone are not inductive: that a
  version is free at the insert follows from the lock taken two steps earlier.
  The refinement maps the two commits to the abstract `Edit` and `Create`, the
  list of a block being its rows in version order, and all else to a stutter.
* `Recruitment_proofs`, on both modules that extend the board. Of the service:
  `TypeCorrect`, `LastWordCorrect` (of `LastWordStands`: the decision an applicant was
  last told of is the one in force), `SettledCorrect`, `PromiseImplemented`,
  `SeatsCorrect`. Invariant: types; what a request in flight is about
  (`RequestsOK`), needed as `decide` writes from locals; `LastWordStands` itself.
  The refinement maps each commit to the promise's step and all else to a stutter.
  For the seats, who is accepted and whoever is about to be by a request that has
  counted a seat left (`Racing`) together take no more than the bound (`SeatsOK`):
  whoever counts and finds a seat adds one, to at most one for each other request,
  and the acceptance moves it from one set to the other.
  Of the DM channels: `ChannelTypesCorrect`, `GraceCorrect`, `QuietCorrect`. Invariant:
  types; what the request under way has checked (`RequestOK`); what the cron has
  read is of channels it found open (`CronOK`); a stamp is no older than its
  channel (`AgesOK`), which is what makes a grace counted from the stamp one
  counted from the opening.
* `Races_proofs`, on `Polls` and on `Inbox`, where a check and a write that are two
  statements race, and whose bounds are proved alike.
  Of a poll: `PollTypesCorrect`, `VotesBounded`, `ExpiryCorrect` (of
  `TalliesOnlyShrink`: after the expiry, once the requests that saw the poll open
  have ended, no vote is added). For the bound,
  each vote is attributed to the request that inserted it, injectively, and a
  request about to insert has the votes attributed to it in what it will delete:
  the number of votes is then at most that of requests.
  Of the inbox: `TypeCorrect`, `ActorsCorrect`, `RowsBounded`, `RestCorrect` (of
  `ClosedRowsRest`: nobody is added to a row that was read or is out of the window).
  Again each unread row is attributed to the request that created it, and none to
  one about to create another; the lists read by calls in flight are well formed
  however stale they are (`RequestsOK`), which is why merging into them is safe.
* `EventReminders_proofs`: `TypeCorrect`, `OnceCorrect`, `LossBounded`. Invariant:
  a run about to notify owns its send: the row is there, nobody was notified of
  it, and no other run owns it (`OwnersOK`). The loss bound is preserved because
  inserting a row adds one to both sides and a failure moves one from the runs to
  the failures.
  `EveryoneCorrect` (of `EveryoneReminded`) needs the arithmetic of the ticks. While
  `smooth` holds, a tick is served in each hour, so between the opening and the
  closing of the D-1 window there is one, by `WindowAssumption`: twice the half
  width is no less than an hour, less one instant as both ends are inside. A run
  of that tick found the event, has whoever is not yet reminded in what it has
  still to do, and cannot end before it is done (`RemindedInv`).
  `SpacedCorrect` (of `UpdatesSpaced`), for `EventPagesSpec`: a notice that is not yet
  logged belongs to a call still writing or to a fan-out that failed, and one that
  is logged keeps the member out of every later read of who is due until its
  window has passed. For each notice `SpacedFrom` therefore bounds the notices since
  it by the calls and the failures, which is inductive where the property is not
  (`SpacedInv`).
  `RecapsCorrect` and `DeletedCorrect` (of `DeletedStaysGone`: a review its author has
  deleted is off the list, and no recap quotes it whose run reads later), for the
  same specification. The periods with an early recap together with the runs about
  to write one are no more than the slips: a run that reads the start it has listed
  is about a period that is over, for it began within `MaxRun` and the window of a day
  ago is an hour wide; one that reads another has been counted.
* `Engagement_proofs`: `TypeCorrect`, `CountersCorrect`, `FilingCorrect`,
  `ReplyCountCorrect`. Invariant: types; a request that holds the id of a row
  is about a row that is there (`RequestsOK`), so that a deletion takes away
  exactly one; the counters; where bookmarks lie (`Filing`); the folders of a
  member and the requests about to make one for them together within the cap plus
  the others (`Cap`); replies and their parents (`Parents`, `Behind`).
* `Moderation_proofs`: `TypeCorrect`, `VerdictsCorrect`, `HiddenCorrect`,
  `DeletedCorrect`. Invariant: types; what a request has looked at and who judges
  (`RequestsOK`); two verdicts do not both hold a target's row (`Exclusive`), so a
  status read by the first statement is still the status at the commit; the
  verdicts on a report and the requests about to give one are no more than the
  requests (`Bounded`), which holds because a resolved report is looked at no more;
  nothing is known of reports not filed (`Unfiled`); the tables (`TablesAgree`).
  `GatesCorrect` (of `GatesHold`), with `GatesInv`: the rows a gate let through
  together with the requests it has let pass that are yet to insert are no more
  than the threshold and the other requests. A request that passes has seen fewer
  rows than the threshold, of all that are recent if `sawAll`; an insert moves one
  from the requests to the rows; age only takes rows away. The proof changed the
  property: it used to speak of every state with at most `Take` recent rows, and
  is false of such a state in general, for rows that a cut query let through may
  be the only recent ones later.
* `Accounts_proofs`: `OneAccountCorrect`, `EndedCorrect`. Invariant:
  `OneAccountEach` itself; what a request holds is an account, a token or a device
  that is there, and a state that is used up, which no other callback then finds
  (`Sound`, `RequestsOK`); a family is named by a token of its own (`FamiliesOK`), so
  that a new sign-in never continues an ended family, and only a rotation of a live
  token adds to one. A family whose reuse was answered with no rotation under way
  has ended (`Answered`), since the revocation leaves none of its tokens live and
  nobody held one; and what has ended stays so.

* `Feeds_proofs`, of `FeedsSpec`, in which members, runs and a reader's walk go on at
  once: `SocialTypesCorrect`, `NothingTwiceCorrect`, `ListedCorrect`, `WalksCorrect`.
  `SocialInv`: a post that is referred to is there; a notice of a mention leads to
  the mention or to a deleted post; a request about to notify of a mention has
  inserted it, unless the post was deleted since. Posts stay where they are and
  what was deleted once remains known as such, though verdicts may show it again
  (`Grows`), which is what runs under way rely on.
  `ComputedInv`: the signals of a hub and the refreshes about to insert one are
  together no more than the replicas, since a refresh deletes before it inserts;
  one weekly run at a time, whose readers are all due by their stamps; a reader whose
  last digest and stamp differ in age, and to whom no run is about to give a stamp,
  has had fewer early digests than there were failures (`ReaderOK`), so that the one
  they may get too early is paid for; what a digest quotes is of
  its hub. `ListedIsOpenable` follows from these and from `PlacesAssumption`, which
  has the rooms of a category in one space, as the schema does.
  `WalkInv`: what was shown descends, so that nothing comes twice; what the walk is
  past without having shown it is no more than what was lost at its cursors, a page
  adding to both what its lost cursor takes along; the rows of an inbox and of
  the log stay, so that their cursors are never lost.

Only model-checked: what needs fairness (`EveryChannelCloses`, `TablesCatchUp`), as
the prover has no rule for liveness and none for ENABLED. The three violations are
TLC's counterexamples. Each safety property of a passing run is a theorem.

## Divergences met on the way

Between the code and its comments, schema or names. The first three have a run each;
the others follow from the lines named.

* Two approvals of one new block both take effect (`contributions_once`).
* The rest of a weekly batch may never be picked up (`weekly_rest`).
* The reuse of an old refresh token leaves a good one in the family when a rotation
  is under way (`reuse_kills`); `schema.prisma:82` and `auth.service.ts:353` say that the
  entire family is invalidated.
* The audit snapshot of an approved edit need not be the text overwritten, against
  `schema.prisma:1047`. `SnapshotIsOverwritten` of `Contributions` states it, and TLC
  refutes it with the constants of `contributions`.
* The last two seats accepted at a time leave the recruitment OPEN, against
  `schema.prisma:663`: `FullIsFilled` of `Recruitment`, likewise refuted;
  `FewSeatsOver` bounds what comes of it.
* A proposal's channel opened late has no grace, against `dm.service.ts:59`:
  `GraceForAll` of `DmChannels`, likewise refuted.
* Two votes at a time both stay on a single-choice poll, against
  `poll.service.ts:49`: `SingleChoice` of `Polls`, likewise refuted.
* A notification read between the two statements of `createOrGroup` is merged into
  and stays read, while the comment at `notification.service.ts:55` says it is
  marked unread; one merged into "re-surfaces at the top", while the list is by
  creation; `actors_overflow` never exceeds one, while line 111 says that actors
  beyond the cap are counted.
* `clearVotes` works on an expired poll, while `poll.service.ts:54` says writes are rejected.
* The manual reminder run is "used to catch up" (`event-reminder-ops.controller.ts:11`)
  but has the windows of its own time, so it catches up with nothing missed more
  than an hour ago.
* A follow can form across a block, and a block whose second statement fails leaves
  the follows: the retry meets the unique key and returns.
* A verdict hides a post its author has deleted, and another shows it again, without
  its mentions, which the deletion has cleared.
* A recommendation, a similarity or a digest is computed for as many as a query
  takes, in no order: beyond that the same members or hubs may be left out each time.
* A post deleted while its mentions are fanned out keeps their rows; one whose
  announcement failed has no mentions at all.
* The refresh of signals is called idempotent, which it is not when two overlap.
* The inbox ends a walk early when a page had something filtered out, and its
  unread count counts what is filtered.
* The comment of `block-mute.service.ts` has timelines and searches filter who is
  blocked; they do not.
* A recomputation that finds nothing leaves the old recommendations or digest; the
  count of shared rooms of similar hubs is always zero, as a room is in one category.
* A profile hides recruitments from those who are no planners; the timeline shows them.
* A device registered again while a push is out is revoked by the late rejection.
* Kakao sign-in with an e-mail that is registered already meets the unique key, and
  checks no status of the account.
* `event-card.service.ts` says members who ATTENDED are told of updates; the query
  takes INTERESTED and GOING.
* A review deleted by its author and written again stays DELETED. A catalogue answer
  that comes late overwrites a newer one.
* Suggested rooms for a recap include inactive rooms of one's own, and recommended
  rooms and active hubs include inactive and unpublished ones.
* The audit log's paging is called stable, but each page reads the newest rows
  again: a walk longer than a page of either table skips rows or starts over. Its
  CSV is said to hold 10k rows and holds 200.
* The room to compose in is looked for in one hub with a link, and there is none if
  that one is out of sight, though another might do.
* Digests and quote previews keep the text of posts hidden or deleted since.

## Not modelled

* Read-only views without conditions of their own: reputation, portfolios, poll
  tallies, application lists. Rendering, ranking, calendar files, share images.
* `post.update`, which replaces the text of a post: no property is about texts.
* `createUserRoom`, whose slug is looked for and then taken under a unique key, as
  nicknames are in `Accounts`; the home feed's own cursor.
* Media, references, source rules, analytics, ops counts, health: rows that are
  inserted or deleted by age and that no other component acts upon.
* Rate limits: counters per process that only refuse; every model lets a member
  act at any time.
* Mail and push services, Kakao and the event catalogue: external; what they
  answer is a choice in `Accounts` and `EventPages`.
* The lock's connection: which connection of the pool a statement runs on is
  decided in Prisma. Crons are taken to exclude each other, as `tryLock` says.
* The clients, and `seed.ts` beyond the initial states taken from it.

## What could follow

`EventPages`, `Engagement`, `Moderation` and `Accounts` have no abstract specification
of their own, as `Contributions` and `Recruitment` have: what a member's bookmarks or
a session promise could be stated as one and refined. A pool of connections under the
cron lock would need a model of Prisma's pool.
