----------------------------- MODULE DmChannels -----------------------------
(* Scoped DM: DmService opens a channel between the two parties of a running *)
(* workflow and appends messages to it, DmLifecycleCron closes it 30 days    *)
(* after the workflow ended.  The workflows are a recruitment post, as       *)
(* RecruitmentBoard shows it, and proposals that may be sent back for        *)
(* changes.  Requests and the cron run side by side, one query at a time.    *)
(* Time is counted in days since the event in question.                      *)
EXTENDS RecruitmentBoard, Integers

CONSTANTS Proposals,   \* contributions
          Grace,       \* GRACE_DAYS
          MaxMessages, \* bound on the messages of a channel
          NoKey        \* what an idle request works on

\* The channels are keyed by (scope, ref_id, party_a): one per applicant of the
\* post, one per proposal.
Keys == Applicants \cup Proposals

ASSUME DmAssumption ==
  /\ Applicants \cap Proposals = {}
  /\ NoKey \notin Keys
  /\ Grace \in Nat \ {0}
  /\ MaxMessages \in Nat \ {0}

Never == -1
Days == 0 .. Grace + 1   \* Grace + 1 stands for any longer time

VARIABLES sentBack, \* days since a proposal became NEEDS_CHANGES (resolved_at)
          channel,  \* dm_channels, with the number of dm_messages of each
          call,  \* the request in flight
          cron      \* the run in progress, and whether today's is due

dmVars == <<post, legacy, app, sentBack, channel, call, cron>>

NoChannel == [status |-> "ABSENT", ended |-> Never, age |-> 0, messages |-> 0]
NewChannel == [NoChannel EXCEPT !.status = "OPEN"]
NoRequest == [kind |-> "none", key |-> NoKey]
AtRest == [pc |-> "idle", open |-> {}, ended |-> {}, due |-> FALSE]

DmInit ==
  /\ Init
  /\ sentBack = [p \in Proposals |-> Never]
  /\ channel = [k \in Keys |-> NoChannel]
  /\ call = NoRequest
  /\ cron = AtRest

-----------------------------------------------------------------------------
\* The workflows change under the feet of the DM service.
Workflow ==
  /\ Next
  /\ UNCHANGED <<sentBack, channel, call, cron>>

\* A curator's NEEDS_CHANGES, which is terminal.
AskForChanges(p) ==
  /\ sentBack[p] = Never
  /\ sentBack' = [sentBack EXCEPT ![p] = 0]
  /\ UNCHANGED <<post, legacy, app, channel, call, cron>>

Begin(kind, k) ==
  /\ call = NoRequest
  /\ call' = [kind |-> kind, key |-> k]
  /\ UNCHANGED <<post, legacy, app, sentBack, channel, cron>>

\* resolveOrCreateChannel, the checks.
ResolveRecruitment(u) ==
  /\ post = "VISIBLE"
  /\ app[u] \in {"PENDING", "ACCEPTED"}
  /\ legacy \in {"OPEN", "FILLED"}
  /\ Begin("open", u)

ResolveContribution(p) ==
  /\ sentBack[p] # Never
  /\ Begin("open", p)

Resolve ==
  \/ \E u \in Applicants : ResolveRecruitment(u)
  \/ \E p \in Proposals : ResolveContribution(p)

\* Faulty variant of UpsertChannel: an existing channel is reopened.
UpsertChannelReopening ==
  /\ call.kind = "open"
  /\ channel' = [channel EXCEPT ![call.key] =
       IF @.status = "ABSENT" THEN NewChannel ELSE [@ EXCEPT !.status = "OPEN"]]
  /\ call' = NoRequest
  /\ UNCHANGED <<post, legacy, app, sentBack, cron>>

\* resolveOrCreateChannel, the upsert: an existing channel is returned as it is.
UpsertChannel ==
  /\ call.kind = "open"
  /\ channel' = [channel EXCEPT ![call.key] =
       IF @.status = "ABSENT" THEN NewChannel ELSE @]
  /\ call' = NoRequest
  /\ UNCHANGED <<post, legacy, app, sentBack, cron>>

\* send, first half: the channel must be open ...
CheckOpen(k) ==
  /\ channel[k].status = "OPEN"
  /\ channel[k].messages < MaxMessages
  /\ Begin("send", k)

\* ... and, after the block, rate and spam checks, the message is created.
CreateMessage ==
  /\ call.kind = "send"
  /\ channel' = [channel EXCEPT ![call.key].messages = @ + 1]
  /\ call' = NoRequest
  /\ UNCHANGED <<post, legacy, app, sentBack, cron>>

\* A request refused by a later check, or that fails.
Refuse ==
  /\ call # NoRequest
  /\ call' = NoRequest
  /\ UNCHANGED <<post, legacy, app, sentBack, channel, cron>>

-----------------------------------------------------------------------------
\* The cron.  The advisory lock keeps the other replicas out of the run.
Unstamped == {k \in Keys : channel[k].status = "OPEN" /\ channel[k].ended = Never}

ListOpen ==
  /\ cron.pc = "idle"
  /\ cron.due
  /\ cron' = [pc |-> "listed", open |-> Unstamped, ended |-> {}, due |-> FALSE]
  /\ UNCHANGED <<post, legacy, app, sentBack, channel, call>>

\* Faulty variant of RecruitmentEnded: FILLED is forgotten.
RecruitmentEndedClosed == {"CLOSED"}

\* RECRUITMENT_ENDED; the endpoints never write CANCELLED.
RecruitmentEnded == {"CLOSED", "FILLED"}

\* Phase A, recruitments: the posts are read ...
ReadPosts ==
  /\ cron.pc = "listed"
  /\ cron' = [cron EXCEPT !.pc = "read", !.ended =
       IF legacy \in RecruitmentEnded THEN cron.open \cap Applicants ELSE {}]
  /\ UNCHANGED <<post, legacy, app, sentBack, channel, call>>

\* ... and the channels of those that have ended are stamped with now.
Stamp ==
  /\ cron.pc = "read"
  /\ channel' = [k \in Keys |->
       IF k \in cron.ended THEN [channel[k] EXCEPT !.ended = 0] ELSE channel[k]]
  /\ cron' = [cron EXCEPT !.pc = "stamped", !.ended =
       {p \in cron.open \cap Proposals : sentBack[p] # Never}]
  /\ UNCHANGED <<post, legacy, app, sentBack, call>>

\* Phase A, contributions: one update after the other, with resolved_at.
StampContribution(p) ==
  /\ cron.pc = "stamped"
  /\ p \in cron.ended
  /\ channel' = [channel EXCEPT ![p] = [@ EXCEPT !.ended = sentBack[p]]]
  /\ cron' = [cron EXCEPT !.ended = @ \ {p}]
  /\ UNCHANGED <<post, legacy, app, sentBack, call>>

\* Faulty variant of PastGrace: the grace is left out of the cutoff.
StampedAtAll(k) == channel[k].status = "OPEN" /\ channel[k].ended >= 0

PastGrace(k) == channel[k].status = "OPEN" /\ channel[k].ended >= Grace

\* Phase B.  Of the channels stamped Grace whole days ago, some are a little
\* younger than the cutoff and some a little older.
Sweep ==
  /\ cron.pc = "stamped"
  /\ cron.ended = {}
  /\ \E spared \in SUBSET {k \in Keys : channel[k].ended = Grace} :
       channel' = [k \in Keys |->
         IF PastGrace(k) /\ k \notin spared
         THEN [channel[k] EXCEPT !.status = "CLOSED"] ELSE channel[k]]
  /\ cron' = [AtRest EXCEPT !.due = cron.due]
  /\ UNCHANGED <<post, legacy, app, sentBack, call>>

\* A tick that throws is logged; the next one starts from nothing.
FailTick ==
  /\ cron.pc # "idle"
  /\ cron' = [AtRest EXCEPT !.due = cron.due]
  /\ UNCHANGED <<post, legacy, app, sentBack, channel, call>>

Older(d) == IF d \in 0 .. Grace THEN d + 1 ELSE d

\* A day passes; a tick takes far less than one.
Day ==
  /\ cron.pc = "idle"
  /\ sentBack' = [p \in Proposals |-> Older(sentBack[p])]
  /\ channel' = [k \in Keys |->
       IF channel[k].status = "ABSENT" THEN channel[k]
       ELSE [channel[k] EXCEPT !.ended = Older(@), !.age = Older(@)]]
  /\ cron' = [cron EXCEPT !.due = TRUE]
  /\ UNCHANGED <<post, legacy, app, call>>

Serve == Resolve \/ UpsertChannel \/ (\E k \in Keys : CheckOpen(k)) \/ CreateMessage \/ Refuse

DmNext ==
  \/ Workflow
  \/ \E p \in Proposals : AskForChanges(p)
  \/ Serve
  \/ ListOpen
  \/ ReadPosts
  \/ Stamp
  \/ \E p \in Proposals : StampContribution(p)
  \/ Sweep
  \/ FailTick
  \/ Day

\* Days go by, the daily tick fires again and again, and not every tick fails
\* at the same query.  Nothing is assumed of members and their requests.
DmFairness ==
  /\ WF_dmVars(Day)
  /\ SF_dmVars(ListOpen)
  /\ SF_dmVars(ReadPosts)
  /\ SF_dmVars(Stamp)
  /\ \A p \in Proposals : SF_dmVars(StampContribution(p))
  /\ SF_dmVars(Sweep)

DmSpec == DmInit /\ [][DmNext]_dmVars /\ DmFairness

-----------------------------------------------------------------------------
ChannelType ==
  {NoChannel} \cup
  [status : {"OPEN"}, ended : Days \cup {Never}, age : Days, messages : 0 .. MaxMessages] \cup
  [status : {"CLOSED"}, ended : Grace .. Grace + 1, age : Days, messages : 0 .. MaxMessages]

\* Every column, and every local of a request and of the cron, has its type;
\* a closed channel is one whose workflow ended a grace period ago.
DmTypeOK ==
  /\ post \in PostStatuses
  /\ legacy \in RecruitmentStatuses
  /\ app \in [Applicants -> AppStatuses]
  /\ sentBack \in [Proposals -> Days \cup {Never}]
  /\ channel \in [Keys -> ChannelType]
  /\ call \in [kind : {"none", "open", "send"}, key : Keys \cup {NoKey}]
  /\ cron \in [pc : {"idle", "listed", "read", "stamped"}, open : SUBSET Keys,
               ended : SUBSET Keys, due : BOOLEAN]

Closes(k) == channel[k].status = "OPEN" /\ channel[k].status' = "CLOSED"

\* A channel of a recruitment that closes has been there, open, for the whole
\* grace period, however the author toggled the status meanwhile and whichever
\* ticks failed.
RecruitmentGrace ==
  [][\A u \in Applicants : Closes(u) => channel[u].age >= Grace]_dmVars

\* A closed channel never opens again and, once a message that was under way
\* when it closed has arrived, gets no more messages.
ClosedStaysQuiet ==
  [][\A k \in Keys : channel[k].status = "CLOSED" /\ call # [kind |-> "send", key |-> k] =>
       UNCHANGED <<channel[k].status, channel[k].messages>>]_dmVars

\* The cron, the only closer there is, misses no channel: that of a recruitment
\* which stays ended, and that of any proposal, is eventually closed, though
\* ticks may be skipped or fail half way.
EveryChannelCloses ==
  /\ \A p \in Proposals : channel[p].status = "OPEN" ~> channel[p].status = "CLOSED"
  /\ \A u \in Applicants :
       <>[](legacy # "OPEN") =>
         (channel[u].status = "OPEN" ~> channel[u].status = "CLOSED")

\* The service's comment promises a 30-day grace as a window of continued
\* wrap-up messaging.  A proposal's channel has none when it is opened late:
\* the grace has been running since the verdict.
GraceForAll == [][\A k \in Keys : Closes(k) => channel[k].age >= Grace]_dmVars

=============================================================================
