---------------------------- MODULE CampaignStats ----------------------------
(* The reports on a campaign: EmailService.GetCampaignStats with its Redis     *)
(* cache, and the queries for non-openers and bounced addresses, beside the    *)
(* pipeline and the webhooks that write the tables they read.  Unsubscribe and *)
(* removal write only the suppression list, which no report reads; they are    *)
(* left out.  Opens stand for deliveries and clicks too, counted alike.        *)
EXTENDS EmailFeedback, FiniteSets

CONSTANTS
  Campaign,   \* the requests whose metadata carries the campaign tag
  Readers     \* the calls of GetCampaignStats for that tag

ASSUME CampaignAssumption == Campaign \subseteq Requests /\ IsFiniteSet(Campaign)

VARIABLES
  reader,   \* reader[c]: where call c is, what it read, what had been answered
  cache     \* the Redis value under "campaign_stats:" and the tag

reportVars == <<reader, cache>>
campaignVars == <<allVars, reportVars>>

Columns == {"total_sent"} \union Kinds
NoStats == <<>>
ReaderPcs == {"idle", "query", "store", "answered", "failed"}
NewReader == [pc |-> "idle", stats |-> NoStats, before |-> {}]

CampaignInit ==
  /\ FeedbackInit
  /\ reader = [c \in Readers |-> NewReader]
  /\ cache = NoStats

-----------------------------------------------------------------------------
(* The queries of EmailRepository, one statement each *)

HasEvent(e, kind) == \E ev \in events : ev.email = e /\ ev.kind = kind

\* Mutants: total_sent counts what is marked as sent, not what there is;
\* bounces are counted by the status of the row.
CountedAsSent(column) ==
  {e \in Campaign : IF column = "total_sent" THEN emails[e].status = "sent"
                    ELSE HasEvent(e, column)}

CountedByStatus(column) ==
  {e \in Campaign : Stored(emails, e) /\
     (column \in Terminal => emails[e].status = StatusOf(column))}

\* The emails that a column of GetCampaignStats counts: every row of the
\* campaign, or those with an event of that type, however many they have.
Counted(column) ==
  {e \in Campaign : Stored(emails, e) /\ (column = "total_sent" \/ HasEvent(e, column))}

Stats == [column \in Columns |-> Cardinality(Counted(column))]

\* Mutant: the status of the row is not looked at.
NonOpenersOfAnyStatus ==
  {e \in Campaign : Stored(emails, e) /\ ~HasEvent(e, "email.opened")}

\* GetCampaignNonOpeners and GetCampaignBouncedEmails: the rows whose
\* addresses they return.
NonOpeners ==
  {e \in Campaign : emails[e].status = "sent" /\ ~HasEvent(e, "email.opened")}

BouncedEmails == {e \in Campaign : emails[e].status \in {"bounced", "complaint"}}

-----------------------------------------------------------------------------
(* EmailService.GetCampaignStats, in the API process.  A call whose process    *)
(* dies takes no further step.                                                 *)

AnsweredCalls == {c \in Readers : reader[c].pc = "answered"}

\* redis.Get: a hit is the answer; a miss or an error leads to the query.
ReadCache(c) ==
  /\ reader[c].pc = "idle"
  /\ \/ /\ cache # NoStats
        /\ reader' = [reader EXCEPT ![c] =
             [pc |-> "answered", stats |-> cache, before |-> AnsweredCalls]]
        /\ UNCHANGED outages
     \/ /\ reader' = [reader EXCEPT ![c] =
             [pc |-> "query", stats |-> NoStats, before |-> AnsweredCalls]]
        /\ IF cache = NoStats THEN UNCHANGED outages ELSE Outage
  /\ UNCHANGED <<pipelineVars, emails, suppressions, feedbackVars, cache>>

\* Mutant: the error of the query is not looked at.
FailUnnoticed(c) == reader' = [reader EXCEPT ![c] = [@ EXCEPT !.pc = "answered"]]

\* The call ends without an answer.
Fail(c) == reader' = [reader EXCEPT ![c] = [NewReader EXCEPT !.pc = "failed"]]

QueryStats(c) ==
  /\ reader[c].pc = "query"
  /\ \/ /\ reader' = [reader EXCEPT ![c] = [@ EXCEPT !.pc = "store", !.stats = Stats]]
        /\ UNCHANGED outages
     \/ Outage /\ Fail(c)
  /\ UNCHANGED <<pipelineVars, emails, suppressions, feedbackVars, cache>>

\* redis.Set, whatever is there by now; its error is ignored.
StoreStats(c) ==
  /\ reader[c].pc = "store"
  /\ \/ cache' = reader[c].stats /\ UNCHANGED outages
     \/ Outage /\ cache' \in {cache, reader[c].stats}
  /\ reader' = [reader EXCEPT ![c] = [@ EXCEPT !.pc = "answered"]]
  /\ UNCHANGED <<pipelineVars, emails, suppressions, feedbackVars>>

\* The 30 s of the value are over.
Expire ==
  /\ cache # NoStats
  /\ cache' = NoStats
  /\ UNCHANGED <<pipelineVars, emails, suppressions, outages, feedbackVars, reader>>

GetCampaignStats(c) ==
  \/ ReadCache(c)
  \/ QueryStats(c)
  \/ StoreStats(c)

CampaignNext ==
  \/ Next /\ UNCHANGED <<feedbackVars, reportVars>>
  \/ (\E h \in Notices : ProcessResendWebhook(h)) /\ UNCHANGED reportVars
  \/ \E c \in Readers : GetCampaignStats(c)
  \/ Expire

CampaignSpec == CampaignInit /\ [][CampaignNext]_campaignVars

-----------------------------------------------------------------------------
(* What the reports promise *)

\* a counts no more than b in any column.
AtMost(a, b) == \A column \in Columns : a[column] <= b[column]

\* Every variable has its type.
StatsTypeOK ==
  /\ reader \in [Readers -> [pc : ReaderPcs, before : SUBSET Readers,
       stats : {NoStats} \union [Columns -> 0..Cardinality(Campaign)]]]
  /\ cache \in {NoStats} \union [Columns -> 0..Cardinality(Campaign)]
  /\ \A c \in Readers : reader[c].pc \in {"store", "answered"} => reader[c].stats # NoStats

\* Nothing that was ever counted is later taken back: an answer, or what the
\* cache holds, counts at most what the tables hold now, and no column of it
\* exceeds its total_sent, however long the reader or the cache kept it.
NeverAhead ==
  \A s \in {cache} \union {reader[c].stats : c \in Readers} :
    s # NoStats => /\ AtMost(s, Stats)
                   /\ \A column \in Columns : s[column] <= s["total_sent"]

\* Counts go back for somebody who asks again (an answer below one that had
\* been given before the call began) only when the low counts were read by some
\* other call too, which overlapped with one that read the high ones: neither
\* had been answered when the other began.  Or Redis failed twice.
BackOnlyByOverlap ==
  \A c \in AnsweredCalls : \A d \in reader[c].before :
    ~AtMost(reader[d].stats, reader[c].stats) =>
      \/ \E v, w \in Readers :
           /\ reader[v].stats = reader[d].stats /\ v \notin reader[w].before
           /\ reader[w].stats = reader[c].stats /\ w \notin reader[v].before
           /\ w # c
      \/ outages > 1

\* Every address on the list of bounces has a bounce or a complaint on record:
\* no status without its event, wherever the webhook stops.
BouncesOnRecord ==
  \A e \in BouncedEmails : HasEvent(e, "email.bounced") \/ HasEvent(e, "email.complained")

\* Whoever is listed as a non-opener has been sent the message: the provider
\* took it from one of the attempts.
NonOpenersWereMailed ==
  \A e \in NonOpeners : \E r \in Requests, n \in Attempts :
    task[r].email = e /\ accepted[r][n] > 0
=============================================================================
