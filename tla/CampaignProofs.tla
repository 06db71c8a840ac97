---------------------------- MODULE CampaignProofs ----------------------------
(* Theorems about the reports on a campaign of any size, with any readers,     *)
(* beside the pipeline and the webhooks.                                       *)
EXTENDS CampaignStats, EmailFeedbackProofs, FiniteSetTheorems

\* No status without its event: the event is stored before the status is set.
Recorded ==
  /\ \A r \in Requests : emails[r].status \in {"bounced", "complaint"} =>
       HasEvent(r, "email.bounced") \/ HasEvent(r, "email.complained")
  /\ \A h \in Notices : hook[h].pc = "mark" => HasEvent(hook[h].email, hook[h].kind)

TablesInv == FeedbackInv /\ SentTaken /\ Recorded

CampaignInv == TablesInv /\ StatsTypeOK /\ NeverAhead

-----------------------------------------------------------------------------
(* The tables the queries read *)

\* What was counted once is counted again.
TablesGrow ==
  /\ \A r \in Requests : Stored(emails, r) => Stored(emails, r)'
  /\ events \subseteq events'

LEMMA PipelineTables ==
  ASSUME TablesInv, Next, UNCHANGED feedbackVars
  PROVE  TablesInv' /\ TablesGrow
<1> USE DEF TablesInv
<1>1. FeedbackInv'
  BY FeedbackStep DEF FeedbackNext
<1>2. TypeOK /\ OwnershipInv /\ Order /\ Acceptances /\ PipelineInv /\ IDsBelong /\ TerminalTaken
  BY DEF FeedbackInv, PipelineInv
<1>3. SentTaken'
  BY <1>2, SentTakenStep
<1>4. UNCHANGED <<hook, events>>
  BY DEF feedbackVars
<1>5. \A r \in Requests : emails'[r].status \in {"bounced", "complaint"} =>
        emails[r].status \in {"bounced", "complaint"}
  BY <1>2, RowWrites DEF ByRequest, ByAttempt
<1>6. Recorded'
  BY <1>4, <1>5 DEF Recorded, HasEvent
<1>7. TablesGrow
  BY <1>2, <1>4, PipelineSteps DEF TablesGrow
<1> QED BY <1>1, <1>3, <1>6, <1>7

LEMMA WebhookTables ==
  ASSUME TablesInv, NEW h \in Notices, ProcessResendWebhook(h)
  PROVE  TablesInv' /\ TablesGrow
<1> USE DEF TablesInv
<1>1. FeedbackInv'
  BY FeedbackStep DEF FeedbackNext
<1>2. /\ UNCHANGED pipelineVars
      /\ \A g \in Notices \ {h} : hook'[g] = hook[g]
      /\ hook \in [Notices -> HookRecords] /\ NoticeOk(h)
      /\ emails \in [Requests -> Rows]
  BY DEF ProcessResendWebhook, Receive, LookUp, StoreEvent, MarkTerminal, Suppress, HookCrash,
         Answer, HookTo, FeedbackInv, HookTypes, NoticesOk, PipelineInv, TypeOK
<1>3. events \subseteq events'
  BY DEF ProcessResendWebhook, Receive, LookUp, StoreEvent, Record, MarkTerminal, Suppress,
         HookCrash
<1>4. \/ emails' = emails
      \/ /\ hook[h].pc = "mark"
         /\ emails' = UpdateStatus(emails, hook[h].email, StatusOf(hook[h].kind))
  BY DEF ProcessResendWebhook, Receive, LookUp, StoreEvent, MarkTerminal, Attempted, Suppress,
         HookCrash
<1>5. \A r \in Requests :
        \/ emails'[r].status = emails[r].status
        \/ /\ hook[h].pc = "mark" /\ hook[h].email = r /\ hook[h].kind \in Terminal
           /\ emails'[r].status \in {"bounced", "complaint"}
  <2>1. CASE emails' = emails
    BY <2>1
  <2>2. CASE /\ hook[h].pc = "mark"
             /\ emails' = UpdateStatus(emails, hook[h].email, StatusOf(hook[h].kind))
    <3>1. hook[h].email \in Requests /\ hook[h].kind \in Terminal
      BY <1>2, <2>2 DEF NoticeOk, FeedbackInv, PipelineInv, TypeOK
    <3>2. StatusOf(hook[h].kind) \in {"bounced", "complaint"} \cap Statuses
      BY DEF StatusOf, Statuses
    <3> QED BY <1>2, <2>2, <3>1, <3>2, StatementEffects
  <2> QED BY <1>4, <2>1, <2>2
<1>6. \A r \in Requests : Taken(r)' <=> Taken(r)
  BY <1>2 DEF Taken, pipelineVars
<1>7. SentTaken'
  BY <1>5, <1>6 DEF SentTaken
<1>8. \A r \in Requests : Stored(emails, r) => Stored(emails, r)'
  BY <1>5 DEF Stored
<1>9. \A r \in Requests, kind \in Kinds : HasEvent(r, kind) => HasEvent(r, kind)'
  BY <1>3 DEF HasEvent
<1>10. hook'[h].pc = "mark" => HasEvent(hook[h].email, hook[h].kind)'
  <2> SUFFICES ASSUME hook'[h].pc = "mark" PROVE HasEvent(hook[h].email, hook[h].kind)'
    OBVIOUS
  <2>1. StoreEvent(h)
    BY <1>2 DEF ProcessResendWebhook, Receive, LookUp, MarkTerminal, Suppress, HookCrash,
                Answer, HookTo, HookRecords
  <2>2. HookTo(h, "mark") /\ Record(h)
    BY <1>2, <2>1 DEF StoreEvent, Answer, HookRecords
  <2>3. hook'[h].email = hook[h].email /\ hook'[h].kind = hook[h].kind
    BY <1>2, <2>2 DEF HookTo, HookRecords
  <2>4. [id |-> hook[h].id, kind |-> hook[h].kind, email |-> hook[h].email] \in events'
    BY <2>2 DEF Record
  <2> QED BY <2>3, <2>4 DEF HasEvent
<1>11. Recorded'
  <2>1. ASSUME NEW r \in Requests, emails'[r].status \in {"bounced", "complaint"}
        PROVE  HasEvent(r, "email.bounced")' \/ HasEvent(r, "email.complained")'
    <3>1. HasEvent(r, "email.bounced") \/ HasEvent(r, "email.complained")
      BY <1>5, <2>1 DEF Recorded, Terminal
    <3> QED BY <1>9, <3>1 DEF Kinds
  <2>2. ASSUME NEW g \in Notices, hook'[g].pc = "mark"
        PROVE  HasEvent(hook[g].email, hook[g].kind)'
    <3>1. CASE g = h
      BY <1>10, <2>2, <3>1
    <3>2. CASE g # h
      <4>1. HasEvent(hook[g].email, hook[g].kind) /\ hook'[g] = hook[g]
        BY <1>2, <2>2, <3>2 DEF Recorded
      <4> QED BY <1>3, <4>1 DEF HasEvent
    <3> QED BY <3>1, <3>2
  <2> QED BY <2>1, <2>2 DEF Recorded
<1> QED BY <1>1, <1>3, <1>7, <1>8, <1>11 DEF TablesGrow

-----------------------------------------------------------------------------
(* The counts *)

LEMMA CountsBounded ==
  /\ Stats \in [Columns -> 0..Cardinality(Campaign)]
  /\ \A column \in Columns : Stats[column] <= Stats["total_sent"]
  /\ Cardinality(Campaign) \in Nat
<1>1. Cardinality(Campaign) \in Nat
  BY CampaignAssumption, FS_CardinalityType
<1>2. ASSUME NEW column \in Columns
      PROVE  /\ Cardinality(Counted(column)) \in 0..Cardinality(Campaign)
             /\ Cardinality(Counted(column)) <= Cardinality(Counted("total_sent"))
  <2>1. /\ Counted(column) \in SUBSET Campaign /\ Counted("total_sent") \in SUBSET Campaign
        /\ Counted(column) \in SUBSET Counted("total_sent")
    BY DEF Counted
  <2> HIDE DEF Counted
  <2>2. /\ IsFiniteSet(Counted(column)) /\ Cardinality(Counted(column)) <= Cardinality(Campaign)
        /\ IsFiniteSet(Counted("total_sent"))
    BY <2>1, CampaignAssumption, FS_Subset
  <2>3. Cardinality(Counted(column)) \in Nat
    BY <2>2, FS_CardinalityType
  <2>4. Cardinality(Counted(column)) <= Cardinality(Counted("total_sent"))
    BY <2>1, <2>2, FS_Subset
  <2> QED BY <1>1, <2>2, <2>3, <2>4
<1>3. "total_sent" \in Columns
  BY DEF Columns
<1> QED BY <1>1, <1>2, <1>3 DEF Stats

LEMMA CountsGrow ==
  ASSUME TablesGrow
  PROVE  AtMost(Stats, Stats')
<1> SUFFICES ASSUME NEW column \in Columns
             PROVE  Cardinality(Counted(column)) <= Cardinality(Counted(column)')
  BY DEF AtMost, Stats
<1>1. /\ Counted(column) \in SUBSET (Counted(column)')
      /\ Counted(column)' \in SUBSET Campaign
  BY CampaignAssumption DEF Counted, TablesGrow, HasEvent
<1> DEFINE before == Counted(column)
           after == Counted(column)'
<1>2. before \in SUBSET after /\ after \in SUBSET Campaign
  BY <1>1
<1> HIDE DEF before, after
<1>3. IsFiniteSet(after)
  BY <1>2, CampaignAssumption, FS_Subset
<1>4. Cardinality(before) <= Cardinality(after)
  BY <1>2, <1>3, FS_Subset
<1> QED BY <1>4 DEF before, after

\* What the readers and the cache hold stays true while the tables grow.
LEMMA ReportsStay ==
  ASSUME StatsTypeOK, NeverAhead, TablesGrow, UNCHANGED reportVars
  PROVE  StatsTypeOK' /\ NeverAhead'
<1>1. StatsTypeOK'
  BY DEF StatsTypeOK, reportVars
<1>2. Stats \in [Columns -> Nat] /\ Stats' \in [Columns -> Nat]
  <2>1. Stats \in [Columns -> 0..Cardinality(Campaign)] /\ Cardinality(Campaign) \in Nat
    BY CountsBounded
  <2>2. ASSUME NEW column \in Columns PROVE Cardinality(Counted(column)') \in Nat
    <3>1. Counted(column)' \in SUBSET Campaign
      BY DEF Counted
    <3> HIDE DEF Counted
    <3> QED BY <3>1, CampaignAssumption, FS_Subset, FS_CardinalityType
  <2>3. Stats' \in [Columns -> Nat]
    BY <2>2 DEF Stats
  <2> QED BY <2>1, <2>3
<1>3. ASSUME NEW s \in {cache} \union {reader[c].stats : c \in Readers}, s # NoStats
      PROVE  AtMost(s, Stats') /\ \A column \in Columns : s[column] <= s["total_sent"]
  <2>1. AtMost(s, Stats) /\ \A column \in Columns : s[column] <= s["total_sent"]
    BY <1>3 DEF NeverAhead
  <2>2. s \in [Columns -> 0..Cardinality(Campaign)] /\ Cardinality(Campaign) \in Nat
    BY <1>3, CountsBounded DEF StatsTypeOK
  <2> HIDE DEF Stats
  <2>3. AtMost(Stats, Stats')
    BY CountsGrow
  <2>4. ASSUME NEW column \in Columns PROVE s[column] <= Stats'[column]
    <3>1. /\ s[column] \in Nat /\ Stats[column] \in Nat /\ Stats'[column] \in Nat
          /\ s[column] <= Stats[column] /\ Stats[column] <= Stats'[column]
      BY <1>2, <2>1, <2>2, <2>3 DEF AtMost
    <3> QED BY <3>1
  <2> QED BY <2>1, <2>4 DEF AtMost
<1> QED BY <1>1, <1>3 DEF NeverAhead, reportVars

-----------------------------------------------------------------------------
(* The readers *)

\* A call or the end of the cached value touches no table.
LEMMA ReadersTables ==
  ASSUME TablesInv, UNCHANGED <<pipelineVars, emails, suppressions, feedbackVars>>,
         outages' = outages \/ outages' = outages + 1
  PROVE  TablesInv' /\ TablesGrow
<1>1. /\ PipelineInv /\ outages \in Nat /\ suppressions \subseteq Addresses
      /\ UNCHANGED <<hook, events, told>>
  BY DEF TablesInv, FeedbackInv, PipelineInv, TypeOK, feedbackVars
<1>2. PipelineInv'
  BY <1>1, PipelineKept
<1>3. /\ IDsBelong' /\ TerminalTaken' /\ NoticesOk' /\ EventsBelong' /\ HookTypes'
      /\ SentTaken' /\ Recorded' /\ TablesGrow
  BY <1>1 DEF TablesInv, FeedbackInv, IDsBelong, TerminalTaken, NoticesOk, NoticeOk, EventsBelong,
              HookTypes, SentTaken, Recorded, HasEvent, TablesGrow, Taken, pipelineVars
<1>4. \A h \in Notices : Suppressing(h)'
  BY <1>1 DEF TablesInv, FeedbackInv, Suppressing
<1> QED BY <1>2, <1>3, <1>4 DEF TablesInv, FeedbackInv

\* What a call reads was counted just now, or is what the cache holds.
LEMMA ReaderReports ==
  ASSUME StatsTypeOK, NeverAhead, UNCHANGED <<emails, events>>,
         NEW c \in Readers, NEW new,
         new \in [pc : ReaderPcs, before : SUBSET Readers,
                  stats : {NoStats, cache, reader[c].stats, Stats}],
         new.pc \in {"store", "answered"} => new.stats # NoStats,
         reader' = [reader EXCEPT ![c] = new],
         cache' \in {cache, NoStats, reader[c].stats}
  PROVE  StatsTypeOK' /\ NeverAhead'
<1> DEFINE Sound(s) ==
      s = NoStats \/ (/\ s \in [Columns -> 0..Cardinality(Campaign)]
                     /\ AtMost(s, Stats) /\ \A column \in Columns : s[column] <= s["total_sent"])
<1>1. /\ reader \in [Readers -> [pc : ReaderPcs, before : SUBSET Readers,
           stats : {NoStats} \union [Columns -> 0..Cardinality(Campaign)]]]
      /\ cache \in {NoStats} \union [Columns -> 0..Cardinality(Campaign)]
  BY DEF StatsTypeOK
<1>2. \A d \in Readers : Sound(reader[d].stats)
  BY <1>1 DEF NeverAhead
<1>3. Sound(cache)
  BY <1>1 DEF NeverAhead
<1>4. Sound(Stats)
  BY CountsBounded DEF AtMost
<1>5. Stats' = Stats
  BY DEF Stats, Counted, HasEvent
<1> HIDE DEF Sound
<1>6. Sound(new.stats) /\ Sound(cache')
  <2>1. Sound(NoStats)
    BY DEF Sound
  <2> QED BY <1>2, <1>3, <1>4, <2>1
<1>7. /\ reader'[c] = new /\ (\A d \in Readers \ {c} : reader'[d] = reader[d])
      /\ DOMAIN reader' = Readers
  BY <1>1
<1>8. \A d \in Readers : Sound(reader'[d].stats)
  BY <1>2, <1>6, <1>7
<1>9. StatsTypeOK'
  <2>1. cache' \in {NoStats} \union [Columns -> 0..Cardinality(Campaign)]
    BY <1>6 DEF Sound
  <2>2. new \in [pc : ReaderPcs, before : SUBSET Readers,
                 stats : {NoStats} \union [Columns -> 0..Cardinality(Campaign)]]
    BY <1>6 DEF Sound
  <2>3. reader' \in [Readers -> [pc : ReaderPcs, before : SUBSET Readers,
           stats : {NoStats} \union [Columns -> 0..Cardinality(Campaign)]]]
    BY <1>1, <2>2
  <2>4. \A d \in Readers : reader'[d].pc \in {"store", "answered"} => reader'[d].stats # NoStats
    BY <1>7 DEF StatsTypeOK
  <2> QED BY <2>1, <2>3, <2>4 DEF StatsTypeOK
<1>10. NeverAhead'
  <2>1. ASSUME NEW s \in {cache'} \union {reader'[d].stats : d \in Readers}, s # NoStats
        PROVE  AtMost(s, Stats') /\ \A column \in Columns : s[column] <= s["total_sent"]
    BY <1>5, <1>6, <1>8, <2>1 DEF Sound
  <2> QED BY <2>1 DEF NeverAhead
<1> QED BY <1>9, <1>10

LEMMA ReaderStep ==
  ASSUME CampaignInv, NEW c \in Readers, GetCampaignStats(c)
  PROVE  CampaignInv'
<1> USE DEF CampaignInv
<1>1. /\ UNCHANGED <<pipelineVars, emails, suppressions, feedbackVars>>
      /\ outages' = outages \/ outages' = outages + 1
  BY DEF GetCampaignStats, ReadCache, QueryStats, StoreStats, Outage
<1>2. TablesInv' /\ UNCHANGED <<emails, events>>
  BY <1>1, ReadersTables DEF feedbackVars
<1>3. /\ reader[c].pc \in ReaderPcs /\ reader[c].before \in SUBSET Readers
      /\ DOMAIN reader[c] = {"pc", "stats", "before"}
      /\ AnsweredCalls \in SUBSET Readers /\ Stats # NoStats
  <2>1. Stats # NoStats
    BY DEF Stats, NoStats, Columns
  <2> QED BY <2>1 DEF StatsTypeOK, AnsweredCalls
<1> DEFINE Records == [pc : ReaderPcs, before : SUBSET Readers,
                       stats : {NoStats, cache, reader[c].stats, Stats}]
<1>4. reader[c] \in Records /\ NewReader \in Records
  BY <1>3 DEF StatsTypeOK, NewReader, ReaderPcs
<1>5. CASE ReadCache(c)
  <2>1. cache' = cache
    BY <1>5 DEF ReadCache
  <2>2. ASSUME NEW new \in {[pc |-> "answered", stats |-> cache, before |-> AnsweredCalls],
                            [pc |-> "query", stats |-> NoStats, before |-> AnsweredCalls]},
               reader' = [reader EXCEPT ![c] = new], new.pc = "answered" => cache # NoStats
        PROVE  CampaignInv'
    <3>1. new \in Records /\ (new.pc \in {"store", "answered"} => new.stats # NoStats)
      BY <1>3, <2>2 DEF ReaderPcs
    <3> QED BY <1>2, <2>1, <2>2, <3>1, ReaderReports
  <2>3. \/ cache # NoStats /\ reader' = [reader EXCEPT ![c] =
              [pc |-> "answered", stats |-> cache, before |-> AnsweredCalls]]
        \/ reader' = [reader EXCEPT ![c] =
              [pc |-> "query", stats |-> NoStats, before |-> AnsweredCalls]]
    BY <1>5 DEF ReadCache
  <2> QED BY <2>2, <2>3
<1>6. CASE QueryStats(c)
  <2>1. cache' = cache
    BY <1>6 DEF QueryStats
  <2>2. CASE reader' = [reader EXCEPT ![c] = [@ EXCEPT !.pc = "store", !.stats = Stats]]
    <3> DEFINE new == [reader[c] EXCEPT !.pc = "store", !.stats = Stats]
    <3>1. new \in Records /\ new.stats = Stats
      BY <1>3, <1>4 DEF ReaderPcs
    <3>2. reader' = [reader EXCEPT ![c] = new]
      BY <2>2
    <3> HIDE DEF new
    <3> QED BY <1>2, <1>3, <2>1, <3>1, <3>2, ReaderReports
  <2>3. CASE Fail(c)
    <3> DEFINE new == [NewReader EXCEPT !.pc = "failed"]
    <3>1. new \in Records /\ new.pc = "failed"
      BY <1>4 DEF ReaderPcs, NewReader
    <3>2. reader' = [reader EXCEPT ![c] = new]
      BY <2>3 DEF Fail
    <3> HIDE DEF new
    <3> QED BY <1>2, <2>1, <3>1, <3>2, ReaderReports
  <2> QED BY <1>6, <2>2, <2>3 DEF QueryStats
<1>7. CASE StoreStats(c)
  <2> DEFINE new == [reader[c] EXCEPT !.pc = "answered"]
  <2>1. new \in Records /\ new.stats = reader[c].stats
    BY <1>3, <1>4 DEF ReaderPcs
  <2>2. reader' = [reader EXCEPT ![c] = new]
    BY <1>7 DEF StoreStats
  <2>3. cache' \in {cache, reader[c].stats} /\ reader[c].stats # NoStats
    BY <1>7 DEF StoreStats, StatsTypeOK
  <2> HIDE DEF new
  <2> QED BY <1>2, <2>1, <2>2, <2>3, ReaderReports
<1> QED BY <1>5, <1>6, <1>7 DEF GetCampaignStats

LEMMA ExpireStep ==
  ASSUME CampaignInv, Expire PROVE CampaignInv'
<1> USE DEF CampaignInv
<1>1. TablesInv' /\ UNCHANGED <<emails, events>>
  BY ReadersTables DEF Expire, feedbackVars
<1>2. Stats' = Stats
  BY <1>1 DEF Stats, Counted, HasEvent
<1>3. StatsTypeOK'
  BY DEF Expire, StatsTypeOK
<1>4. NeverAhead'
  BY <1>2 DEF Expire, NeverAhead
<1> QED BY <1>1, <1>3, <1>4

-----------------------------------------------------------------------------
(* Counts that go back *)

\* What a call was told to know, it knows for good: the answers before it.
AnsweredBefore == \A c \in Readers : reader[c].before \subseteq AnsweredCalls

\* A result that is about to be stored is no older than the answers that had
\* been given when its call began.
NoOlder ==
  \A c \in Readers : reader[c].pc = "store" =>
    \A d \in reader[c].before : AtMost(reader[d].stats, reader[c].stats)

\* Neither call had been answered when the other began.
Overlap(v, w) == v \notin reader[w].before /\ w \notin reader[v].before

\* The answer of d is not above s, or somebody gave the same answer while w,
\* who has s, was under way.
Excusable(d, s, w) ==
  \/ AtMost(reader[d].stats, s)
  \/ \E v \in AnsweredCalls : reader[v].stats = reader[d].stats /\ Overlap(v, w)

\* The cache holds what w has stored.  Before the first failure, who looked
\* after that found it; so whoever is still at it began before w was answered.
Writer(w) ==
  /\ reader[w].stats = cache
  /\ \A d \in AnsweredCalls : Excusable(d, cache, w)
  /\ outages = 0 =>
       \A c \in Readers : reader[c].pc \in {"query", "store"} => w \notin reader[c].before

CacheWritten == cache = NoStats \/ outages > 1 \/ \E w \in AnsweredCalls : Writer(w)

\* BackOnlyByOverlap of two calls, with witnesses that have been answered and
\* so will not change any more.
BackExplained(c, d) ==
  \/ outages > 1
  \/ AtMost(reader[d].stats, reader[c].stats)
  \/ \E w \in AnsweredCalls \ {c} :
       reader[w].stats = reader[c].stats /\ Excusable(d, reader[c].stats, w)

BackInv ==
  /\ AnsweredBefore /\ NoOlder /\ CacheWritten
  /\ \A c \in AnsweredCalls : \A d \in reader[c].before : BackExplained(c, d)

\* Only the tables move, and perhaps a call to them fails.
LEMMA BackStays ==
  ASSUME BackInv, UNCHANGED reportVars, outages \in Nat, outages' \in {outages, outages + 1}
  PROVE  BackInv'
<1> USE DEF BackInv, reportVars
<1>1. AnsweredCalls' = AnsweredCalls /\ AnsweredBefore' /\ NoOlder'
  BY DEF AnsweredCalls, AnsweredBefore, NoOlder, AtMost
<1>2. \A d, s, w : Excusable(d, s, w)' <=> Excusable(d, s, w)
  BY <1>1 DEF Excusable, Overlap, AtMost
<1>3. CacheWritten'
  BY <1>1, <1>2 DEF CacheWritten, Writer
<1>4. \A c, d : BackExplained(c, d) => BackExplained(c, d)'
  BY <1>1, <1>2 DEF BackExplained, AtMost
<1> QED BY <1>1, <1>3, <1>4

\* A step of call c, which has no answer yet, leaves the other calls' answers.
LEMMA AnswersStand ==
  ASSUME StatsTypeOK, BackInv, outages \in Nat, outages' \in {outages, outages + 1},
         NEW c \in Readers, c \notin AnsweredCalls, NEW new, reader' = [reader EXCEPT ![c] = new]
  PROVE  /\ reader'[c] = new /\ \A d \in Readers \ {c} : reader'[d] = reader[d]
         /\ AnsweredCalls' = IF new.pc = "answered" THEN AnsweredCalls \union {c} ELSE AnsweredCalls
         /\ \A d, w \in AnsweredCalls : \A s : Excusable(d, s, w) => Excusable(d, s, w)'
         /\ \A d \in AnsweredCalls : \A e \in reader[d].before : BackExplained(d, e)'
<1>1. /\ reader'[c] = new /\ \A d \in Readers \ {c} : reader'[d] = reader[d]
      /\ AnsweredCalls \subseteq Readers
  BY DEF StatsTypeOK, AnsweredCalls
<1>2. AnsweredCalls' = IF new.pc = "answered" THEN AnsweredCalls \union {c} ELSE AnsweredCalls
  BY <1>1 DEF AnsweredCalls
<1>3. \A d \in AnsweredCalls : reader'[d] = reader[d]
  BY <1>1
<1>4. ASSUME NEW d \in AnsweredCalls, NEW w \in AnsweredCalls, NEW s, Excusable(d, s, w)
      PROVE  Excusable(d, s, w)'
  BY <1>2, <1>3, <1>4 DEF Excusable, Overlap, AtMost
<1>5. ASSUME NEW d \in AnsweredCalls, NEW e \in reader[d].before
      PROVE  BackExplained(d, e)'
  <2>1. BackExplained(d, e) /\ e \in AnsweredCalls
    BY <1>1 DEF BackInv, AnsweredBefore
  <2> QED BY <1>2, <1>3, <1>4, <2>1 DEF BackExplained, AtMost
<1> QED BY <1>1, <1>2, <1>4, <1>5

\* An answer from the cache.
LEMMA HitExplained ==
  ASSUME CampaignInv, BackInv, NEW c \in Readers, reader[c].pc = "idle", cache # NoStats,
         reader' = [reader EXCEPT ![c] =
           [pc |-> "answered", stats |-> cache, before |-> AnsweredCalls]],
         UNCHANGED <<outages, cache>>
  PROVE  BackInv'
<1> DEFINE new == [pc |-> "answered", stats |-> cache, before |-> AnsweredCalls]
<1>1. outages \in Nat /\ StatsTypeOK /\ c \notin AnsweredCalls /\ AnsweredCalls \subseteq Readers
  BY DEF CampaignInv, TablesInv, FeedbackInv, PipelineInv, TypeOK, AnsweredCalls
<1>2. /\ reader'[c] = new /\ \A d \in Readers \ {c} : reader'[d] = reader[d]
      /\ AnsweredCalls' = AnsweredCalls \union {c}
      /\ \A d, w \in AnsweredCalls : \A s : Excusable(d, s, w) => Excusable(d, s, w)'
      /\ \A d \in AnsweredCalls : \A e \in reader[d].before : BackExplained(d, e)'
  BY <1>1, AnswersStand
<1>3. AtMost(cache, cache)
  BY <1>1, CountsBounded DEF StatsTypeOK, AtMost
<1>4. AnsweredBefore' /\ NoOlder'
  BY <1>1, <1>2 DEF BackInv, AnsweredBefore, NoOlder, AtMost
<1>5. \A w \in AnsweredCalls : Writer(w) => Writer(w)'
  <2> SUFFICES ASSUME NEW w \in AnsweredCalls, Writer(w) PROVE Writer(w)'
    OBVIOUS
  <2>1. \A d \in AnsweredCalls' : Excusable(d, cache, w)'
    BY <1>1, <1>2, <1>3 DEF Writer, Excusable, AtMost
  <2>2. reader'[w].stats = cache'
    BY <1>1, <1>2 DEF Writer
  <2>3. outages' = 0 => \A d \in Readers : reader'[d].pc \in {"query", "store"} =>
          w \notin reader'[d].before
    BY <1>1, <1>2 DEF Writer
  <2> QED BY <2>1, <2>2, <2>3 DEF Writer
<1>6. CacheWritten'
  BY <1>2, <1>5 DEF BackInv, CacheWritten
<1>7. \A d \in AnsweredCalls : BackExplained(c, d)'
  <2>1. CASE outages > 1
    BY <2>1 DEF BackExplained
  <2>2. CASE outages <= 1
    <3>1. PICK w \in AnsweredCalls : Writer(w)
      BY <1>1, <2>2 DEF BackInv, CacheWritten
    <3>2. w # c /\ w \in AnsweredCalls' /\ reader'[w].stats = reader'[c].stats
      BY <1>1, <1>2, <3>1 DEF Writer
    <3>3. \A d \in AnsweredCalls : Excusable(d, cache, w)'
      BY <1>2, <3>1 DEF Writer
    <3>4. reader'[c].stats = cache
      BY <1>2
    <3> QED BY <3>2, <3>3, <3>4 DEF BackExplained
  <2> QED BY <1>1, <2>1, <2>2
<1> QED BY <1>1, <1>2, <1>4, <1>6, <1>7 DEF BackInv

\* A miss: the call goes on to the query, knowing who has been answered.
LEMMA MissExplained ==
  ASSUME CampaignInv, BackInv, NEW c \in Readers, reader[c].pc = "idle", cache' = cache,
         reader' = [reader EXCEPT ![c] =
           [pc |-> "query", stats |-> NoStats, before |-> AnsweredCalls]],
         (cache = NoStats /\ outages' = outages) \/ outages' = outages + 1
  PROVE  BackInv'
<1> DEFINE new == [pc |-> "query", stats |-> NoStats, before |-> AnsweredCalls]
<1>1. outages \in Nat /\ StatsTypeOK /\ c \notin AnsweredCalls /\ AnsweredCalls \subseteq Readers
  BY DEF CampaignInv, TablesInv, FeedbackInv, PipelineInv, TypeOK, AnsweredCalls
<1>2. /\ reader'[c] = new /\ \A d \in Readers \ {c} : reader'[d] = reader[d]
      /\ AnsweredCalls' = AnsweredCalls
      /\ \A d, w \in AnsweredCalls : \A s : Excusable(d, s, w) => Excusable(d, s, w)'
      /\ \A d \in AnsweredCalls : \A e \in reader[d].before : BackExplained(d, e)'
  BY <1>1, AnswersStand
<1>3. AnsweredBefore' /\ NoOlder'
  BY <1>1, <1>2 DEF BackInv, AnsweredBefore, NoOlder, AtMost
<1>4. CacheWritten'
  <2>1. CASE cache # NoStats /\ outages = 0
    <3>1. PICK w \in AnsweredCalls : Writer(w)
      BY <1>1, <2>1 DEF BackInv, CacheWritten
    <3>2. Writer(w)'
      BY <1>1, <1>2, <2>1, <3>1 DEF Writer
    <3> QED BY <1>2, <3>2 DEF CacheWritten
  <2>2. CASE cache = NoStats \/ outages # 0
    BY <1>1, <2>2 DEF CacheWritten
  <2> QED BY <2>1, <2>2
<1> QED BY <1>1, <1>2, <1>3, <1>4 DEF BackInv

LEMMA QueryExplained ==
  ASSUME CampaignInv, BackInv, NEW c \in Readers, QueryStats(c) PROVE BackInv'
<1> PICK new \in {[reader[c] EXCEPT !.pc = "store", !.stats = Stats], [NewReader EXCEPT !.pc = "failed"]} :
      reader' = [reader EXCEPT ![c] = new] /\ outages' \in {outages, outages + 1}
  BY DEF QueryStats, Fail, Outage
<1>1. /\ outages \in Nat /\ StatsTypeOK /\ cache' = cache
      /\ c \notin AnsweredCalls /\ AnsweredCalls \subseteq Readers
      /\ reader[c].pc = "query"
  BY DEF CampaignInv, TablesInv, FeedbackInv, PipelineInv, TypeOK, AnsweredCalls, QueryStats
<1>2. /\ new.pc \in {"store", "failed"} /\ new.before \subseteq reader[c].before
      /\ new.pc = "store" => new.stats = Stats
  <2>1. DOMAIN reader[c] = {"pc", "stats", "before"}
    BY <1>1 DEF StatsTypeOK
  <2> QED BY <2>1 DEF NewReader
<1>3. /\ reader'[c] = new /\ \A d \in Readers \ {c} : reader'[d] = reader[d]
      /\ AnsweredCalls' = AnsweredCalls
      /\ \A d, w \in AnsweredCalls : \A s : Excusable(d, s, w) => Excusable(d, s, w)'
      /\ \A d \in AnsweredCalls : \A e \in reader[d].before : BackExplained(d, e)'
  BY <1>1, <1>2, AnswersStand
<1>4. AnsweredBefore'
  BY <1>1, <1>2, <1>3 DEF BackInv, AnsweredBefore
<1>5. NoOlder'
  <2> SUFFICES ASSUME NEW d \in Readers, reader'[d].pc = "store", NEW e \in reader'[d].before
               PROVE  AtMost(reader'[e].stats, reader'[d].stats)
    BY DEF NoOlder, AtMost
  <2>1. e \in AnsweredCalls /\ reader'[e] = reader[e]
    BY <1>1, <1>3, <1>4 DEF AnsweredBefore
  <2>2. CASE d = c
    <3>1. AtMost(reader[e].stats, Stats)
      BY <1>1, <2>1 DEF CampaignInv, NeverAhead, StatsTypeOK, AnsweredCalls
    <3>2. reader'[d].stats = Stats
      BY <1>2, <1>3, <2>2
    <3> QED BY <2>1, <3>1, <3>2
  <2>3. CASE d # c
    BY <1>3, <2>1, <2>3 DEF BackInv, NoOlder
  <2> QED BY <2>2, <2>3
<1>6. \A w \in AnsweredCalls : Writer(w) => Writer(w)'
  <2> SUFFICES ASSUME NEW w \in AnsweredCalls, Writer(w) PROVE Writer(w)'
    OBVIOUS
  <2>1. \A d \in AnsweredCalls' : Excusable(d, cache, w)'
    BY <1>1, <1>3 DEF Writer
  <2>2. outages' = 0 => \A d \in Readers : reader'[d].pc \in {"query", "store"} =>
          w \notin reader'[d].before
    BY <1>1, <1>2, <1>3 DEF Writer
  <2> QED BY <1>1, <1>3, <2>1, <2>2 DEF Writer
<1>7. CacheWritten'
  BY <1>1, <1>3, <1>6 DEF BackInv, CacheWritten
<1> QED BY <1>1, <1>3, <1>4, <1>5, <1>7 DEF BackInv

LEMMA StoreExplained ==
  ASSUME CampaignInv, BackInv, NEW c \in Readers, StoreStats(c) PROVE BackInv'
<1> DEFINE new == [reader[c] EXCEPT !.pc = "answered"]
<1>1. /\ outages \in Nat /\ StatsTypeOK
      /\ c \notin AnsweredCalls /\ AnsweredCalls \subseteq Readers /\ reader[c].pc = "store"
      /\ reader' = [reader EXCEPT ![c] = new] /\ outages' \in {outages, outages + 1}
  BY DEF CampaignInv, TablesInv, FeedbackInv, PipelineInv, TypeOK, AnsweredCalls, StoreStats, Outage
<1>2. new.pc = "answered" /\ new.stats = reader[c].stats /\ new.before = reader[c].before
  BY <1>1 DEF StatsTypeOK
<1> HIDE DEF new
<1>3. /\ reader'[c] = new /\ \A d \in Readers \ {c} : reader'[d] = reader[d]
      /\ AnsweredCalls' = AnsweredCalls \union {c}
      /\ \A d, w \in AnsweredCalls : \A s : Excusable(d, s, w) => Excusable(d, s, w)'
      /\ \A d \in AnsweredCalls : \A e \in reader[d].before : BackExplained(d, e)'
  BY <1>1, <1>2, AnswersStand
<1>4. AnsweredBefore'
  BY <1>1, <1>2, <1>3 DEF BackInv, AnsweredBefore
<1>5. \A d \in Readers : reader'[d].stats = reader[d].stats /\ reader'[d].before = reader[d].before
  BY <1>2, <1>3
<1>6. NoOlder'
  BY <1>1, <1>2, <1>3, <1>5 DEF BackInv, NoOlder, AnsweredBefore, AtMost
<1>7. \A d \in reader[c].before : AtMost(reader[d].stats, reader[c].stats) /\ BackExplained(c, d)'
  BY <1>1, <1>5 DEF BackInv, NoOlder, AnsweredBefore, BackExplained, AtMost
\* The result is in the cache, and c is its writer.
<1>8. CASE cache' = reader[c].stats
  <2>1. \A d \in AnsweredCalls' : Excusable(d, cache, c)'
    <3> SUFFICES ASSUME NEW d \in AnsweredCalls' PROVE Excusable(d, cache, c)'
      OBVIOUS
    <3>1. CASE d = c
      <4>1. AtMost(reader[c].stats, reader[c].stats)
        BY <1>1, CountsBounded DEF StatsTypeOK, AtMost
      <4> QED BY <1>5, <1>8, <3>1, <4>1 DEF Excusable, AtMost
    <3>2. CASE d # c /\ d \in reader[c].before
      BY <1>1, <1>5, <1>7, <1>8, <3>2 DEF Excusable, AtMost, BackInv, AnsweredBefore
    <3>3. CASE d # c /\ d \notin reader[c].before
      BY <1>1, <1>3, <1>5, <3>3 DEF Excusable, Overlap, BackInv, AnsweredBefore
    <3> QED BY <3>1, <3>2, <3>3
  <2>2. \A d \in Readers : reader'[d].pc \in {"query", "store"} => c \notin reader'[d].before
    BY <1>1, <1>5 DEF BackInv, AnsweredBefore
  <2>3. Writer(c)'
    BY <1>5, <1>8, <2>1, <2>2 DEF Writer
  <2> QED BY <1>1, <1>3, <1>4, <1>5, <1>6, <1>7, <2>3 DEF BackInv, CacheWritten
\* Redis failed and has kept what it held.
<1>9. CASE cache' = cache /\ outages' = outages + 1
  <2>1. ASSUME cache # NoStats, outages = 0 PROVE CacheWritten'
    <3>1. PICK w \in AnsweredCalls : Writer(w)
      BY <2>1 DEF BackInv, CacheWritten
    <3>2. w \notin reader[c].before
      BY <1>1, <2>1, <3>1 DEF Writer
    <3>3. Excusable(c, cache, w)'
      BY <1>1, <1>3, <1>5, <3>2 DEF Excusable, Overlap, BackInv, AnsweredBefore, AtMost
    <3>4. \A d \in AnsweredCalls' : Excusable(d, cache, w)'
      BY <1>3, <1>9, <3>1, <3>3 DEF Writer
    <3>5. Writer(w)'
      BY <1>1, <1>3, <1>5, <1>9, <2>1, <3>1, <3>4 DEF Writer
    <3> QED BY <1>3, <3>5 DEF CacheWritten
  <2>2. CacheWritten'
    BY <1>1, <1>9, <2>1 DEF CacheWritten
  <2> QED BY <1>1, <1>3, <1>4, <1>5, <1>6, <1>7, <2>2 DEF BackInv
<1> QED BY <1>8, <1>9 DEF StoreStats, Outage

LEMMA BackInductive ==
  CampaignInv /\ BackInv /\ [CampaignNext]_campaignVars => BackInv'
<1> SUFFICES ASSUME CampaignInv, BackInv, [CampaignNext]_campaignVars PROVE BackInv'
  OBVIOUS
<1>1. outages \in Nat /\ PipelineInv /\ IDsBelong /\ TerminalTaken
  BY DEF CampaignInv, TablesInv, FeedbackInv, PipelineInv, TypeOK
<1>2. CASE Next /\ UNCHANGED <<feedbackVars, reportVars>>
  BY <1>1, <1>2, PipelineSteps, BackStays
<1>3. CASE (\E h \in Notices : ProcessResendWebhook(h)) /\ UNCHANGED reportVars
  <2>1. outages' \in {outages, outages + 1}
    BY <1>3 DEF ProcessResendWebhook, Receive, LookUp, StoreEvent, MarkTerminal, Attempted,
                Suppress, HookCrash, Outage
  <2> QED BY <1>1, <1>3, <2>1, BackStays
<1>4. ASSUME NEW c \in Readers, GetCampaignStats(c) PROVE BackInv'
  <2>1. CASE ReadCache(c)
    BY <2>1, HitExplained, MissExplained DEF ReadCache, Outage
  <2> QED BY <1>4, <2>1, QueryExplained, StoreExplained DEF GetCampaignStats
<1>5. CASE Expire
  <2>1. UNCHANGED <<reader, outages>> /\ cache' = NoStats
    BY <1>5 DEF Expire
  <2> QED BY <2>1 DEF BackInv, AnsweredBefore, AnsweredCalls, NoOlder, CacheWritten,
                      BackExplained, Excusable, Overlap, AtMost
<1>6. CASE UNCHANGED campaignVars
  BY <1>1, <1>6, BackStays DEF campaignVars, allVars, vars
<1> QED BY <1>2, <1>3, <1>4, <1>5, <1>6 DEF CampaignNext

-----------------------------------------------------------------------------
(* The theorems *)

\* The tables, the readers and the cache of any campaign stay in step.
THEOREM CampaignHolds == CampaignSpec => []CampaignInv
<1>1. CampaignInit => CampaignInv
  <2> SUFFICES ASSUME CampaignInit PROVE CampaignInv
    OBVIOUS
  <2>1. FeedbackInv
    BY FeedbackInitially DEF CampaignInit
  <2>2. SentTaken /\ Recorded
    BY DEF CampaignInit, FeedbackInit, Init, SentTaken, Recorded, AbsentRow, NewNotice
  <2>3. StatsTypeOK
    BY DEF CampaignInit, StatsTypeOK, NewReader, ReaderPcs
  <2>4. NeverAhead
    BY DEF CampaignInit, NeverAhead, NewReader
  <2> QED BY <2>1, <2>2, <2>3, <2>4 DEF CampaignInv, TablesInv
<1>2. ASSUME CampaignInv, CampaignNext PROVE CampaignInv'
  <2>1. ASSUME TablesInv' /\ TablesGrow, UNCHANGED reportVars PROVE CampaignInv'
    BY <1>2, <2>1, ReportsStay DEF CampaignInv
  <2>2. CASE Next /\ UNCHANGED <<feedbackVars, reportVars>>
    BY <1>2, <2>1, <2>2, PipelineTables DEF CampaignInv
  <2>3. CASE (\E h \in Notices : ProcessResendWebhook(h)) /\ UNCHANGED reportVars
    BY <1>2, <2>1, <2>3, WebhookTables DEF CampaignInv
  <2>4. CASE (\E c \in Readers : GetCampaignStats(c)) \/ Expire
    BY <1>2, <2>4, ReaderStep, ExpireStep
  <2> QED BY <1>2, <2>2, <2>3, <2>4 DEF CampaignNext
<1>3. ASSUME CampaignInv, UNCHANGED campaignVars PROVE CampaignInv'
  <2>1. UNCHANGED <<pipelineVars, emails, suppressions, feedbackVars, outages, reportVars>>
    BY <1>3 DEF campaignVars, allVars, vars, pipelineVars
  <2>2. TablesInv' /\ TablesGrow
    BY <1>3, <2>1, ReadersTables DEF CampaignInv
  <2> QED BY <1>3, <2>1, <2>2, ReportsStay DEF CampaignInv
<1> QED BY <1>1, <1>2, <1>3, PTL DEF CampaignSpec

\* Every variable of the reports keeps its type: no count exceeds the campaign.
THEOREM StatsTypes == CampaignSpec => []StatsTypeOK
<1>1. CampaignInv => StatsTypeOK
  BY DEF CampaignInv
<1> QED BY <1>1, CampaignHolds, PTL

\* What a reader or the cache holds is never taken back, for campaigns of any
\* size and any number of readers, however old it is.
THEOREM CountsStand == CampaignSpec => []NeverAhead
<1>1. CampaignInv => NeverAhead
  BY DEF CampaignInv
<1> QED BY <1>1, CampaignHolds, PTL

\* Somebody who asks again gets a smaller count only when two calls that missed
\* the cache overlapped and the older result was stored last, for any number of
\* calls, unless two calls to Postgres or Redis failed.
THEOREM BackExplanation == CampaignSpec => []BackOnlyByOverlap
<1>1. CampaignInit => BackInv
  BY DEF CampaignInit, NewReader, BackInv, AnsweredBefore, AnsweredCalls, NoOlder, CacheWritten
<1>2. ASSUME CampaignInv, BackInv PROVE BackOnlyByOverlap
  <2> SUFFICES ASSUME NEW c \in AnsweredCalls, NEW d \in reader[c].before,
                      ~AtMost(reader[d].stats, reader[c].stats), ~(outages > 1)
               PROVE  \E v, w \in Readers :
                        /\ reader[v].stats = reader[d].stats /\ v \notin reader[w].before
                        /\ reader[w].stats = reader[c].stats /\ w \notin reader[v].before
                        /\ w # c
    BY DEF BackOnlyByOverlap
  <2>1. PICK w \in AnsweredCalls \ {c} :
          reader[w].stats = reader[c].stats /\ Excusable(d, reader[c].stats, w)
    BY <1>2 DEF BackInv, BackExplained
  <2>2. PICK v \in AnsweredCalls : reader[v].stats = reader[d].stats /\ Overlap(v, w)
    BY <2>1 DEF Excusable
  <2> QED BY <2>1, <2>2 DEF AnsweredCalls, Overlap
<1> QED BY <1>1, <1>2, CampaignHolds, BackInductive, PTL DEF CampaignSpec

\* Who is listed as bounced has a bounce or a complaint on record.
THEOREM BouncesBacked == CampaignSpec => []BouncesOnRecord
<1>1. CampaignInv => BouncesOnRecord
  BY CampaignAssumption
  DEF CampaignInv, TablesInv, Recorded, BouncesOnRecord, BouncedEmails
<1> QED BY <1>1, CampaignHolds, PTL

\* Who is listed as a non-opener was mailed.
THEOREM NonOpenersMailed == CampaignSpec => []NonOpenersWereMailed
<1>1. ASSUME CampaignInv, NEW e \in NonOpeners
      PROVE  \E r \in Requests, n \in Attempts : task[r].email = e /\ accepted[r][n] > 0
  <2>1. e \in Requests /\ Taken(e)
    BY <1>1, CampaignAssumption DEF NonOpeners, CampaignInv, TablesInv, SentTaken
  <2>2. task[e].email = e
    BY <1>1, <2>1 DEF CampaignInv, TablesInv, FeedbackInv, PipelineInv, OwnershipInv, Owned
  <2> QED BY <2>1, <2>2 DEF Taken
<1>2. CampaignInv => NonOpenersWereMailed
  BY <1>1 DEF NonOpenersWereMailed
<1> QED BY <1>2, CampaignHolds, PTL

\* The reports take nothing from the pipeline: beside any number of them, and
\* of webhooks, it keeps its promises.
THEOREM PromisesKeptBeside == CampaignSpec => []PipelinePromises
<1>1. CampaignInit => RowsInv
  BY RowsInitially DEF CampaignInit, FeedbackInit
<1>2. CampaignInv /\ CampaignInv' /\ RowsInv /\ [CampaignNext]_campaignVars => RowsInv'
  <2> SUFFICES ASSUME CampaignInv, CampaignInv', RowsInv, [CampaignNext]_campaignVars
               PROVE  RowsInv'
    OBVIOUS
  <2>1. FeedbackInv /\ PipelineInv /\ PipelineInv'
    BY DEF CampaignInv, TablesInv, FeedbackInv
  <2>2. CASE Next
    BY <2>1, <2>2, RowsStep
  <2>3. CASE \E h \in Notices : ProcessResendWebhook(h)
    BY <2>1, <2>3, HookWrites, RowsBeside
  <2>4. CASE (\E c \in Readers : GetCampaignStats(c)) \/ Expire
    BY <2>1, <2>4, RowsBeside DEF GetCampaignStats, ReadCache, QueryStats, StoreStats, Expire
  <2>5. CASE UNCHANGED campaignVars
    BY <2>1, <2>5, RowsBeside DEF campaignVars, allVars, vars, pipelineVars
  <2> QED BY <2>2, <2>3, <2>4, <2>5 DEF CampaignNext
<1>3. CampaignInv /\ RowsInv => PipelinePromises
  BY PromisesFollow DEF CampaignInv, TablesInv, FeedbackInv
<1> QED BY <1>1, <1>2, <1>3, CampaignHolds, PTL DEF CampaignSpec

\* Beside the reports the pipeline implements Delivery, too.
THEOREM CampaignDelivers == CampaignSpec => ImplementsDelivery
<1>1. CampaignInit => D!DeliveryInit
  BY InitDelivers DEF CampaignInit, FeedbackInit
<1>2. CampaignInv /\ [CampaignNext]_campaignVars => [D!DeliveryNext]_(D!dvars)
  <2> SUFFICES ASSUME CampaignInv, [CampaignNext]_campaignVars
               PROVE  [D!DeliveryNext]_(D!dvars)
    OBVIOUS
  <2>1. FeedbackInv /\ TypeOK /\ OwnershipInv /\ Order
    BY DEF CampaignInv, TablesInv, FeedbackInv, PipelineInv
  <2>2. CASE Next
    BY <2>1, <2>2, StepDelivers
  <2>3. CASE ~Next
    <3>1. UNCHANGED <<task, run, accepted>>
      BY <2>1, <2>3, HookWrites
      DEF CampaignNext, GetCampaignStats, ReadCache, QueryStats, StoreStats, Expire,
          campaignVars, allVars, vars, pipelineVars
    <3> QED BY <3>1, OutsideUnseen
  <2> QED BY <2>2, <2>3
<1> QED BY <1>1, <1>2, CampaignHolds, PTL DEF CampaignSpec, ImplementsDelivery, D!DeliverySpec
=============================================================================
