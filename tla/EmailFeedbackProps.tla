-------------------------- MODULE EmailFeedbackProps -------------------------
(* What the feedback about sent emails promises.                               *)
EXTENDS EmailFeedback, EmailPipelineProps

\* Every variable has its type.
FeedbackTypeOK ==
  /\ TypeOK
  /\ hook \in [Notices -> [pc : HookPcs, kind : Kinds, id : IDs,
                           email : Requests \union {NoEmail}, outcome : Outcomes]]
  /\ events \subseteq [id : IDs, kind : Kinds, email : Requests]
  /\ told \in [Addresses -> {"nothing", "unsubscribed", "removed"}]

\* Every stored event is stored with the email whose message it is about,
\* however attempts overwrite the provider ids that events are looked up by.
EventsBelong == \A ev \in events : ev.email = ev.id[1]

\* In calm, an event about a message of ours is ignored (and answered 200) only
\* while ProcessEmail holds the message's id and has not stored it yet.
IgnoredOnlyInTheWindow ==
  [][\A h \in Notices :
       hook[h].pc = "lookup" /\ hook'[h].outcome = "unknown" /\ Calm' =>
         LET id == hook[h].id
         IN  run[id[1]][id[2]].pc = "StoreID" /\ run[id[1]][id[2]].id = id]_allVars

\* A bounce or complaint that was processed keeps its recipient out: the very
\* address that CheckSuppressed looks up is suppressed, unless the database
\* failed or an operator removed the address.
ProcessedSuppresses ==
  \A h \in Notices :
    hook[h].outcome = "processed" /\ hook[h].kind \in {"email.bounced", "email.complained"}
      => \/ ToOf[hook[h].email] \in suppressions
         \/ outages > 0
         \/ told[LowerOf[ToOf[hook[h].email]]] = "removed"

\* An email stops being bounced or complained about only by another such event,
\* by the writes that its request and the attempt that sent it still had to
\* make, or by other attempts after an incident.
TerminalLostOnlyToLateWrites ==
  [][\A r \in Requests :
       emails[r].status \in {"bounced", "complaint"} /\ emails'[r].status # emails[r].status =>
         \/ \E h \in Notices :
              /\ hook[h].pc = "mark" /\ hook[h].email = r
              /\ hook[h].kind \in {"email.bounced", "email.complained"}
         \/ emails'[r].status = "queued" /\ api[r].pc = "markQueued"
         \/ emails'[r].status = "failed" /\ api[r].pc = "markFailed"
         \/ emails'[r].status = "sent" /\ \E n \in Attempts : run[r][n].pc = "MarkSent"
         \/ \E n \in Attempts : faults[r][n] > 0]_allVars

-----------------------------------------------------------------------------
(* What the program says and does not do *)

\* "bounced" and "complaint" end the life of an email (webhook.go: "Update email
\* status for terminal events"): nothing but such an event replaces them.
TerminalIsFinal ==
  [][\A r \in Requests :
       emails[r].status \in {"bounced", "complaint"} =>
         emails'[r].status \in {"bounced", "complaint"}]_allVars

\* "You will no longer receive emails from WASBOT": with the database working,
\* no request that begins after that answer gets past the suppression list.
OptedOutIsNotMailed ==
  [][\A r \in Requests :
       told[LowerOf[ToOf[r]]] = "unsubscribed" /\ api[r].pc = "idle" /\ api'[r].pc = "create"
         => outages' # outages]_allVars
=============================================================================
