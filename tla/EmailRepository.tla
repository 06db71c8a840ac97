--------------------------- MODULE EmailRepository ---------------------------
(* The emails table as postgres.EmailRepository reads and writes it.  A table  *)
(* is a function from email ids to rows; each operator is one SQL statement    *)
(* and returns the table after it.  Only the columns that some decision or     *)
(* some report depends on are kept: status, retry_count, sent_at (set or not)  *)
(* and resend_email_id.                                                        *)
EXTENDS Naturals

\* domain.EmailStatus, as it is stored.
Statuses ==
  {"pending", "queued", "sending", "sent", "failed", "bounced", "complaint"}

\* resend_email_id is NULL.
NoID == <<>>

\* What stands for an id that no row has.
AbsentRow ==
  [status |-> "absent", retryCount |-> 0, sentAt |-> FALSE, resendID |-> NoID]

Stored(emails, e) == emails[e].status # "absent"

\* INSERT INTO emails: retry_count takes its default, 0.
Create(emails, e) ==
  [emails EXCEPT ![e] = [AbsentRow EXCEPT !.status = "pending"]]

\* UPDATE emails SET status: whatever the status was.
UpdateStatus(emails, e, s) == [emails EXCEPT ![e] = [@ EXCEPT !.status = s]]

IncrementRetry(emails, e) ==
  [emails EXCEPT ![e] = [@ EXCEPT !.retryCount = emails[e].retryCount + 1]]

\* Mutant: sent_at is forgotten.
MarkSentUndated(emails, e) == UpdateStatus(emails, e, "sent")

\* Mutant: the whole row is written, from a copy without the provider's id.
MarkSentFromCopy(emails, e) ==
  [emails EXCEPT ![e] = [@ EXCEPT !.status = "sent", !.sentAt = TRUE, !.resendID = NoID]]

\* UPDATE emails SET status = 'sent', sent_at: whatever the status was.
MarkSent(emails, e) ==
  [emails EXCEPT ![e] = [@ EXCEPT !.status = "sent", !.sentAt = TRUE]]

UpdateResendEmailID(emails, e, id) ==
  [emails EXCEPT ![e] = [@ EXCEPT !.resendID = id]]

\* SELECT ... WHERE resend_email_id = $1: the rows that could answer.
GetByResendEmailID(emails, id) ==
  {e \in DOMAIN emails : emails[e].resendID = id /\ id # NoID}
=============================================================================
