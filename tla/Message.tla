------------------------------- MODULE Message -------------------------------
(* One email from the request to the provider: what EmailService.Send makes of *)
(* it, what the row carries to the worker, and how SMTPClient.Send or          *)
(* ResendClient.Send hand it over, command by command.  What else happens to   *)
(* the row meanwhile, retries included, is EmailPipeline's.                    *)
EXTENDS Rendering, Configuration

CONSTANTS
  Inputs,          \* requests: template, data, branding, content, headers, from
  Environments,    \* the environments the worker may be started in
  Transactional    \* the templates of transactionalTemplates

\* A sender as it is written: the words of the text, with brackets around an
\* address that follows a name.
Brackets == {"<", ">"}
NoSender == <<>>

\* The caller's text may be anything.  The environment has a bare address and a
\* name, each of which is one word here.
ASSUME SenderAssumption ==
  /\ \A r \in Inputs : r.from \in Seq(STRING)
  /\ \A e \in Environments : \A key \in DOMAIN e : e[key] \notin Brackets
ASSUME BrandingAssumption ==
  \A r \in Inputs : r.branding \in {NoBranding} \union [BrandingFields -> Seq(STRING)]
\* "num Count" is no name of a variable, NoValue no text, and a whole count an
\* int64.
ASSUME DataAssumption ==
  \A r \in Inputs :
    /\ "num Count" \notin DOMAIN r.data
    /\ \A v \in DOMAIN r.data \ {"Count"} : r.data[v] # NoValue
    /\ "Count" \in DOMAIN r.data /\ r.data["Count"].is = "whole" =>
         LET n == r.data["Count"].n IN n \in Int /\ Smallest <= n /\ n < -Smallest

VARIABLES
  req, env,    \* the request, the worker's environment; they do not change
  pc,
  email,       \* the domain.Email being built, the row, the worker's copy
  message,     \* what is handed to the provider
  reply,       \* the reply of the provider, or "lost"
  messages,    \* how many messages the provider took
  answer,      \* what sender.Send returned
  id           \* did it return a provider id

messageVars == <<req, env, pc, email, message, reply, messages, answer, id>>
inputVars == <<req, env>>
resultVars == <<reply, messages, answer, id>>

conf == Load(env)

NoTemplate == ""
Nothing == <<>>

MessageInit ==
  /\ req \in Inputs /\ env \in {e \in Environments : Starts(e)}
  /\ pc = "prepare" /\ email = Nothing /\ message = Nothing
  /\ reply = "none" /\ messages = 0 /\ answer = "none" /\ id = FALSE

-----------------------------------------------------------------------------
(* EmailService.Send and ProcessEmail *)

\* Mutant: the link is given to templates of marketing emails only.
DataForMarketing(data, template) ==
  IF template \in Transactional \/ "UnsubscribeURL" \in DOMAIN data THEN data
  ELSE With(data, "UnsubscribeURL", <<"own link">>)

\* UnsubscribeURL is added to the caller's data unless it is there.
DataOf(data, template) ==
  IF "UnsubscribeURL" \in DOMAIN data THEN data
  ELSE With(data, "UnsubscribeURL", <<"own link">>)

AllowedHeaders == {"Reply-To", "X-Campaign-Tag", "X-Mailer", "X-Entity-Ref-ID"}
CopyAllowed(headers) == [h \in DOMAIN headers \cap AllowedHeaders |-> headers[h]]

\* Mutant: every email gets the header.
AddUnsubscribeAlways(headers, template) ==
  With(headers, "List-Unsubscribe", "own link")

\* List-Unsubscribe (and -Post) for all but transactional templates.
AddUnsubscribe(headers, template) ==
  IF template \in Transactional THEN headers
  ELSE With(headers, "List-Unsubscribe", "own link")

\* The request has no subject or no body once rendered, the template does not
\* exist, or it fails on the data.
Reject ==
  /\ pc' = "rejected"
  /\ UNCHANGED <<email, message, resultVars>>

\* The rendered text has no character.
IsEmpty(text) == \A variable \in DOMAIN text : text[variable] = EmptyText

Accept(content) ==
  IF \/ IsEmpty(content.subject)
     \/ IsEmpty(content.body) /\ IsEmpty(content.htmlBody)
  THEN Reject
  ELSE /\ email' = [from |-> req.from, template |-> req.template, text |-> content,
                    headers |-> AddUnsubscribe(CopyAllowed(req.headers), req.template)]
       /\ pc' = "store"
       /\ UNCHANGED <<message, resultVars>>

Prepare ==
  /\ pc = "prepare"
  /\ \/ req.template = NoTemplate /\ Accept(req.content)
     \/ /\ req.template \in DOMAIN Templates
        /\ Accept(RenderWithBranding(Templates[req.template],
                    DataOf(req.data, req.template), req.branding))
     \/ req.template # NoTemplate /\ Reject
  /\ UNCHANGED inputVars

\* Create, GetByID and toDomain: the columns the worker reads back.  The data
\* and the branding the texts were rendered from play no part any more.
Store ==
  /\ pc = "store"
  /\ email' = [email EXCEPT !.headers = AddUnsubscribe(email.headers, email.template)]
  /\ pc' = "send"
  /\ UNCHANGED <<inputVars, message, resultVars>>

-----------------------------------------------------------------------------
(* sender.Send returns *)

Succeed(withID) ==
  pc' = "returned" /\ answer' = "ok" /\ id' = withID
\* Mutant: an error does not end the call.
ErrorGoesOn == answer' = "error" /\ UNCHANGED <<pc, id>>
Error == pc' = "returned" /\ answer' = "error" /\ UNCHANGED id

Goto(next) == pc' = next /\ UNCHANGED <<answer, id>>

-----------------------------------------------------------------------------
(* ResendClient.Send *)

\* "%s <%s>"
Named(name, text) == <<name, "<">> \o text \o <<">">>

DefaultSender ==
  IF conf.fromName # "" THEN Named(conf.fromName, <<conf.from>>) ELSE <<conf.from>>

\* Mutant: the caller's Reply-To stays among the headers.
ReplyToInHeaders(headers) ==
  [replyTo |-> conf.replyTo, headers |-> headers]

\* The caller's Reply-To leaves the headers for a field of its own; without
\* one the configured address takes the field, if there is one.
ReplyTo(headers) ==
  IF "Reply-To" \in DOMAIN headers /\ headers["Reply-To"] # ""
  THEN [replyTo |-> headers["Reply-To"],
        headers |-> [h \in DOMAIN headers \ {"Reply-To"} |-> headers[h]]]
  ELSE [replyTo |-> conf.replyTo, headers |-> headers]

BuildRequest ==
  /\ pc = "send" /\ conf.provider = "resend"
  /\ IF email.from = NoSender /\ conf.from = ""
     THEN Error /\ UNCHANGED message
     ELSE LET r == ReplyTo(email.headers)
          IN  /\ message' = [from |-> IF email.from = NoSender THEN DefaultSender ELSE email.from,
                             text |-> email.text, replyTo |-> r.replyTo, headers |-> r.headers]
              /\ Goto("exchange")
  /\ UNCHANGED <<inputVars, email, reply, messages>>

\* The provider takes the message, in its own time: perhaps when the caller has
\* given up.
TakeMessage ==
  /\ pc \in {"exchange", "close"} \/ reply = "lost"
  /\ messages = 0
  /\ messages' = 1
  /\ UNCHANGED <<inputVars, pc, email, message, reply, answer, id>>

\* Its reply arrives: a status below 400 only when it took the message.
ReplyArrives ==
  /\ pc = "exchange"
  /\ reply' \in IF messages = 1 THEN {"accepted", "refused"} ELSE {"refused"}
  /\ Goto("read")
  /\ UNCHANGED <<inputVars, email, message, messages>>

\* The connection fails, or the 30 s of the HTTP client are over.
ExchangeFails ==
  /\ pc = "exchange"
  /\ Error
  /\ reply' = "lost"
  /\ UNCHANGED <<inputVars, email, message, messages>>

\* Mutant: a refused message is offered again, without end.
OfferAgain ==
  /\ pc = "read"
  /\ IF reply = "accepted" THEN Succeed(TRUE) /\ UNCHANGED reply
     ELSE Goto("exchange") /\ reply' = "none"
  /\ UNCHANGED <<inputVars, email, message, messages>>

\* A body that cannot be read or parsed is an error whatever the status; a body
\* without an id is none.
ReadReply ==
  /\ pc = "read"
  /\ \/ reply = "accepted" /\ \E withID \in BOOLEAN : Succeed(withID)
     \/ Error
  /\ UNCHANGED <<inputVars, email, message, reply, messages>>

-----------------------------------------------------------------------------
(* SMTPClient.Send: sendWithTLS on port 465, else net/smtp's SendMail, which   *)
(* gives the same commands with STARTTLS before them, when the server offers it *)

\* The command after each, once the server has agreed to it.
AfterTLS == IF conf.login THEN "auth" ELSE "mail"
After ==
  [dial |-> "greet", greet |-> IF conf.port465 THEN AfterTLS ELSE "starttls",
   starttls |-> AfterTLS, auth |-> "mail", mail |-> "rcpt", rcpt |-> "data",
   data |-> "write", write |-> "close"]

\* Mutant: the configured address goes with the configured name.
HeaderFrom(from) ==
  IF conf.fromName # "" THEN Named(conf.fromName, <<conf.from>>) ELSE from

\* The From header: the configured name, if there is one, before whatever the
\* caller wrote.
FromHeader(from) == IF conf.fromName # "" THEN Named(conf.fromName, from) ELSE from

\* MAIL FROM is the sender as it is written.
MailFrom == IF email.from = NoSender THEN <<conf.from>> ELSE email.from

\* The same goes into the header; then the two texts, when there is an HTML one.
\* email.Headers are not written.
BuildMessage ==
  /\ pc = "send" /\ conf.provider = "smtp"
  /\ message' = [envelope |-> MailFrom, from |-> FromHeader(MailFrom), text |-> email.text,
                 replyTo |-> "", headers |-> Nothing]
  /\ Goto("dial")
  /\ UNCHANGED <<inputVars, email, reply, messages>>

SmtpCommand ==
  /\ pc \in DOMAIN After
  /\ Goto(After[pc]) \/ Error
  /\ UNCHANGED <<inputVars, email, message, reply, messages>>

\* Mutant: the error of w.Close is not looked at.
CloseUnchecked ==
  /\ pc = "close"
  /\ Goto("quit")
  /\ UNCHANGED <<inputVars, email, message, reply, messages>>

\* w.Close: the server's reply to the message.
Close ==
  /\ pc = "close"
  /\ \/ messages = 1 /\ Goto("quit") /\ UNCHANGED reply
     \/ Error /\ reply' = "lost"
  /\ UNCHANGED <<inputVars, email, message, messages>>

\* client.Quit: its error is the error of Send, although the message is taken.
Quit ==
  /\ pc = "quit"
  /\ Succeed(FALSE) \/ Error
  /\ UNCHANGED <<inputVars, email, message, reply, messages>>

-----------------------------------------------------------------------------
\* The steps that need no answer of the provider.
OwnStep == Prepare \/ Store \/ BuildRequest \/ ExchangeFails \/ ReadReply \/ BuildMessage

MessageNext ==
  \/ OwnStep
  \/ TakeMessage
  \/ ReplyArrives
  \/ SmtpCommand
  \/ Close
  \/ Quit

\* The program runs, and the time limit of the HTTP client passes.  Nothing is
\* assumed of the provider; the SMTP connection has no time limit.
MessageSpec ==
  MessageInit /\ [][MessageNext]_messageVars /\ WF_messageVars(OwnStep)
=============================================================================
