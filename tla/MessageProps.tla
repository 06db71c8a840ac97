---------------------------- MODULE MessageProps ----------------------------
(* What the recipient gets, against what the caller asked for.                 *)
EXTENDS Message

Texts(content) == {content[part] : part \in {"subject", "body", "htmlBody"}}

\* Every variable has its type; a call of sender.Send has returned once it has
\* an answer, and it returns an id of the provider only with success.
MessageTypeOK ==
  /\ req \in Inputs /\ env \in Environments
  /\ pc \in {"prepare", "rejected", "store", "send", "exchange", "read", "returned"}
         \union DOMAIN After \union {"close", "quit"}
  /\ reply \in {"none", "accepted", "refused", "lost"}
  /\ messages \in 0..1
  /\ answer \in {"none", "ok", "error"}
  /\ answer # "none" <=> pc = "returned"
  /\ id => answer = "ok"

\* Whatever the provider is and wherever the call is cut off: success means
\* that the provider took the message, once.  This is the call of sender.Send
\* that EmailPipeline works with.
S == INSTANCE Sending
ImplementsSending == S!SendSpec

\* ResendClient.Send returns, whatever the provider does: its HTTP client gives
\* up after 30 s and nothing is offered twice in one call.
ResendAnswers == pc = "exchange" ~> pc = "returned"

\* A message that the provider takes has a List-Unsubscribe header exactly when
\* it is not transactional and goes out through Resend: SMTPClient writes none.
UnsubscribeExplained ==
  messages > 0 =>
    ("List-Unsubscribe" \in DOMAIN message.headers
       <=> conf.provider = "resend" /\ email.template \notin Transactional)

AskedReplies ==
  LET asked == IF "Reply-To" \in DOMAIN req.headers THEN req.headers["Reply-To"] ELSE ""
  IN  /\ message.replyTo = IF asked = "" THEN conf.replyTo ELSE asked
      /\ "Reply-To" \in DOMAIN message.headers => message.headers["Reply-To"] = ""

\* Through Resend, replies go to the Reply-To of the caller or else to the
\* configured address, and no second address competes with it among the headers.
RepliesGoWhereAsked == messages > 0 /\ conf.provider = "resend" => AskedReplies

\* What a mail program, and a mail server, read in a sender: an address, or a
\* name before an address in brackets.
IsAddress(text) == Len(text) = 1 /\ text[1] \notin Brackets
IsNamed(text) ==
  /\ Len(text) = 4 /\ text[2] = "<" /\ text[4] = ">"
  /\ text[1] \notin Brackets /\ text[3] \notin Brackets
NotReadable == "not readable"
Mailbox(text) ==
  IF IsAddress(text) THEN <<"", text[1]>>
  ELSE IF IsNamed(text) THEN <<text[1], text[3]>> ELSE <<NotReadable>>

ConfiguredAddress ==
  LET own == IF conf.provider = "smtp" THEN "SMTP_FROM_ADDRESS" ELSE "RESEND_FROM_ADDRESS"
      set(key) == key \in DOMAIN env /\ env[key] # ""
  IN  IF set("FROM_EMAIL") THEN env["FROM_EMAIL"]
      ELSE IF set(own) THEN env[own] ELSE "noreply@localhost"

\* Resend gets the sender that the caller wrote, or the configured one.
RightResendSender ==
  Mailbox(message.from) =
    IF req.from # NoSender THEN Mailbox(req.from) ELSE <<conf.fromName, ConfiguredAddress>>

\* Over SMTP the header shows the address that the server is told, under the
\* configured name, if the caller wrote an address or nothing.  Of anything else,
\* a name with an address included, neither can be read.
RightSmtpSender ==
  IF req.from = NoSender \/ IsAddress(req.from)
  THEN LET address == IF req.from = NoSender THEN ConfiguredAddress ELSE req.from[1]
       IN  message.envelope = <<address>> /\ Mailbox(message.from) = <<conf.fromName, address>>
  ELSE ~IsAddress(message.envelope) /\ Mailbox(message.from) = <<NotReadable>>

RightSender ==
  /\ conf.provider = "resend" => RightResendSender
  /\ conf.provider = "smtp" => RightSmtpSender

\* A message that is taken can be seen to be from whom the caller says, or else
\* from the first of FROM_EMAIL, the provider's own variable and, with SMTP only,
\* a default, except over SMTP when the caller wrote "Name <address>", as
\* SendEmailRequest has it: SMTPClient takes the text for an address.
SenderExplained == messages > 0 => RightSender

\* Six hexadecimal digits after the sign: what a browser reads as a colour.
Readable(color) ==
  Len(color) = 7 /\ Head(color) = "#"
    /\ {i \in DOMAIN color : color[i] \in HexDigits} = 2..7

RightBranding(shown) ==
  LET asked(field) == IF req.branding = NoBranding THEN <<>> ELSE req.branding[field]
  IN  /\ \A field \in Colors :
           shown[field] = IF Readable(asked(field)) THEN asked(field)
                          ELSE DefaultBranding[field]
      /\ \A field \in BrandingFields \ Colors :
           shown[field] = IF asked(field) # <<>> THEN asked(field)
                          ELSE DefaultBranding[field]

\* The texts of a template speak of the request's own branding: a colour is the
\* caller's if a browser can read it and the default otherwise, no other field
\* is empty, and no Branding among the template's data takes its place.
BrandingShown ==
  email # Nothing /\ req.template # NoTemplate =>
    \A text \in Texts(email.text) :
      "Branding" \in DOMAIN text => RightBranding(text["Branding"])

\* "<no value>" is sent for nothing but variables that the caller left out of
\* the template's data: never for the link to unsubscribe, the branding, or the
\* preview of a template that has one.
PlaceholderOnlyForMissing ==
  email # Nothing /\ req.template # NoTemplate =>
    \A text \in Texts(email.text) : \A v \in DOMAIN text :
      text[v] = NoValue =>
        /\ v \notin DOMAIN req.data \union {"UnsubscribeURL", "Branding"}
        /\ v = "PreviewText" => Templates[req.template].preview = EmptyText

\* Readers of a grouped count take it as they take one without commas.
DigitOf(c) == CHOOSE d \in 0..9 : DigitNames[d + 1] = c
ReadOn(value, c) == IF c \in {"-", ","} THEN value ELSE 10 * value + DigitOf(c)
ValueOf(shown) ==
  LET value[i \in 0..Len(shown)] == IF i = 0 THEN 0 ELSE ReadOn(value[i - 1], shown[i])
  IN  value[Len(shown)]

\* With the value and the sign of n, and a comma before every third digit from
\* the right.  The smallest integer has a second minus sign.
ShownRight(n, shown) ==
  LET signs == IF n >= 0 THEN 0 ELSE IF n = Smallest THEN 2 ELSE 1
      size == Len(shown)
  IN  /\ ValueOf(shown) = (IF n < 0 THEN -n ELSE n)
      /\ {i \in 1..size : shown[i] = "-"} = 1..signs
      /\ {i \in 1..size : shown[i] = ","}
           = {i \in (signs + 1)..size : (size + 1 - i) % 4 = 0}

\* A whole count is shown with its own value and sign, whatever its size: what
\* FormatCount groups can be read back.
CountReadsBack ==
  email # Nothing /\ req.template # NoTemplate /\ "Count" \in DOMAIN req.data =>
    \A text \in Texts(email.text) :
      "num Count" \in DOMAIN text /\ req.data["Count"].is = "whole" =>
        ShownRight(req.data["Count"].n, text["num Count"])

-----------------------------------------------------------------------------
(* The inductive invariant.                                                    *)

\* What the provider's answer says of the message.
AnswerInv ==
  /\ MessageTypeOK
  /\ answer = "ok" \/ reply = "accepted" \/ pc = "quit" => messages = 1
  /\ reply = "lost" => pc = "returned"
  /\ pc \in {"prepare", "rejected", "store", "send"} => messages = 0

\* The headers of a message that is ready for the provider.
RightHeaders ==
  /\ "List-Unsubscribe" \in DOMAIN message.headers
       <=> conf.provider = "resend" /\ email.template \notin Transactional
  /\ conf.provider = "resend" => AskedReplies

\* The email before the provider sees it has the headers of its template and
\* the caller's Reply-To.
EmailHeaders ==
  /\ {"template", "headers"} \subseteq DOMAIN email
  /\ "List-Unsubscribe" \in DOMAIN email.headers <=> email.template \notin Transactional
  /\ "Reply-To" \in DOMAIN email.headers <=> "Reply-To" \in DOMAIN req.headers
  /\ "Reply-To" \in DOMAIN req.headers => email.headers["Reply-To"] = req.headers["Reply-To"]

HandedOver ==
  \/ pc \in {"exchange", "read", "close", "quit"} \union DOMAIN After
  \/ reply = "lost"
  \/ messages > 0

HeadersInv ==
  /\ pc \in {"store", "send"} => EmailHeaders
  /\ HandedOver => RightHeaders

\* The texts of an email with a template are rendered from the request.
TextsRendered ==
  email # Nothing /\ req.template # NoTemplate =>
    /\ "headers" \in DOMAIN email /\ req.template \in DOMAIN Templates
    /\ email.text = RenderWithBranding(Templates[req.template],
                      DataOf(req.data, req.template), req.branding)

\* The sender before and after the message is handed over.
SenderInv ==
  /\ req \in Inputs /\ env \in Environments
  /\ pc \in {"store", "send"} => {"from", "headers"} \subseteq DOMAIN email /\ email.from = req.from
  /\ HandedOver => RightSender
=============================================================================
