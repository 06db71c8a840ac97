---------------------------- MODULE MessageProofs ----------------------------
(* Theorems about Message, for any requests, templates and environments.       *)
EXTENDS RenderingProofs, FiniteSetTheorems

LEMMA CommandsFollow ==
  \A c \in DOMAIN After :
    /\ c \notin {"prepare", "rejected", "store", "send", "returned", "quit"}
    /\ After[c] \in DOMAIN After \union {"close"}
  BY DEF After, AfterTLS

\* What a call returns agrees with its answer, at each step.
LEMMA AnswerInductive == AnswerInv /\ [MessageNext]_messageVars => AnswerInv'
<1> SUFFICES ASSUME AnswerInv, [MessageNext]_messageVars PROVE AnswerInv'
  OBVIOUS
<1> USE DEF AnswerInv, MessageTypeOK, inputVars, resultVars, Goto, Succeed, Error
<1>1. DOMAIN After' = DOMAIN After
  BY DEF After
<1>2. CASE Prepare
  BY <1>1, <1>2 DEF Prepare, Accept, Reject
<1>3. CASE Store
  BY <1>1, <1>3 DEF Store
<1>4. CASE BuildRequest
  BY <1>1, <1>4 DEF BuildRequest
<1>5. CASE ExchangeFails
  BY <1>1, <1>5 DEF ExchangeFails
<1>6. CASE ReadReply
  BY <1>1, <1>6 DEF ReadReply
<1>7. CASE BuildMessage
  BY <1>1, <1>7 DEF BuildMessage, After
<1>8. CASE TakeMessage
  BY <1>1, <1>8 DEF TakeMessage
<1>9. CASE ReplyArrives
  BY <1>1, <1>9 DEF ReplyArrives
<1>10. CASE SmtpCommand
  BY <1>1, <1>10, CommandsFollow DEF SmtpCommand
<1>11. CASE Close
  BY <1>1, <1>11 DEF Close
<1>12. CASE Quit
  BY <1>1, <1>12 DEF Quit
<1>13. CASE UNCHANGED messageVars
  BY <1>1, <1>13 DEF messageVars
<1> QED
  BY <1>2, <1>3, <1>4, <1>5, <1>6, <1>7, <1>8, <1>9, <1>10, <1>11, <1>12, <1>13
  DEF MessageNext, OwnStep

\* The types, and what the answer of a call says: MessageTypeOK.
THEOREM AnswerHolds == MessageSpec => []AnswerInv
<1>1. MessageInit => AnswerInv
  BY DEF MessageInit, AnswerInv, MessageTypeOK
<1> QED BY <1>1, AnswerInductive, PTL DEF MessageSpec

\* Every variable keeps its type, and an id comes with success only.
THEOREM MessageTypes == MessageSpec => []MessageTypeOK
<1>1. AnswerInv => MessageTypeOK
  BY DEF AnswerInv
<1> QED BY <1>1, AnswerHolds, PTL

\* sender.Send, of either provider and cut off anywhere, implements Sending:
\* success only for a message that was taken, and taken once.
THEOREM SendsAsPromised == MessageSpec => ImplementsSending
<1>1. MessageInit => S!SendInit
  BY DEF MessageInit, S!SendInit
<1>2. AnswerInv /\ [MessageNext]_messageVars =>
        [S!Take \/ S!Succeed \/ S!Fail]_S!sendVars
  <2> SUFFICES ASSUME AnswerInv, [MessageNext]_messageVars
               PROVE  \/ S!Take \/ S!Succeed \/ S!Fail
                      \/ UNCHANGED S!sendVars
    OBVIOUS
  <2> USE DEF AnswerInv, MessageTypeOK, inputVars, resultVars, Goto, Succeed, Error,
              S!Take, S!Succeed, S!Fail, S!sendVars
  <2>1. CASE Prepare \/ Store \/ BuildMessage
    BY <2>1 DEF Prepare, Accept, Reject, Store, BuildMessage
  <2>2. CASE BuildRequest \/ ExchangeFails \/ ReadReply \/ ReplyArrives
    BY <2>2 DEF BuildRequest, ExchangeFails, ReadReply, ReplyArrives
  <2>3. CASE TakeMessage
    BY <2>3 DEF TakeMessage
  <2>4. CASE SmtpCommand \/ Close \/ Quit
    BY <2>4 DEF SmtpCommand, Close, Quit, After
  <2>5. CASE UNCHANGED messageVars
    BY <2>5 DEF messageVars
  <2> QED BY <2>1, <2>2, <2>3, <2>4, <2>5 DEF MessageNext, OwnStep
<1> QED
  BY <1>1, <1>2, AnswerHolds, PTL DEF MessageSpec, ImplementsSending, S!SendSpec

-----------------------------------------------------------------------------
(* Headers *)

LEMMA HeadersAdded ==
  ASSUME NEW headers, NEW template,
         "List-Unsubscribe" \in DOMAIN headers => template \notin Transactional
  PROVE  LET added == AddUnsubscribe(headers, template)
         IN  /\ "List-Unsubscribe" \in DOMAIN added <=> template \notin Transactional
             /\ "Reply-To" \in DOMAIN added <=> "Reply-To" \in DOMAIN headers
             /\ "Reply-To" \in DOMAIN headers => added["Reply-To"] = headers["Reply-To"]
  BY DEF AddUnsubscribe, With

LEMMA HeadersCopied ==
  ASSUME NEW headers
  PROVE  LET copied == CopyAllowed(headers)
         IN  /\ "List-Unsubscribe" \notin DOMAIN copied
             /\ "Reply-To" \in DOMAIN copied <=> "Reply-To" \in DOMAIN headers
             /\ "Reply-To" \in DOMAIN headers => copied["Reply-To"] = headers["Reply-To"]
  BY DEF CopyAllowed, AllowedHeaders

\* Once a message was handed over, nothing but the provider touches it.
LEMMA StaysHandedOver ==
  ASSUME HeadersInv, HandedOver, UNCHANGED <<email, message, inputVars>>,
         pc' \notin {"store", "send"}
  PROVE  HeadersInv'
<1>1. RightHeaders
  BY DEF HeadersInv
<1>2. RightHeaders'
  BY <1>1 DEF RightHeaders, AskedReplies, conf, inputVars
<1> QED BY <1>2 DEF HeadersInv

LEMMA HeadersInductive == AnswerInv /\ HeadersInv /\ [MessageNext]_messageVars => HeadersInv'
<1> SUFFICES ASSUME AnswerInv, HeadersInv, [MessageNext]_messageVars PROVE HeadersInv'
  OBVIOUS
<1> USE DEF inputVars, resultVars, Goto, Succeed, Error
<1>1. CASE Prepare
  <2>1. ~HandedOver'
    BY <1>1 DEF Prepare, Accept, Reject, HandedOver, After, AnswerInv, MessageTypeOK
  <2>2. ASSUME pc' \in {"store", "send"} PROVE EmailHeaders'
    <3>1. /\ email'.template = req.template
          /\ email'.headers = AddUnsubscribe(CopyAllowed(req.headers), req.template)
          /\ {"template", "headers"} \subseteq DOMAIN email'
      BY <1>1, <2>2 DEF Prepare, Accept, Reject
    <3> QED
      BY <1>1, <3>1, HeadersAdded, HeadersCopied DEF Prepare, EmailHeaders
  <2> QED BY <2>1, <2>2 DEF HeadersInv
<1>2. CASE Store
  <2>1. EmailHeaders
    BY <1>2 DEF Store, HeadersInv
  <2>2. EmailHeaders'
    <3>1. /\ email'.template = email.template
          /\ email'.headers = AddUnsubscribe(email.headers, email.template)
          /\ DOMAIN email' = DOMAIN email
      BY <1>2, <2>1 DEF Store, EmailHeaders
    <3> QED
      BY <1>2, <2>1, <3>1, HeadersAdded DEF Store, EmailHeaders
  <2>3. ~HandedOver'
    BY <1>2 DEF Store, HandedOver, After, AnswerInv, MessageTypeOK
  <2> QED BY <2>2, <2>3 DEF HeadersInv
<1>3. CASE BuildRequest
  <2>1. EmailHeaders
    BY <1>3 DEF BuildRequest, HeadersInv
  <2>2. CASE Error
    <3>1. pc = "send" /\ pc' = "returned" /\ UNCHANGED <<reply, messages>>
      BY <1>3, <2>2 DEF BuildRequest
    <3>2. ~HandedOver'
      BY <3>1 DEF HandedOver, After, AnswerInv, MessageTypeOK
    <3> QED BY <3>1, <3>2 DEF HeadersInv
  <2>3. CASE Goto("exchange")
    <3>1. /\ email' = email /\ req' = req /\ env' = env
          /\ conf.provider = "resend" /\ pc' = "exchange"
      BY <1>3, <2>3 DEF BuildRequest
    <3>3. /\ message'.replyTo = ReplyTo(email.headers).replyTo
          /\ message'.headers = ReplyTo(email.headers).headers
      <4>1. ~(email.from = NoSender /\ conf.from = "")
        BY <1>3, <3>1 DEF BuildRequest
      <4>2. message' =
              [from |-> IF email.from = NoSender THEN DefaultSender ELSE email.from,
               text |-> email.text, replyTo |-> ReplyTo(email.headers).replyTo,
               headers |-> ReplyTo(email.headers).headers]
        BY <1>3, <4>1, Zenon DEF BuildRequest
      <4> QED BY <4>2
    <3>2. RightHeaders'
      BY <2>1, <3>1, <3>3 DEF RightHeaders, AskedReplies, ReplyTo, EmailHeaders, conf
    <3> QED BY <3>1, <3>2 DEF HeadersInv
  <2> QED BY <1>3, <2>2, <2>3 DEF BuildRequest
<1>4. CASE BuildMessage
  <2>1. message'.headers = Nothing /\ UNCHANGED <<email, inputVars>> /\ pc' = "dial"
        /\ conf.provider = "smtp"
    BY <1>4 DEF BuildMessage
  <2>2. RightHeaders'
    BY <2>1 DEF RightHeaders, conf, Nothing
  <2> QED BY <2>1, <2>2 DEF HeadersInv
<1>5. CASE ExchangeFails \/ ReadReply \/ TakeMessage \/ ReplyArrives \/ SmtpCommand \/ Close \/ Quit
  <2>1. CASE ExchangeFails \/ ReadReply \/ TakeMessage \/ ReplyArrives \/ Close \/ Quit
    <3>1. UNCHANGED <<email, message, inputVars>> /\ pc' \notin {"store", "send"}
      BY <2>1 DEF ExchangeFails, ReadReply, TakeMessage, ReplyArrives, Close, Quit, AnswerInv
    <3>2. HandedOver
      BY <2>1 DEF ExchangeFails, ReadReply, TakeMessage, ReplyArrives, Close, Quit, HandedOver
    <3> QED BY <3>1, <3>2, StaysHandedOver
  <2>2. CASE SmtpCommand
    <3>1. UNCHANGED <<email, message, inputVars>> /\ HandedOver
      BY <2>2 DEF SmtpCommand, HandedOver
    <3>2. pc' \notin {"store", "send"}
      BY <2>2, CommandsFollow DEF SmtpCommand, After
    <3> QED BY <3>1, <3>2, StaysHandedOver
  <2> QED BY <1>5, <2>1, <2>2
<1>6. CASE UNCHANGED messageVars
  BY <1>6 DEF messageVars, HeadersInv, HandedOver, RightHeaders, EmailHeaders,
             AskedReplies, conf, After
<1> QED
  BY <1>1, <1>2, <1>3, <1>4, <1>5, <1>6 DEF MessageNext, OwnStep

\* The headers of every email and message are right.
THEOREM HeadersHold == MessageSpec => []HeadersInv
<1>1. MessageInit => HeadersInv
  BY DEF MessageInit, HeadersInv, HandedOver, After
<1> QED BY <1>1, AnswerHolds, HeadersInductive, PTL DEF MessageSpec

\* A message has List-Unsubscribe exactly when it goes through Resend and is
\* not transactional.
THEOREM Unsubscribable == MessageSpec => []UnsubscribeExplained
<1>1. HeadersInv => UnsubscribeExplained
  BY DEF HeadersInv, HandedOver, RightHeaders, UnsubscribeExplained
<1> QED BY <1>1, HeadersHold, PTL

\* Replies go to the caller's Reply-To or else to the configured one.
THEOREM RepliesArrive == MessageSpec => []RepliesGoWhereAsked
<1>1. HeadersInv => RepliesGoWhereAsked
  BY DEF HeadersInv, HandedOver, RightHeaders, RepliesGoWhereAsked
<1> QED BY <1>1, HeadersHold, PTL

-----------------------------------------------------------------------------
(* The sender *)

\* What config.Load makes of the environment for the sender.
LEMMA ConfiguredSender ==
  ASSUME env \in Environments
  PROVE  /\ conf.provider \in {"smtp", "resend"}
         /\ conf.provider = "smtp" => conf.fromName # ""
         /\ conf.provider = "smtp" \/ conf.from # "" => conf.from = ConfiguredAddress
         /\ conf.fromName \notin Brackets /\ conf.from \notin Brackets
<1>1. \A key \in DOMAIN env : env[key] \notin Brackets
  BY SenderAssumption
<1>2. \A key, default : default \notin Brackets => GetEnv(env, key, default) \notin Brackets
  BY <1>1 DEF GetEnv
<1>3. CASE Resend(env)
  <2>1. /\ conf.provider = "resend"
        /\ conf.from = GetEnvWithFallback(env, "FROM_EMAIL", "RESEND_FROM_ADDRESS", "")
        /\ conf.fromName = GetEnvWithFallback(env, "FROM_NAME", "RESEND_FROM_NAME", "")
    BY <1>3 DEF conf, Load, LoadResend
  <2>2. conf.fromName \notin Brackets /\ conf.from \notin Brackets
    <3>1. "" \notin Brackets
      BY DEF Brackets
    <3> QED BY <1>2, <2>1, <3>1 DEF GetEnvWithFallback
  <2> QED BY <2>1, <2>2 DEF ConfiguredAddress, GetEnvWithFallback, GetEnv
<1>4. CASE ~Resend(env)
  <2>1. /\ conf.provider = "smtp"
        /\ conf.from =
             GetEnvWithFallback(env, "FROM_EMAIL", "SMTP_FROM_ADDRESS", "noreply@localhost")
        /\ conf.fromName =
             GetEnvWithFallback(env, "FROM_NAME", "SMTP_FROM_NAME", "Email Service")
    BY <1>4 DEF conf, Load, LoadSMTP
  <2>2. conf.fromName \notin Brackets /\ conf.from \notin Brackets
    <3>1. "noreply@localhost" \notin Brackets /\ "Email Service" \notin Brackets
      BY DEF Brackets
    <3> QED BY <1>2, <2>1, <3>1 DEF GetEnvWithFallback
  <2> QED BY <2>1, <2>2 DEF ConfiguredAddress, GetEnvWithFallback, GetEnv
<1> QED BY <1>3, <1>4

\* A name before a text makes a mailbox of an address, and of nothing else.
LEMMA NamedReads ==
  ASSUME NEW name, name \notin Brackets, NEW words, NEW text \in Seq(words)
  PROVE  Mailbox(Named(name, text)) =
           IF IsAddress(text) THEN <<name, text[1]>> ELSE <<NotReadable>>
<1> SUFFICES ASSUME NEW named, named = Named(name, text)
             PROVE  Mailbox(named) =
                      IF IsAddress(text) THEN <<name, text[1]>> ELSE <<NotReadable>>
  OBVIOUS
<1>1. /\ Len(named) = Len(text) + 3
      /\ named[1] = name /\ named[2] = "<"
      /\ Len(text) = 1 => named[3] = text[1] /\ named[4] = ">"
  BY DEF Named
<1>2. Len(text) \in Nat
  OBVIOUS
<1>3. ~IsAddress(named)
  BY <1>1, <1>2 DEF IsAddress
<1>4. IsNamed(named) <=> IsAddress(text)
  <2>1. Len(named) = 4 <=> Len(text) = 1
    <3>1. \A n, m \in Int : n = m + 3 => (n = 4 <=> m = 1)
      OBVIOUS
    <3>2. Len(named) \in Int /\ Len(text) \in Int /\ Len(named) = Len(text) + 3
      BY <1>1, <1>2
    <3> QED BY <3>1, <3>2, Zenon
  <2>2. ASSUME Len(text) = 1 PROVE IsNamed(named) <=> text[1] \notin Brackets
    BY <1>1, <2>1, <2>2, Zenon DEF IsNamed
  <2> QED BY <2>1, <2>2, Zenon DEF IsNamed, IsAddress
<1>5. IsAddress(text) => named[1] = name /\ named[3] = text[1]
  BY <1>1 DEF IsAddress
<1> QED BY <1>3, <1>4, <1>5 DEF Mailbox

\* The configured sender can be read.
LEMMA ConfiguredReads ==
  ASSUME env \in Environments
  PROVE  Mailbox(DefaultSender) = <<conf.fromName, conf.from>>
<1>1. conf.fromName \notin Brackets /\ conf.from \notin Brackets
  BY ConfiguredSender
<1>2. IsAddress(<<conf.from>>)
  BY <1>1 DEF IsAddress
<1>3. <<conf.from>> \in Seq({conf.from}) /\ <<conf.from>>[1] = conf.from
  OBVIOUS
<1> QED BY <1>1, <1>2, <1>3, NamedReads DEF DefaultSender, Mailbox

\* Once a message was handed over, its sender stays.
LEMMA SenderStays ==
  ASSUME SenderInv, HandedOver, UNCHANGED <<message, inputVars>>,
         pc' \notin {"store", "send"}
  PROVE  SenderInv'
<1>1. RightSender'
  BY DEF SenderInv, RightSender, RightResendSender, RightSmtpSender, ConfiguredAddress,
         conf, inputVars
<1> QED BY <1>1 DEF SenderInv, inputVars

LEMMA SenderInductive == AnswerInv /\ SenderInv /\ [MessageNext]_messageVars => SenderInv'
<1> SUFFICES ASSUME AnswerInv, SenderInv, [MessageNext]_messageVars PROVE SenderInv'
  OBVIOUS
<1> USE DEF inputVars, resultVars, Goto, Succeed, Error
<1>1. CASE Prepare
  <2>1. ~HandedOver'
    BY <1>1 DEF Prepare, Accept, Reject, HandedOver, After, AnswerInv, MessageTypeOK
  <2>2. ASSUME pc' \in {"store", "send"}
        PROVE  {"from", "headers"} \subseteq DOMAIN email' /\ email'.from = req.from
    BY <1>1, <2>2 DEF Prepare, Accept, Reject
  <2>3. UNCHANGED inputVars
    BY <1>1 DEF Prepare
  <2> QED BY <2>1, <2>2, <2>3 DEF SenderInv
<1>2. CASE Store
  <2>1. DOMAIN email' = DOMAIN email /\ email'.from = email.from /\ UNCHANGED inputVars
    BY <1>2 DEF Store, SenderInv
  <2>2. ~HandedOver'
    BY <1>2 DEF Store, HandedOver, After, AnswerInv, MessageTypeOK
  <2> QED BY <1>2, <2>1, <2>2 DEF Store, SenderInv
<1>3. CASE BuildRequest
  <2>1. email.from = req.from /\ req' = req /\ env' = env /\ conf.provider = "resend"
    BY <1>3 DEF BuildRequest, SenderInv
  <2>2. CASE email.from = NoSender /\ conf.from = ""
    <3>1. pc = "send" /\ pc' = "returned" /\ UNCHANGED <<reply, messages>>
      BY <1>3, <2>2 DEF BuildRequest
    <3>2. ~HandedOver'
      BY <3>1 DEF HandedOver, After, AnswerInv, MessageTypeOK
    <3> QED BY <2>1, <3>1, <3>2 DEF SenderInv
  <2>3. CASE ~(email.from = NoSender /\ conf.from = "")
    <3>1. /\ message'.from = IF req.from = NoSender THEN DefaultSender ELSE req.from
          /\ pc' = "exchange"
      <4>1. message' =
              [from |-> IF email.from = NoSender THEN DefaultSender ELSE email.from,
               text |-> email.text, replyTo |-> ReplyTo(email.headers).replyTo,
               headers |-> ReplyTo(email.headers).headers]
        BY <1>3, <2>3, Zenon DEF BuildRequest
      <4>2. pc' = "exchange"
        BY <1>3, <2>3, Zenon DEF BuildRequest
      <4> QED BY <2>1, <4>1, <4>2
    <3>2. conf' = conf
      BY <2>1 DEF conf
    <3>3. ASSUME req.from = NoSender PROVE RightSender'
      <4>1. Mailbox(message'.from) = <<conf.fromName, conf.from>>
        BY <3>1, <3>3, ConfiguredReads DEF SenderInv
      <4>2. conf.from = ConfiguredAddress
        BY <2>1, <2>3, <3>3, ConfiguredSender DEF SenderInv
      <4>3. ConfiguredAddress' = ConfiguredAddress
        BY <2>1, <3>2 DEF ConfiguredAddress
      <4> QED
        BY <2>1, <3>2, <3>3, <4>1, <4>2, <4>3 DEF RightSender, RightResendSender
    <3>4. ASSUME req.from # NoSender PROVE RightSender'
      BY <2>1, <3>1, <3>2, <3>4 DEF RightSender, RightResendSender
    <3>5. RightSender'
      BY <3>3, <3>4
    <3> QED BY <2>1, <3>1, <3>5 DEF SenderInv
  <2> QED BY <2>2, <2>3
<1>4. CASE BuildMessage
  <2>1. /\ email.from = req.from /\ req' = req /\ env' = env
        /\ conf.provider = "smtp" /\ pc' = "dial"
    BY <1>4 DEF BuildMessage, SenderInv
  <2>2. conf' = conf
    BY <2>1 DEF conf
  <2> DEFINE from == IF req.from = NoSender THEN <<conf.from>> ELSE req.from
  <2>3. message'.envelope = from /\ message'.from = FromHeader(from)
    BY <1>4, <2>1 DEF BuildMessage, MailFrom
  <2>4. /\ conf.fromName # "" /\ conf.fromName \notin Brackets
        /\ conf.from \notin Brackets /\ conf.from = ConfiguredAddress
    BY <2>1, ConfiguredSender DEF SenderInv
  <2>5. RightSender'
    <3>1. \E words : from \in Seq(words)
      <4>1. <<conf.from>> \in Seq({conf.from})
        OBVIOUS
      <4>2. req.from \in Seq(STRING)
        BY SenderAssumption DEF SenderInv
      <4> QED BY <4>1, <4>2, Zenon
    <3>2. Mailbox(message'.from) =
            IF IsAddress(from) THEN <<conf.fromName, from[1]>> ELSE <<NotReadable>>
      BY <2>3, <2>4, <3>1, NamedReads DEF FromHeader
    <3>3. ConfiguredAddress' = ConfiguredAddress
      BY <2>1, <2>2 DEF ConfiguredAddress
    <3>4. CASE req.from = NoSender
      <4>1. from = <<conf.from>> /\ from[1] = conf.from /\ IsAddress(from)
        BY <2>4, <3>4 DEF IsAddress
      <4> QED
        BY <2>1, <2>2, <2>3, <2>4, <3>2, <3>3, <3>4, <4>1 DEF RightSender, RightSmtpSender
    <3>5. CASE req.from # NoSender
      <4>1. from = req.from
        BY <3>5
      <4>2. IsAddress(from) => from = <<from[1]>>
        BY <3>1 DEF IsAddress
      <4> HIDE DEF from
      <4> QED
        BY <2>1, <2>2, <2>3, <3>2, <3>5, <4>1, <4>2 DEF RightSender, RightSmtpSender
    <3> QED BY <3>4, <3>5
  <2> QED BY <2>1, <2>5 DEF SenderInv
<1>5. CASE ExchangeFails \/ ReadReply \/ TakeMessage \/ ReplyArrives \/ Close \/ Quit
  <2>1. UNCHANGED <<message, inputVars>> /\ pc' \notin {"store", "send"}
    BY <1>5 DEF ExchangeFails, ReadReply, TakeMessage, ReplyArrives, Close, Quit, AnswerInv
  <2>2. HandedOver
    BY <1>5 DEF ExchangeFails, ReadReply, TakeMessage, ReplyArrives, Close, Quit, HandedOver
  <2> QED BY <2>1, <2>2, SenderStays
<1>6. CASE SmtpCommand
  <2>1. UNCHANGED <<message, inputVars>> /\ HandedOver
    BY <1>6 DEF SmtpCommand, HandedOver
  <2>2. pc' \notin {"store", "send"}
    BY <1>6, CommandsFollow DEF SmtpCommand, After
  <2> QED BY <2>1, <2>2, SenderStays
<1>7. CASE UNCHANGED messageVars
  BY <1>7 DEF messageVars, SenderInv, HandedOver, RightSender, RightResendSender,
             RightSmtpSender, ConfiguredAddress, conf, After
<1> QED
  BY <1>1, <1>2, <1>3, <1>4, <1>5, <1>6, <1>7 DEF MessageNext, OwnStep

\* A message is from whom the caller says, or else from the configured sender.
THEOREM SenderHolds == MessageSpec => []SenderExplained
<1>1. MessageInit => SenderInv
  BY DEF MessageInit, SenderInv, HandedOver, After
<1>2. SenderInv => SenderExplained
  BY DEF SenderInv, HandedOver, SenderExplained
<1> QED BY <1>1, <1>2, AnswerHolds, SenderInductive, PTL DEF MessageSpec

-----------------------------------------------------------------------------
(* Branding *)

\* The service's check of a colour lets through what a browser can read.
LEMMA ValidIsReadable ==
  ASSUME NEW color \in Seq(STRING)
  PROVE  IsValidHexColor(color) <=> Readable(color)
<1> DEFINE wide == {i \in DOMAIN color : color[i] \in TwoBytes}
<1>1. Len(color) \in Nat /\ DOMAIN color = 1..Len(color)
  OBVIOUS
<1>2. "#" \notin TwoBytes \union HexDigits /\ TwoBytes \cap HexDigits = {}
  BY DEF TwoBytes, HexDigits
<1>3. wide = {} => ByteLen(color) = Len(color)
  <2>1. ByteLen(color) = Len(color) + Cardinality(wide)
    BY DEF ByteLen
  <2> HIDE DEF wide
  <2> QED BY <1>1, <2>1, FS_EmptySet
<1>4. ASSUME IsValidHexColor(color) PROVE Readable(color)
  <2>1. wide = {}
    BY <1>1, <1>2, <1>4 DEF IsValidHexColor
  <2>2. Len(color) = 7
    BY <1>1, <1>4, <1>3, <2>1 DEF IsValidHexColor
  <2>3. {i \in DOMAIN color : color[i] \in HexDigits} = 2..7
    BY <1>1, <1>2, <1>4, <2>2 DEF IsValidHexColor
  <2> QED BY <1>4, <2>2, <2>3 DEF IsValidHexColor, Readable
<1>5. ASSUME Readable(color) PROVE IsValidHexColor(color)
  <2>1. Len(color) = 7 /\ color[1] = "#" /\ \A i \in 2..7 : color[i] \in HexDigits
    BY <1>1, <1>5 DEF Readable
  <2>2. wide = {}
    BY <1>1, <1>2, <2>1
  <2>3. ByteLen(color) = 7
    BY <1>3, <2>1, <2>2
  <2> QED BY <2>1, <2>3 DEF IsValidHexColor
<1> QED BY <1>4, <1>5

LEMMA ColorsAreFields == Colors \subseteq BrandingFields
  BY DEF Colors, BrandingFields, DefaultBranding

\* What a rendered text shows as the branding.
LEMMA BrandingOfTexts ==
  ASSUME NEW template, NEW data, NEW branding,
         branding \in {NoBranding} \union [BrandingFields -> Seq(STRING)],
         NEW text \in Texts(RenderWithBranding(template, data, branding)),
         "Branding" \in DOMAIN text
  PROVE  text["Branding"] =
           PrepareBrandingData(IF branding = NoBranding THEN DefaultBranding
                               ELSE MergeWithDefaults(branding))
<1> DEFINE used == IF branding = NoBranding THEN DefaultBranding ELSE MergeWithDefaults(branding)
           prepared == PreparedData(template, data, used)
<1>1. \E uses : text = RenderString(uses, prepared)
  BY DEF Texts, RenderWithBranding
<1>2. text["Branding"] = Shown("Branding", prepared)
  BY <1>1 DEF RenderString
<1>3. "Branding" \in DOMAIN prepared /\ prepared["Branding"] = PrepareBrandingData(used)
  <2> HIDE DEF used
  <2> QED BY DEF PreparedData, With
<1>4. Shown("Branding", prepared) = prepared["Branding"]
  <2> HIDE DEF prepared
  <2> QED BY <1>3 DEF Shown
<1> QED BY <1>2, <1>3, <1>4

LEMMA TextsInductive == TextsRendered /\ [MessageNext]_messageVars => TextsRendered'
<1> SUFFICES ASSUME TextsRendered, [MessageNext]_messageVars PROVE TextsRendered'
  OBVIOUS
<1> USE DEF TextsRendered, inputVars
<1>1. CASE Prepare
  <2>1. req' = req
    BY <1>1 DEF Prepare
  <2>2. CASE email' = email
    BY <2>1, <2>2
  <2>3. CASE email' # email
    <3>1. req.template # NoTemplate =>
            /\ req.template \in DOMAIN Templates
            /\ Accept(RenderWithBranding(Templates[req.template],
                        DataOf(req.data, req.template), req.branding))
      BY <1>1, <2>3 DEF Prepare, Reject
    <3>2. ASSUME NEW content, Accept(content), email' # email
          PROVE  "headers" \in DOMAIN email' /\ email'.text = content
      BY <3>2 DEF Accept, Reject
    <3> QED BY <2>1, <2>3, <3>1, <3>2
  <2> QED BY <2>2, <2>3
<1>2. CASE Store
  <2>1. UNCHANGED inputVars /\ email' = [email EXCEPT !.headers = AddUnsubscribe(email.headers, email.template)]
    BY <1>2 DEF Store
  <2>2. DOMAIN email' = DOMAIN email /\ email'.text = email.text
    BY <2>1
  <2>3. email = Nothing => email' = Nothing
    BY <2>1 DEF Nothing
  <2> QED BY <2>1, <2>2, <2>3
<1>3. CASE UNCHANGED <<email, inputVars>>
  BY <1>3
<1> QED
  BY <1>1, <1>2, <1>3 DEF MessageNext, OwnStep, BuildRequest, ExchangeFails, ReadReply,
     BuildMessage, TakeMessage, ReplyArrives, SmtpCommand, Close, Quit, messageVars

LEMMA RequestStays == [MessageNext]_messageVars => req' = req
  BY DEF MessageNext, OwnStep, Prepare, Store, BuildRequest, ExchangeFails, ReadReply,
     BuildMessage, TakeMessage, ReplyArrives, SmtpCommand, Close, Quit, messageVars, inputVars

\* Every text of a template shows the request's own branding, filled up with the
\* defaults.
THEOREM BrandingHolds == MessageSpec => []BrandingShown
<1>1. MessageInit => TextsRendered
  BY DEF MessageInit, TextsRendered
<1>2. MessageInit => req \in Inputs
  BY DEF MessageInit
<1>3. req \in Inputs /\ [MessageNext]_messageVars => (req \in Inputs)'
  BY RequestStays
<1>4. ASSUME req \in Inputs, TextsRendered PROVE BrandingShown
  <2> SUFFICES ASSUME email # Nothing, req.template # NoTemplate,
                      NEW text \in Texts(email.text), "Branding" \in DOMAIN text
               PROVE  RightBranding(text["Branding"])
    BY DEF BrandingShown
  <2> DEFINE used == IF req.branding = NoBranding THEN DefaultBranding
                     ELSE MergeWithDefaults(req.branding)
             asked(field) == IF req.branding = NoBranding THEN <<>> ELSE req.branding[field]
             shown == PrepareBrandingData(used)
  <2>1. req.branding \in {NoBranding} \union [BrandingFields -> Seq(STRING)]
    BY <1>4, BrandingAssumption
  <2>2. text["Branding"] = shown
    BY <1>4, <2>1, BrandingOfTexts DEF TextsRendered
  <2>3. ASSUME NEW field \in BrandingFields
        PROVE  /\ used[field] = IF asked(field) = <<>> THEN DefaultBranding[field] ELSE asked(field)
               /\ asked(field) \in Seq(STRING)
    <3>1. CASE req.branding = NoBranding
      BY <3>1
    <3>2. CASE req.branding # NoBranding
      <4>1. asked(field) = req.branding[field] /\ asked(field) \in Seq(STRING)
        BY <2>1, <3>2
      <4>2. used[field] = IF req.branding[field] = <<>> THEN DefaultBranding[field]
                          ELSE req.branding[field]
        BY <3>2 DEF MergeWithDefaults
      <4> QED BY <4>1, <4>2
    <3> QED BY <3>1, <3>2
  <2>4. ASSUME NEW field \in BrandingFields
        PROVE  shown[field] = IF field \in Colors /\ ~IsValidHexColor(used[field])
                              THEN DefaultBranding[field] ELSE used[field]
    <3>1. field # "LogoContent"
      BY DEF BrandingFields, DefaultBranding
    <3> HIDE DEF used
    <3> QED BY <3>1 DEF PrepareBrandingData
  <2>5. ~Readable(<<>>)
    BY DEF Readable
  <2>6. ASSUME NEW field \in Colors
        PROVE  shown[field] = IF Readable(asked(field)) THEN asked(field) ELSE DefaultBranding[field]
    <3> HIDE DEF used, asked, shown
    <3> QED BY <2>3, <2>4, <2>5, ColorsAreFields, ValidIsReadable
  <2>7. ASSUME NEW field \in BrandingFields \ Colors
        PROVE  shown[field] = IF asked(field) # <<>> THEN asked(field) ELSE DefaultBranding[field]
    <3> HIDE DEF used, asked, shown
    <3> QED BY <2>3, <2>4
  <2> QED BY <2>2, <2>6, <2>7, Zenon DEF RightBranding
<1> QED BY <1>1, <1>2, <1>3, <1>4, TextsInductive, PTL DEF MessageSpec

-----------------------------------------------------------------------------
(* Placeholders *)

\* A prepared branding is shown as what it is.
LEMMA BrandingIsShown ==
  ASSUME NEW branding PROVE PrepareBrandingData(branding) # NoValue
<1>1. {"LogoContent", "CompanyName"} \subseteq DOMAIN PrepareBrandingData(branding)
  BY DEF PrepareBrandingData, BrandingFields, DefaultBranding
<1>2. DOMAIN NoValue = {1}
  BY DEF NoValue
<1>3. "LogoContent" # "CompanyName"
  OBVIOUS
<1> HIDE DEF NoValue
<1> QED BY <1>1, <1>2, <1>3

\* What a template is shown of the data and the branding, and that nothing of
\* it is the placeholder.
LEMMA PreparedShown ==
  ASSUME NEW template, NEW data, NEW branding, template.preview # NoValue,
         \A v \in DOMAIN data \ {"Count"} : data[v] # NoValue
  PROVE  LET prepared == PreparedData(template, data, branding)
         IN  /\ DOMAIN data \union {"Branding"} \subseteq DOMAIN prepared
             /\ template.preview # EmptyText => "PreviewText" \in DOMAIN prepared
             /\ \A v \in DOMAIN prepared \ {"Count"} : prepared[v] # NoValue
<1> DEFINE branded == With(data, "Branding", PrepareBrandingData(branding))
           prepared == PreparedData(template, data, branding)
<1>1. PrepareBrandingData(branding) # NoValue
  BY BrandingIsShown
<1>2. /\ DOMAIN branded = DOMAIN data \union {"Branding"}
      /\ \A v \in DOMAIN branded \ {"Count"} : branded[v] # NoValue
  BY <1>1 DEF With
<1>3. CASE "PreviewText" \notin DOMAIN data /\ template.preview # EmptyText
  <2>1. prepared = With(branded, "PreviewText", template.preview)
    BY <1>3 DEF PreparedData
  <2> HIDE DEF branded, prepared
  <2>2. /\ DOMAIN prepared = DOMAIN branded \union {"PreviewText"}
        /\ \A v \in DOMAIN prepared \ {"Count"} : prepared[v] # NoValue
    BY <1>2, <2>1 DEF With
  <2>3. /\ DOMAIN data \union {"Branding"} \subseteq DOMAIN prepared
        /\ template.preview # EmptyText => "PreviewText" \in DOMAIN prepared
    BY <1>2, <2>2
  <2> QED BY <2>2, <2>3 DEF prepared
<1>4. CASE ~("PreviewText" \notin DOMAIN data /\ template.preview # EmptyText)
  <2>1. prepared = branded
    BY <1>4 DEF PreparedData
  <2> HIDE DEF branded, prepared
  <2>2. /\ DOMAIN data \union {"Branding"} \subseteq DOMAIN prepared
        /\ template.preview # EmptyText => "PreviewText" \in DOMAIN prepared
        /\ \A v \in DOMAIN prepared \ {"Count"} : prepared[v] # NoValue
    BY <1>2, <1>4, <2>1
  <2> QED BY <2>2 DEF prepared
<1> QED BY <1>3, <1>4

\* The data of a request, with its link to unsubscribe.
LEMMA LinkedData ==
  ASSUME req \in Inputs
  PROVE  LET data == DataOf(req.data, req.template)
         IN  /\ DOMAIN data = DOMAIN req.data \union {"UnsubscribeURL"}
             /\ \A v \in DOMAIN data \ {"Count"} : data[v] # NoValue
<1>1. \A v \in DOMAIN req.data \ {"Count"} : req.data[v] # NoValue
  BY DataAssumption
<1>2. <<"own link">> # NoValue
  BY DEF NoValue
<1> HIDE DEF NoValue
<1> QED BY <1>1, <1>2 DEF DataOf, With

\* Only variables that the caller left out of the template's data are sent as
\* "<no value>".
THEOREM PlaceholdersExplained == MessageSpec => []PlaceholderOnlyForMissing
<1>1. MessageInit => TextsRendered
  BY DEF MessageInit, TextsRendered
<1>2. ASSUME req \in Inputs, TextsRendered PROVE PlaceholderOnlyForMissing
  <2> SUFFICES ASSUME email # Nothing, req.template # NoTemplate,
                      NEW text \in Texts(email.text), NEW v \in DOMAIN text, text[v] = NoValue
               PROVE  /\ v \notin DOMAIN req.data \union {"UnsubscribeURL", "Branding"}
                      /\ v = "PreviewText" => Templates[req.template].preview = EmptyText
    BY DEF PlaceholderOnlyForMissing
  <2> DEFINE template == Templates[req.template]
             data == DataOf(req.data, req.template)
             branding == IF req.branding = NoBranding THEN DefaultBranding
                         ELSE MergeWithDefaults(req.branding)
             prepared == PreparedData(template, data, branding)
  <2>1. /\ template.preview # NoValue
        /\ "Count" \notin template.subject \union template.body \union template.htmlBody
    BY <1>2, TemplateAssumption DEF TextsRendered
  <2>2. /\ DOMAIN data = DOMAIN req.data \union {"UnsubscribeURL"}
        /\ \A u \in DOMAIN data \ {"Count"} : data[u] # NoValue
    BY <1>2, LinkedData
  <2>3. /\ DOMAIN data \union {"Branding"} \subseteq DOMAIN prepared
        /\ template.preview # EmptyText => "PreviewText" \in DOMAIN prepared
        /\ \A u \in DOMAIN prepared \ {"Count"} : prepared[u] # NoValue
    <3> HIDE DEF template, data, branding
    <3> QED BY <2>1, <2>2, PreparedShown
  <2>4. PICK uses \in {template.subject, template.body, template.htmlBody} :
          text = RenderString(uses, prepared)
    BY <1>2 DEF TextsRendered, Texts, RenderWithBranding
  <2>5. v # "Count" /\ Shown(v, prepared) = NoValue
    <3> HIDE DEF template, prepared
    <3> QED BY <2>1, <2>4 DEF RenderString
  <2> HIDE DEF template, data, branding, prepared
  <2>6. "num Count" \notin DOMAIN req.data
    BY <1>2, DataAssumption
  <2>7. <<"text">> # NoValue
    BY DEF NoValue
  <2>8. v = "num Count" \/ v \notin DOMAIN prepared
    <3> HIDE DEF NoValue
    <3> QED BY <2>3, <2>5, <2>7 DEF Shown
  <2> QED BY <2>2, <2>3, <2>6, <2>8 DEF template
<1>3. MessageInit => req \in Inputs
  BY DEF MessageInit
<1>4. req \in Inputs /\ [MessageNext]_messageVars => (req \in Inputs)'
  BY RequestStays
<1> QED BY <1>1, <1>2, <1>3, <1>4, TextsInductive, PTL DEF MessageSpec

-----------------------------------------------------------------------------
(* Counts *)

\* A template is shown the count of the request itself.
LEMMA CountIsShown ==
  ASSUME NEW template, NEW branding, NEW asked, "Count" \in DOMAIN req.data
  PROVE  LET prepared == PreparedData(template, DataOf(req.data, asked), branding)
         IN  "Count" \in DOMAIN prepared /\ prepared["Count"] = req.data["Count"]
<1> DEFINE data == DataOf(req.data, asked)
           branded == With(data, "Branding", PrepareBrandingData(branding))
           prepared == PreparedData(template, data, branding)
<1>1. "Count" \in DOMAIN data /\ data["Count"] = req.data["Count"]
  BY DEF DataOf, With
<1> HIDE DEF data
<1>2. "Count" \in DOMAIN branded /\ branded["Count"] = req.data["Count"]
  BY <1>1 DEF With
<1>3. prepared = branded \/ prepared = With(branded, "PreviewText", template.preview)
  BY DEF PreparedData
<1> HIDE DEF branded, prepared
<1>4. "Count" \in DOMAIN prepared /\ prepared["Count"] = req.data["Count"]
  BY <1>2, <1>3 DEF With
<1> QED BY <1>4 DEF prepared, data

\* Whole counts can be read back from the texts of an email.
THEOREM CountsHold == MessageSpec => []CountReadsBack
<1>1. MessageInit => TextsRendered
  BY DEF MessageInit, TextsRendered
<1>2. ASSUME req \in Inputs, TextsRendered PROVE CountReadsBack
  <2> SUFFICES ASSUME email # Nothing, req.template # NoTemplate, "Count" \in DOMAIN req.data,
                      NEW text \in Texts(email.text), "num Count" \in DOMAIN text,
                      req.data["Count"].is = "whole"
               PROVE  ShownRight(req.data["Count"].n, text["num Count"])
    BY DEF CountReadsBack
  <2> DEFINE template == Templates[req.template]
             branding == IF req.branding = NoBranding THEN DefaultBranding
                         ELSE MergeWithDefaults(req.branding)
             prepared == PreparedData(template, DataOf(req.data, req.template), branding)
  <2>1. PICK uses \in {template.subject, template.body, template.htmlBody} :
          text = RenderString(uses, prepared)
    <3>1. email.text = RenderWithBranding(template, DataOf(req.data, req.template), req.branding)
      BY <1>2 DEF TextsRendered
    <3>2. RenderWithBranding(template, DataOf(req.data, req.template), req.branding)
            = [subject  |-> RenderString(template.subject, prepared),
               body     |-> RenderString(template.body, prepared),
               htmlBody |-> RenderString(template.htmlBody, prepared)]
      BY DEF RenderWithBranding
    <3>3. PICK part \in {"subject", "body", "htmlBody"} : text = email.text[part]
      BY DEF Texts
    <3> HIDE DEF prepared, template
    <3>4. \/ text = RenderString(template.subject, prepared)
          \/ text = RenderString(template.body, prepared)
          \/ text = RenderString(template.htmlBody, prepared)
      <4> DEFINE texts == [subject  |-> RenderString(template.subject, prepared),
                           body     |-> RenderString(template.body, prepared),
                           htmlBody |-> RenderString(template.htmlBody, prepared)]
      <4>1. text = texts[part]
        BY <3>1, <3>2, <3>3, Zenon
      <4>2. /\ texts["subject"] = RenderString(template.subject, prepared)
            /\ texts["body"] = RenderString(template.body, prepared)
            /\ texts["htmlBody"] = RenderString(template.htmlBody, prepared)
        OBVIOUS
      <4> HIDE DEF texts
      <4> QED BY <3>3, <4>1, <4>2
    <3> QED BY <3>4
  <2>2. text["num Count"] = Shown("num Count", prepared)
    <3> HIDE DEF template, prepared
    <3> QED BY <2>1 DEF RenderString
  <2>3. "Count" \in DOMAIN prepared /\ prepared["Count"] = req.data["Count"]
    <3> HIDE DEF template, branding
    <3> QED BY CountIsShown
  <2>4. Shown("num Count", prepared) = FormatCount(req.data["Count"])
    <3> HIDE DEF prepared
    <3> QED BY <2>3 DEF Shown
  <2>5. req.data["Count"].n \in Int
    BY <1>2, DataAssumption
  <2> HIDE DEF prepared
  <2> QED BY <2>2, <2>4, <2>5, CountShown
<1>3. MessageInit => req \in Inputs
  BY DEF MessageInit
<1>4. req \in Inputs /\ [MessageNext]_messageVars => (req \in Inputs)'
  BY RequestStays
<1> QED BY <1>1, <1>2, <1>3, <1>4, TextsInductive, PTL DEF MessageSpec
=============================================================================
