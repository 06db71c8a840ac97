------------------------------ MODULE MCMessage ------------------------------
(* Requests for TLC, in families that each vary what plays together: what a    *)
(* template is rendered from, and what surrounds the texts.                    *)
EXTENDS MessageProps

Plain(uses) == [variable \in uses |-> <<"text">>]
NoText == Plain({})
Content(subject, body, htmlBody) ==
  [subject |-> Plain(subject), body |-> Plain(body), htmlBody |-> Plain(htmlBody)]

\* The later file has the marketing template again.
Marketing ==
  [subject |-> {"Text", "num Count"}, body |-> {"PreviewText", "UnsubscribeURL"},
   htmlBody |-> {"Branding", "num Count", "Name"}, preview |-> <<"preview">>]
PasswordReset ==
  [subject |-> {"Name"}, body |-> {"PreviewText"}, htmlBody |-> {"UnsubscribeURL", "Branding"},
   preview |-> EmptyText]
MCFiles ==
  << [marketing |-> [Marketing EXCEPT !.subject = {}]],
     [password_reset |-> PasswordReset, marketing |-> Marketing] >>

\* Where the number of digits changes, and the two ends of the integers.
Whole(n) == [is |-> "whole", n |-> n]
Counts ==
  {Whole(s * n) : s \in {-1, 1}, n \in {0, 1, 9, 10, 99, 100, 999, 1000, 12345, 999999, 1000000}}
    \union {Whole(Smallest), Whole(Smallest + 1), Whole(-(Smallest + 1)), [is |-> "1.5"]}

DataChoices ==
  {<<>>} \union {[Count |-> c, Name |-> <<"A">>] : c \in Counts}
    \union {[Name |-> <<>>], [Name |-> <<"A">>, UnsubscribeURL |-> <<"theirs">>, Branding |-> <<"theirs">>],
            [PreviewText |-> <<"theirs">>, Count |-> Nil]}

\* A colour that is empty, valid, of a wrong character, too long, without the
\* sign, or of seven bytes with a letter of two.
ColorChoices ==
  { <<>>, <<"#", "0", "9", "a", "f", "A", "F">>, <<"#", "0", "9", "a", "f", "g", "0">>,
    <<"#", "0", "9", "a", "f", "A", "F", "0">>, <<"0", "0", "9", "a", "f", "A", "F">>,
    <<"#", "0", "0", "0", "0", "e acute">> }
BrandingChoices ==
  {NoBranding} \union
  {[field \in BrandingFields |->
      IF field = "PrimaryColor" THEN color ELSE IF field = "CompanyName" THEN <<"A">> ELSE <<>>]
    : color \in ColorChoices}

HeaderChoices ==
  {<<>>, ("Reply-To" :> "caller"), ("Reply-To" :> ""), ("Bcc" :> "x"),
   ("Reply-To" :> "caller") @@ ("X-Mailer" :> "m"), ("List-Unsubscribe" :> "theirs")}
\* None, an address, an address with a name, and no mailbox at all.
Senders == {NoSender, <<"caller">>, Named("N", <<"caller">>), <<"<", "caller">>}

Request ==
  [template |-> "marketing", data |-> <<>>, branding |-> NoBranding,
   content |-> Content({}, {}, {}), headers |-> <<>>, from |-> NoSender]

MCInputs ==
  {[Request EXCEPT !.template = t, !.data = d] : t \in {"marketing", "password_reset", "gone"}, d \in DataChoices}
    \union {[Request EXCEPT !.branding = b, !.data = d] :
              b \in BrandingChoices, d \in {<<>>, [Branding |-> <<"theirs">>]}}
    \union {[Request EXCEPT !.template = t, !.headers = h, !.from = f, !.content = Content({"Text"}, {"Text"}, {})] :
              t \in {"", "marketing", "password_reset"}, h \in HeaderChoices, f \in Senders}
    \union {[Request EXCEPT !.template = "", !.content = Content(s, b, w)] :
              s \in {{}, {"Text"}}, b \in {{}, {"Text"}}, w \in {{}, {"Text"}}}

\* Every way to name the sender, for either provider; port 465 goes with a login.
Set(key, values) == {(key :> v) : v \in values} \union {<<>>}
MCEnvironments ==
  {a @@ b @@ c : a \in Set("FROM_EMAIL", {"", "everyone"}),
                 b \in Set("SMTP_FROM_ADDRESS", {"smtp"}),
                 c \in {<<>>, [SMTP_PORT |-> "465", SMTP_USERNAME |-> "u", SMTP_PASSWORD |-> "p"],
                       [SMTP_PORT |-> "587", SMTP_USERNAME |-> "u", FROM_NAME |-> "Us"]}}
    \union
  {[EMAIL_PROVIDER |-> "resend"] @@ a @@ b @@ c @@ d @@ e :
     a \in Set("FROM_EMAIL", {"everyone"}), b \in Set("RESEND_FROM_ADDRESS", {"resend"}),
     c \in Set("RESEND_FROM_NAME", {"Us"}), d \in Set("REPLY_TO_ADDRESS", {"default"}),
     e \in Set("RESEND_API_KEY", {"key"})}
=============================================================================
