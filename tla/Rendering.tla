------------------------------ MODULE Rendering ------------------------------
(* TemplateService: from a template, the data of a request and a branding to   *)
(* the texts of an email.  A text is what each variable the template uses is   *)
(* shown as, so the empty function is the empty text; "Text" stands for the    *)
(* words between the variables.  A value is the sequence of its characters.    *)
EXTENDS Integers, Sequences, FiniteSets, SequencesExt, TLC

CONSTANTS
  Width,      \* bits of an int64
  Files       \* the YAML files of the template directory, in Glob's order

ASSUME WidthAssumption == Width \in Nat \ {0, 1}

EmptyText == <<>>
NoBranding == <<>>

\* loadFromDirectory: a name that is in several files is the last one's.
Templates == FoldLeft(LAMBDA loaded, file : file @@ loaded, <<>>, Files)

-----------------------------------------------------------------------------
(* formatCount *)

DigitNames == <<"0", "1", "2", "3", "4", "5", "6", "7", "8", "9">>
Smallest == -(2 ^ (Width - 1))

\* -n as an int64: the smallest one has no counterpart.
Negated(n) == IF n = Smallest THEN n ELSE -n

DigitsOf[n \in Nat] ==
  IF n < 10 THEN <<DigitNames[n + 1]>>
  ELSE Append(DigitsOf[n \div 10], DigitNames[(n % 10) + 1])

\* strconv.FormatInt
FormatInt(n) == IF n < 0 THEN <<"-">> \o DigitsOf[-n] ELSE DigitsOf[n]

\* Mutant: groups are counted from the left.
GroupedFromLeft(digits) ==
  FlattenSeq([i \in DOMAIN digits |->
    IF i > 1 /\ (i - 1) % 3 = 0 THEN <<",", digits[i]>> ELSE <<digits[i]>>])

\* A comma before every digit but the first that has a multiple of three
\* digits from it to the end.
Grouped(digits) ==
  FlattenSeq([i \in DOMAIN digits |->
    IF i > 1 /\ (Len(digits) - (i - 1)) % 3 = 0 THEN <<",", digits[i]>>
    ELSE <<digits[i]>>])

\* What a template's num prints: nothing for nil, a whole number grouped, and
\* a fraction or a text as it is.
FormatCount(value) ==
  CASE value.is = "whole" ->
         LET n == value.n
         IN  IF n < 0 THEN <<"-">> \o Grouped(FormatInt(Negated(n)))
             ELSE Grouped(FormatInt(n))
    [] value.is = "nil" -> EmptyText
    [] OTHER -> <<value.is>>

Nil == [is |-> "nil"]

-----------------------------------------------------------------------------
(* Branding *)

HexDigits == {"0", "1", "2", "3", "4", "5", "6", "7", "8", "9",
              "a", "b", "c", "d", "e", "f", "A", "B", "C", "D", "E", "F"}

\* len() of a Go string counts bytes; of the characters here only the last has
\* more than one.
TwoBytes == {"e acute"}
ByteLen(s) == Len(s) + Cardinality({i \in DOMAIN s : s[i] \in TwoBytes})

\* Mutant: only the length and the number sign are looked at.
LooksLikeHexColor(color) == ByteLen(color) = 7 /\ color[1] = "#"

IsValidHexColor(color) ==
  /\ ByteLen(color) = 7
  /\ color[1] = "#"
  /\ \A i \in 2..Len(color) : color[i] \in HexDigits

Colors == {"PrimaryColor", "SecondaryColor", "AccentColor", "DangerColor"}

\* The address of the dashboard stands for all fields that are only copied.
DefaultBranding ==
  [PrimaryColor   |-> <<"#", "1", "0", "b", "9", "8", "1">>,
   SecondaryColor |-> <<"#", "0", "5", "9", "6", "6", "9">>,
   AccentColor    |-> <<"#", "0", "4", "7", "8", "5", "7">>,
   DangerColor    |-> <<"#", "e", "f", "4", "4", "4", "4">>,
   CompanyName    |-> <<"W", "A", "S", "B", "O", "T">>,
   LogoURL        |-> <<"wasbot-icon">>,
   DashboardURL   |-> <<"wasbot-dashboard">>]

BrandingFields == DOMAIN DefaultBranding

\* Empty fields are filled, on a copy of the caller's branding.
MergeWithDefaults(branding) ==
  [field \in BrandingFields |->
    IF branding[field] = <<>> THEN DefaultBranding[field] ELSE branding[field]]

\* The logo as an image, or as the first letter of the company.
LogoContent(branding) ==
  IF branding.LogoURL # <<>>
  THEN [img |-> branding.LogoURL, alt |-> branding.CompanyName]
  ELSE [letter |-> IF branding.CompanyName = <<>> THEN "W" ELSE branding.CompanyName[1]]

PrepareBrandingData(branding) ==
  [field \in BrandingFields \union {"LogoContent"} |->
    IF field = "LogoContent" THEN LogoContent(branding)
    ELSE IF field \in Colors /\ ~IsValidHexColor(branding[field])
         THEN DefaultBranding[field] ELSE branding[field]]

-----------------------------------------------------------------------------
(* RenderWithBranding *)

\* text/template shows a variable that is nil or missing from a
\* map[string]interface{} like this, whatever missingkey says; num gets nil.
NoValue == <<"<no value>">>

\* Count stands for the variables that a template shows through num.  A text is
\* made of characters, so that it is never NoValue.
ASSUME TemplateAssumption ==
  \A name \in DOMAIN Templates :
    LET template == Templates[name]
    IN  /\ "Count" \notin template.subject \union template.body \union template.htmlBody
        /\ template.preview # NoValue

Shown(variable, data) ==
  CASE variable = "Text" -> <<"text">>
    [] variable = "num Count" ->
         FormatCount(IF "Count" \in DOMAIN data THEN data["Count"] ELSE Nil)
    [] OTHER -> IF variable \in DOMAIN data THEN data[variable] ELSE NoValue

RenderString(uses, data) == [variable \in uses |-> Shown(variable, data)]

With(data, key, value) ==
  [k \in DOMAIN data \union {key} |-> IF k = key THEN value ELSE data[k]]

\* The copy of the caller's data that the template sees.
PreparedData(template, data, branding) ==
  LET branded == With(data, "Branding", PrepareBrandingData(branding))
  IN  IF "PreviewText" \notin DOMAIN data /\ template.preview # EmptyText
      THEN With(branded, "PreviewText", template.preview)
      ELSE branded

RenderWithBranding(template, data, branding) ==
  LET prepared == PreparedData(template, data,
        IF branding = NoBranding THEN DefaultBranding ELSE MergeWithDefaults(branding))
  IN  [subject  |-> RenderString(template.subject, prepared),
       body     |-> RenderString(template.body, prepared),
       htmlBody |-> RenderString(template.htmlBody, prepared)]
=============================================================================
