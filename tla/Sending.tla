------------------------------- MODULE Sending -------------------------------
(* What EmailPipeline takes one call of sender.Send to be: the provider takes  *)
(* the message at most once, success is returned only after it has, and an     *)
(* error may be returned in any case, before or after the message is taken.    *)
EXTENDS Naturals

VARIABLES
  messages,   \* how many messages the provider took
  answer      \* what the call returned

sendVars == <<messages, answer>>

SendInit == messages = 0 /\ answer = "none"

Take == answer # "ok" /\ messages = 0 /\ messages' = 1 /\ UNCHANGED answer
Succeed == answer = "none" /\ messages = 1 /\ answer' = "ok" /\ UNCHANGED messages
Fail == answer = "none" /\ answer' = "error" /\ UNCHANGED messages

SendSpec == SendInit /\ [][Take \/ Succeed \/ Fail]_sendVars
=============================================================================
