---------------------------- MODULE Configuration ----------------------------
(* config.Load and the choice of a provider in main, as far as it decides how  *)
(* an email is sent.  An environment maps the variables that are set to their  *)
(* values.                                                                     *)

GetEnv(env, key, default) ==
  IF key \in DOMAIN env /\ env[key] # "" THEN env[key] ELSE default

\* Mutant: the provider's own variable goes first.
FallbackFirst(env, primary, fallback, default) ==
  GetEnv(env, fallback, GetEnv(env, primary, default))

GetEnvWithFallback(env, primary, fallback, default) ==
  GetEnv(env, primary, GetEnv(env, fallback, default))

\* The provider is SMTP unless it is said to be Resend; a server with Resend
\* and no key for it stops.
Resend(env) == GetEnv(env, "EMAIL_PROVIDER", "smtp") = "resend"
Starts(env) == Resend(env) => GetEnv(env, "RESEND_API_KEY", "") # ""

LoadSMTP(env) ==
  [provider |-> "smtp",
   port465  |-> GetEnv(env, "SMTP_PORT", "1025") = "465",
   login    |-> /\ GetEnv(env, "SMTP_USERNAME", "") # ""
                /\ GetEnv(env, "SMTP_PASSWORD", "") # "",
   from     |-> GetEnvWithFallback(env, "FROM_EMAIL", "SMTP_FROM_ADDRESS", "noreply@localhost"),
   fromName |-> GetEnvWithFallback(env, "FROM_NAME", "SMTP_FROM_NAME", "Email Service"),
   replyTo  |-> ""]

LoadResend(env) ==
  [provider |-> "resend", port465 |-> FALSE, login |-> FALSE,
   from     |-> GetEnvWithFallback(env, "FROM_EMAIL", "RESEND_FROM_ADDRESS", ""),
   fromName |-> GetEnvWithFallback(env, "FROM_NAME", "RESEND_FROM_NAME", ""),
   replyTo  |-> GetEnv(env, "REPLY_TO_ADDRESS", "")]

Load(env) == IF Resend(env) THEN LoadResend(env) ELSE LoadSMTP(env)
=============================================================================
