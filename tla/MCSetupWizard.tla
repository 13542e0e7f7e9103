----------------------------- MODULE MCSetupWizard -----------------------------
(* Values for the constants of SetupWizard.                                    *)
EXTENDS SetupWizard, TLC

CONSTANTS a, b

(* A form that fills in the settings of ss with v.  *)
Filled(ss, v) == [s \in Settings |-> IF s \in ss THEN v ELSE Blank]

MCForms ==
  [p \in Pages |->
     CASE p = "server-url" -> {Filled({"url"}, a)}
       [] p = "zoom"       -> {Filled({"webhook_secret", "account_id"}, a),
                               Filled({"webhook_secret", "account_id", "client"}, b)}
       [] p = "slack"      -> {Filled({"slack"}, a), Filled({}, a)}
       [] p = "advanced"   -> {Filled({"path"}, b), Filled({"path", "api_key"}, b)}
       [] p = "secret"     -> {Filled({"webhook_secret"}, b), Filled({}, b)}]

(* Nothing exported; everything there is a variable for, but for the key.  *)
MCEnvironments ==
  {Filled({}, a), Filled({"webhook_secret", "account_id", "slack", "api_key"}, a)}

(* No file; one with a key and without Slack.  *)
MCHandWritten ==
  {NoLines,
   [s \in Settings |-> IF s \in {"encryption_key", "webhook_secret", "account_id", "api_key"}
                       THEN a ELSE Absent]}

MCSymmetry == Permutations(Requests)
=============================================================================
