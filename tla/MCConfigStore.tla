---------------------------- MODULE MCConfigStore ----------------------------
(***************************************************************************)
(* Values for ConfigStore's constants: a good configuration, and variants  *)
(* of it at both sides of every limit.                                     *)
(***************************************************************************)
EXTENDS ConfigStore, TLC

CONSTANT IllTyped  \* a JSON value of another type

Credentials == ("pat_token" :> "p") @@ ("client_id" :> "c")
Good == Credentials @@ Default

With(c, f, v) == (f :> v) @@ c

MCConfig ==
  {Good, With(Good, "port", 1), With(Good, "discriminator", 4095),
   With(Good, "discriminator", 4096), With(Good, "setup_passcode", 99999999),
   With(Good, "setup_passcode", 100000000), With(Good, "poll_interval_sec", 0),
   With(Good, "client_id", "")}

MCText ==
  {Credentials, "pat_token" :> "p", With(Credentials, "country", "XX"),
   With(Credentials, "country", "KR"), With(Credentials, "port", 65536),
   With(Credentials, "port", 0), With(Credentials, "setup_passcode", 9999999),
   With(Credentials, "poll_interval_sec", IllTyped), With(Credentials, "comment", "c")}
=============================================================================
