----------------------------- MODULE ConfigStore -----------------------------
(***************************************************************************)
(* The configuration file (src/config/config.cpp), a process that saves    *)
(* it, and the start of the program that loads it.                         *)
(*                                                                         *)
(* Config::save opens the file, which empties it, and writes afterwards:   *)
(* in between the process may be killed, the serialization may fail or the *)
(* program may load.  What cannot be parsed (nothing, or a part of the     *)
(* text) is one kind of file, "broken".  A text is a function from the     *)
(* keys it has to their values: a user may leave keys out or add others.   *)
(***************************************************************************)
EXTENDS Integers

CONSTANTS
  Config,     \* the configurations save is called on
  Text,       \* the texts a user writes
  Int32Max,   \* 2^31 - 1
  UInt32Max   \* 2^32 - 1

CountryCode == {"US", "KR", "EU", "GB", "CA", "AU", "JP"}
UInt16 == 0 .. 65535

\* The keys of the file, and what glaze reads into each.
FieldType ==
  [pat_token |-> STRING, client_id |-> STRING, country |-> STRING,
   poll_interval_sec |-> -Int32Max - 1 .. Int32Max, bridge_name |-> STRING,
   vendor_id |-> UInt16, product_id |-> UInt16, discriminator |-> UInt16,
   setup_passcode |-> 0 .. UInt32Max, port |-> UInt16]

Field == DOMAIN FieldType
Typed(c) == c = [f \in Field |-> c[f]] /\ \A f \in Field : c[f] \in FieldType[f]

\* What ConfigFile holds for a key the text does not have.
Default ==
  [pat_token |-> "", client_id |-> "", country |-> "US", poll_interval_sec |-> 5,
   bridge_name |-> "ThinQ Bridge", vendor_id |-> 65521, product_id |-> 32769,
   discriminator |-> 3840, setup_passcode |-> 20202021, port |-> 5540]

ASSUME ConfigAssumption ==
  /\ Int32Max \in Nat /\ UInt32Max \in Nat
  /\ Typed(Default)
  /\ \A c \in Config : Typed(c) /\ c.country \in CountryCode

VARIABLES
  file,     \* "absent", "broken", or a text
  saver,    \* the Config::save in progress
  saved,    \* the last call of save: its configuration, how it ended, and
            \* whether the disk was full
  program,  \* how far the program has come
  config,   \* what the program loaded
  latest    \* the last text the file held as a whole

vars == <<file, saver, saved, program, config, latest>>

Absent == [kind |-> "absent"]
Broken == [kind |-> "broken"]
Holds(text) == [kind |-> "text", text |-> text]

NoConfig == [none |-> TRUE]
Idle == [stage |-> "idle", config |-> NoConfig]
Unsaved == [config |-> NoConfig, outcome |-> "none", full |-> FALSE]

Init ==
  /\ file = Absent
  /\ saver = Idle
  /\ saved = Unsaved
  /\ program = "down"
  /\ config = NoConfig
  /\ latest = <<>>
-----------------------------------------------------------------------------
\* The limits that Config::is_valid sets to the numbers.
InRange(c) ==
  /\ c.poll_interval_sec > 0
  /\ c.discriminator <= 4095
  /\ c.port > 0
  /\ c.setup_passcode \in 10000000 .. 99999999
-----------------------------------------------------------------------------
(***************************************************************************)
(* Mutated definitions.                                                    *)
(***************************************************************************)
\* ConfigTypeOK: any two letters are taken for a country.
AnyCountry(text) == TRUE

\* SaveThenLoad: save forgets one key.
ToTextWithoutPort(c) == [f \in Field \ {"port"} |-> c[f]]

\* CredentialsAccepted: is_valid does not look at the client id.
IsValidWithoutClient(c) == c.pat_token # "" /\ c.bridge_name # "" /\ InRange(c)

\* LoadsLatestText: the file is opened without being emptied, and the ThinQ part
\* is written before the Matter part.
OpenInPlace(c) ==
  /\ saver = Idle
  /\ saver' = [stage |-> "opened", config |-> c]
  /\ saved' = Unsaved
  /\ file' = IF file.kind # "text" THEN Broken
             ELSE Holds([f \in Field |-> IF f \in {"pat_token", "client_id", "country"}
                                              \/ f \notin DOMAIN file.text
                                           THEN c[f] ELSE file.text[f]])
  /\ UNCHANGED <<program, config, latest>>

\* UnreadableExplained: load opens the file in a mode that creates it.
RefuseAndCreate ==
  /\ program' = "refused"
  /\ file' = IF file = Absent THEN Broken ELSE file
  /\ UNCHANGED config
-----------------------------------------------------------------------------
(***************************************************************************)
(* What is read from a file and written to it.                             *)
(***************************************************************************)
\* glz::read_json refuses unknown keys and values of the wrong type or width.
Parses(text) == DOMAIN text \subseteq Field /\ \A f \in DOMAIN text : text[f] \in FieldType[f]

Filled(text) == [f \in Field |-> IF f \in DOMAIN text THEN text[f] ELSE Default[f]]

CountryKnown(text) == Filled(text).country \in CountryCode

\* Config::is_valid.
IsValid(c) ==
  c.pat_token # "" /\ c.client_id # "" /\ c.bridge_name # "" /\ InRange(c)

Loads(f) ==
  /\ f.kind = "text"
  /\ Parses(f.text)
  /\ CountryKnown(f.text)
  /\ IsValid(Filled(f.text))

ToText(c) == [f \in Field |-> c[f]]

\* Auth::is_valid, which the constructor of ApiClient insists on.
AuthIsValid(c) == c.pat_token # "" /\ c.client_id # ""
-----------------------------------------------------------------------------
(***************************************************************************)
(* The file and those who write it.                                        *)
(***************************************************************************)
\* An editor replaces the file, while no save is under way.
UserWrites(text) ==
  /\ saver = Idle
  /\ file' = Holds(text)
  /\ latest' = text
  /\ saved' = Unsaved
  /\ UNCHANGED <<saver, program, config>>

\* std::ofstream file(path): the file is emptied, or cannot be opened.
SaveOpen(c) ==
  /\ saver = Idle
  /\ saver' = [stage |-> "opened", config |-> c]
  /\ saved' = Unsaved
  /\ file' = Broken
  /\ UNCHANGED <<program, config, latest>>

SaveCannotOpen(c) ==
  /\ saver = Idle
  /\ saved' = [config |-> c, outcome |-> "ConfigError", full |-> FALSE]
  /\ UNCHANGED <<file, saver, program, config, latest>>

\* The save in progress ends, and leaves the file as f.
SaveEnds(outcome, full, f) ==
  /\ saver.stage = "opened"
  /\ saver' = Idle
  /\ saved' = [config |-> saver.config, outcome |-> outcome, full |-> full]
  /\ file' = f
  /\ UNCHANGED <<program, config>>

SaveWrite ==
  /\ SaveEnds("Success", FALSE, Holds(ToText(saver.config)))
  /\ latest' = ToText(saver.config)

\* The stream is not asked whether the text arrived on the disk.
SaveToFullDisk == SaveEnds("Success", TRUE, Broken) /\ UNCHANGED latest

SaveCannotSerialize == SaveEnds("ConfigError", FALSE, file) /\ UNCHANGED latest

SaverKilled == SaveEnds("killed", FALSE, file) /\ UNCHANGED latest

save(c) == SaveOpen(c) \/ SaveCannotOpen(c)

SaveGoesOn == SaveWrite \/ SaveToFullDisk \/ SaveCannotSerialize \/ SaverKilled
-----------------------------------------------------------------------------
(***************************************************************************)
(* The start of the program.                                               *)
(***************************************************************************)
Accept == program' = "loaded" /\ config' = Filled(file.text) /\ UNCHANGED file
Refuse == program' = "refused" /\ UNCHANGED <<file, config>>

\* A file that would load may still not open.
load ==
  /\ program = "down"
  /\ \/ Loads(file) /\ Accept
     \/ Refuse
  /\ UNCHANGED <<saver, saved, latest>>

\* ApiClient's constructor: curl may not be available, the credentials be refused.
CreateClient ==
  /\ program = "loaded"
  /\ \/ program' = "no_curl"
     \/ program' = IF AuthIsValid(config) THEN "running" ELSE "bad_credentials"
  /\ UNCHANGED <<file, saver, saved, config, latest>>

\* The program ended, or is killed, and is started anew.
Restart ==
  /\ program # "down"
  /\ program' = "down"
  /\ config' = NoConfig
  /\ UNCHANGED <<file, saver, saved, latest>>
-----------------------------------------------------------------------------
Next ==
  \/ \E text \in Text : UserWrites(text)
  \/ \E c \in Config : save(c)
  \/ SaveGoesOn
  \/ load
  \/ CreateClient
  \/ Restart

Spec == Init /\ [][Next]_vars
-----------------------------------------------------------------------------
(***************************************************************************)
(* Properties.                                                             *)
(***************************************************************************)
Program == {"down", "refused", "loaded", "no_curl", "running", "bad_credentials"}
Outcome == {"none", "Success", "ConfigError", "killed"}
Loaded == program \in {"loaded", "no_curl", "running", "bad_credentials"}

\* The type of every variable of the configuration store.
ConfigTypeOK ==
  /\ file \in {Absent, Broken} \/ (file.kind = "text" /\ file = Holds(file.text))
  /\ saver.stage \in {"idle", "opened"}
  /\ saver.config \in Config \cup {NoConfig}
  /\ saver.stage = "opened" => saver.config \in Config
  /\ saved.outcome \in Outcome
  /\ saved.full \in BOOLEAN
  /\ saved.config \in Config \cup {NoConfig}
  /\ program \in Program
  /\ Loaded => Typed(config) /\ config.country \in CountryCode

\* A load that succeeds returns the last text that was written as a whole, whatever
\* save is under way or was killed: not a mixture, nor a part, nor an older text.
LoadsLatestText ==
  [][program = "down" /\ program' = "loaded" => config' = Filled(latest)]_vars

\* What save reported as written is what the next load returns, key by key, unless
\* the disk was full or the saved configuration was invalid (save does not ask).
SaveThenLoad ==
  saved.outcome = "Success" /\ ~saved.full /\ IsValid(saved.config) =>
    Loads(file) /\ Filled(file.text) = saved.config

\* An unreadable file is the work of a save that is under way, was killed, could
\* not serialize, or found the disk full: nothing else loses a configuration.
UnreadableExplained ==
  file = Broken =>
    saver # Idle \/ saved.full \/ saved.outcome \in {"killed", "ConfigError"}

\* A configuration that loads has credentials ApiClient accepts, so that its
\* constructor throws (and ends the program, as main does not catch) for want of
\* curl only.
CredentialsAccepted == program # "bad_credentials"
=============================================================================
