------------------------- MODULE ConfigStoreProofs -------------------------
(***************************************************************************)
(* Theorems about ConfigStore, for every configuration that is saved,      *)
(* every text a user writes, and any number of saves, crashes and starts.  *)
(***************************************************************************)
EXTENDS ConfigStore, TLAPS

USE ConfigAssumption

\* The three kinds of file differ.
LEMMA KindsDiffer ==
  /\ Broken # Absent
  /\ \A t : Holds(t).kind = "text" /\ Holds(t).text = t /\ Holds(t) # Broken
  /\ Absent.kind # "text" /\ Broken.kind # "text"
  BY DEF Broken, Absent, Holds

\* A configuration has every key, so that the text made of it is the configuration.
LEMMA ToTextIsIdentity ==
  ASSUME NEW c \in Config
  PROVE  ToText(c) = c /\ Filled(ToText(c)) = c /\ Parses(ToText(c))
<1>1. c = [f \in Field |-> c[f]] /\ \A f \in Field : c[f] \in FieldType[f]
  BY DEF Typed
<1>2. ToText(c) = c /\ DOMAIN c = Field
  BY <1>1 DEF ToText
<1>3. Filled(c) = [f \in Field |-> c[f]]
  BY <1>2 DEF Filled
<1> QED
  BY <1>1, <1>2, <1>3 DEF Parses

\* A valid configuration that save wrote is what load makes of the file.
THEOREM RoundTrip ==
  ASSUME NEW c \in Config, IsValid(c)
  PROVE  Loads(Holds(ToText(c))) /\ Filled(ToText(c)) = c
<1>1. Filled(ToText(c)) = c /\ Parses(ToText(c))
  BY ToTextIsIdentity
<1>2. CountryKnown(ToText(c))
  BY <1>1 DEF CountryKnown
<1> QED
  BY <1>1, <1>2, KindsDiffer DEF Loads

\* What is loaded has every key, each of the key's type.
LEMMA FilledTyped ==
  ASSUME NEW text, Parses(text)
  PROVE  Typed(Filled(text))
<1>1. \A f \in Field : Filled(text)[f] \in FieldType[f]
  BY DEF Filled, Parses, Typed
<1>2. Filled(text) = [f \in Field |-> Filled(text)[f]]
  BY DEF Filled
<1> QED
  BY <1>1, <1>2 DEF Typed
-----------------------------------------------------------------------------
\* A whole text in the file is the latest.
FileInv == file.kind = "text" => file = Holds(latest)

\* What a save under way is to write, and what a successful one has written.
SaveInv ==
  /\ saver = Idle \/ (saver.stage = "opened" /\ saver.config \in Config)
  /\ saver # Idle => saved = Unsaved
  /\ saved.outcome = "Success" /\ ~saved.full =>
       saved.config \in Config /\ file = Holds(ToText(saved.config))
  /\ file = Broken =>
       saver # Idle \/ saved.full \/ saved.outcome \in {"killed", "ConfigError"}

\* What a running program has loaded.
LoadInv ==
  Loaded => IsValid(config) /\ Typed(config) /\ config.country \in CountryCode

StoreInv == FileInv /\ SaveInv /\ LoadInv /\ program # "bad_credentials"

\* The invariant holds initially.
LEMMA InitStore == Init => StoreInv
  BY KindsDiffer DEF Init, StoreInv, FileInv, SaveInv, LoadInv, Loaded, Unsaved

\* No step writes a text that is not the latest.
LEMMA NextFile ==
  ASSUME FileInv, [Next]_vars
  PROVE  FileInv'
<1>1. CASE \E text \in Text : UserWrites(text)
  BY <1>1 DEF FileInv, UserWrites
<1>2. CASE \E c \in Config : save(c)
  BY <1>2, KindsDiffer DEF FileInv, save, SaveOpen, SaveCannotOpen
<1>3. CASE SaveWrite
  BY <1>3 DEF FileInv, SaveWrite, SaveEnds
<1>4. CASE SaveToFullDisk
  BY <1>4, KindsDiffer DEF FileInv, SaveToFullDisk, SaveEnds
<1>5. CASE SaveCannotSerialize \/ SaverKilled
  BY <1>5 DEF FileInv, SaveCannotSerialize, SaverKilled, SaveEnds
<1>6. CASE load \/ CreateClient \/ Restart \/ UNCHANGED vars
  BY <1>6 DEF FileInv, load, Accept, Refuse, CreateClient, Restart, vars
<1> QED
  BY <1>1, <1>2, <1>3, <1>4, <1>5, <1>6 DEF Next, SaveGoesOn

\* Every step of a save keeps what its result says of the file.
LEMMA NextSave ==
  ASSUME SaveInv, [Next]_vars
  PROVE  SaveInv'
<1>1. CASE \E text \in Text : UserWrites(text)
  BY <1>1, KindsDiffer DEF SaveInv, UserWrites, Unsaved
<1>2. CASE \E c \in Config : SaveOpen(c)
  BY <1>2 DEF SaveInv, SaveOpen, Unsaved, Idle
<1>3. CASE \E c \in Config : SaveCannotOpen(c)
  BY <1>3 DEF SaveInv, SaveCannotOpen
<1>4. CASE SaveWrite
  BY <1>4, KindsDiffer DEF SaveInv, SaveWrite, SaveEnds, Idle
<1>5. CASE SaveToFullDisk
  BY <1>5 DEF SaveInv, SaveToFullDisk, SaveEnds, Idle
<1>6. CASE SaveCannotSerialize \/ SaverKilled
  BY <1>6 DEF SaveInv, SaveCannotSerialize, SaverKilled, SaveEnds, Idle
<1>7. CASE load \/ CreateClient \/ Restart \/ UNCHANGED vars
  <2>1. UNCHANGED <<file, saver, saved>>
    BY <1>7 DEF load, Accept, Refuse, CreateClient, Restart, vars
  <2> QED
    BY <2>1 DEF SaveInv
<1> QED
  BY <1>1, <1>2, <1>3, <1>4, <1>5, <1>6, <1>7 DEF Next, SaveGoesOn, save

\* The program runs with a configuration it validated.
LEMMA NextLoad ==
  ASSUME LoadInv, program # "bad_credentials", [Next]_vars
  PROVE  LoadInv' /\ program' # "bad_credentials"
<1>1. CASE load
  <2>1. CASE Loads(file) /\ Accept
    <3>1. program' = "loaded" /\ config' = Filled(file.text)
      BY <2>1 DEF Accept
    <3>2. Typed(Filled(file.text))
      BY <2>1, FilledTyped DEF Loads
    <3> QED
      BY <2>1, <3>1, <3>2 DEF LoadInv, Loaded, Loads, CountryKnown
  <2>2. CASE Refuse
    BY <2>2 DEF Refuse, LoadInv, Loaded
  <2> QED
    BY <1>1, <2>1, <2>2 DEF load
<1>2. CASE CreateClient
  <2>1. config' = config /\ IsValid(config) /\ program = "loaded"
    BY <1>2 DEF CreateClient, LoadInv, Loaded
  <2>2. program' \in {"no_curl", "running"}
    BY <1>2, <2>1 DEF CreateClient, AuthIsValid, IsValid
  <2> QED
    BY <2>1, <2>2 DEF LoadInv, Loaded
<1>3. CASE Restart
  BY <1>3 DEF Restart, LoadInv, Loaded
<1>4. CASE UNCHANGED <<program, config>>
  BY <1>4 DEF LoadInv, Loaded
<1>5. [Next]_vars => load \/ CreateClient \/ Restart \/ UNCHANGED <<program, config>>
  BY DEF Next, vars, UserWrites, save, SaveOpen, SaveCannotOpen, SaveGoesOn, SaveWrite,
         SaveToFullDisk, SaveCannotSerialize, SaverKilled, SaveEnds
<1> QED
  BY <1>1, <1>2, <1>3, <1>4, <1>5

\* The invariant of the store.
THEOREM StoreHolds == Spec => []StoreInv
<1>1. StoreInv /\ [Next]_vars => StoreInv'
  BY NextFile, NextSave, NextLoad DEF StoreInv
<1> QED
  BY <1>1, InitStore, PTL DEF Spec
-----------------------------------------------------------------------------
\* The variables that SaveInv and LoadInv say nothing of.
RestTyped ==
  /\ file \in {Absent, Broken} \/ (file.kind = "text" /\ file = Holds(file.text))
  /\ saved.outcome \in Outcome /\ saved.full \in BOOLEAN
  /\ saved.config \in Config \cup {NoConfig}
  /\ program \in Program

\* Every step keeps their types.
LEMMA NextRest ==
  ASSUME RestTyped, SaveInv, [Next]_vars
  PROVE  RestTyped'
<1> USE DEF Outcome, Program
<1>1. CASE \E text \in Text : UserWrites(text)
  BY <1>1, KindsDiffer DEF RestTyped, UserWrites, Unsaved
<1>2. CASE \E c \in Config : save(c)
  <2>1. PICK c \in Config : save(c)
    BY <1>2
  <2>2. file' \in {Broken, file} /\ program' = program
    BY <2>1 DEF save, SaveOpen, SaveCannotOpen
  <2>3. saved'.outcome \in Outcome /\ saved'.config \in {c, NoConfig}
    BY <2>1 DEF save, SaveOpen, SaveCannotOpen, Unsaved
  <2>4. saved'.full = FALSE
    BY <2>1 DEF save, SaveOpen, SaveCannotOpen, Unsaved
  <2> QED
    BY <2>2, <2>3, <2>4 DEF RestTyped
<1>3. CASE SaveWrite
  <2>1. saver.config \in Config
    BY <1>3 DEF SaveWrite, SaveEnds, SaveInv, Idle
  <2> QED
    BY <1>3, <2>1, KindsDiffer DEF RestTyped, SaveWrite, SaveEnds
<1>4. CASE SaveToFullDisk \/ SaveCannotSerialize \/ SaverKilled
  <2> USE DEF SaveToFullDisk, SaveCannotSerialize, SaverKilled, SaveEnds
  <2>1. saver.config \in Config
    BY <1>4 DEF SaveInv, Idle
  <2>2. file' \in {Broken, file} /\ program' = program
    BY <1>4
  <2>3. saved'.outcome \in Outcome /\ saved'.config = saver.config
    BY <1>4
  <2>4. saved'.full = TRUE \/ saved'.full = FALSE
    BY <1>4
  <2> QED
    BY <2>1, <2>2, <2>3, <2>4 DEF RestTyped
<1>5. CASE load \/ CreateClient \/ Restart \/ UNCHANGED vars
  <2>1. UNCHANGED <<file, saved>> /\ program' \in Program
    BY <1>5 DEF RestTyped, load, Accept, Refuse, CreateClient, Restart, vars
  <2> QED
    BY <2>1 DEF RestTyped
<1> QED
  BY <1>1, <1>2, <1>3, <1>4, <1>5 DEF Next, SaveGoesOn

\* The types hold; a loaded configuration's number fields keep their widths.
THEOREM ConfigTypeCorrect == Spec => []ConfigTypeOK
<1>1. Init => RestTyped
  BY DEF Init, RestTyped, Unsaved, Outcome, Program
<1>2. StoreInv /\ RestTyped /\ [Next]_vars => RestTyped'
  BY NextRest DEF StoreInv
<1>3. StoreInv /\ RestTyped => ConfigTypeOK
  BY DEF StoreInv, SaveInv, LoadInv, RestTyped, ConfigTypeOK, Idle, Loaded
<1> QED
  BY <1>1, <1>2, <1>3, StoreHolds, PTL DEF Spec
-----------------------------------------------------------------------------
\* However saves, crashes and starts interleave, a program that starts has the
\* last text that was written as a whole.
THEOREM LatestTextIsLoaded == Spec => LoadsLatestText
<1>1. StoreInv /\ [Next]_vars =>
        (program = "down" /\ program' = "loaded" => config' = Filled(latest))
  <2> SUFFICES ASSUME FileInv, [Next]_vars, program = "down", program' = "loaded"
               PROVE  config' = Filled(latest)
    BY DEF StoreInv
  <2>1. load
    BY DEF Next, vars, UserWrites, save, SaveOpen, SaveCannotOpen, SaveGoesOn, SaveWrite,
           SaveToFullDisk, SaveCannotSerialize, SaverKilled, SaveEnds, CreateClient, Restart
  <2>2. Loads(file) /\ config' = Filled(file.text)
    BY <2>1 DEF load, Accept, Refuse
  <2>3. file.text = latest
    BY <2>2, KindsDiffer DEF Loads, FileInv
  <2> QED
    BY <2>2, <2>3
<1> QED
  BY <1>1, StoreHolds, PTL DEF Spec, LoadsLatestText

\* A save that reports success, of a valid configuration and on a disk with room,
\* is found again by the next load, key by key.
THEOREM SavedIsLoaded == Spec => []SaveThenLoad
<1>1. StoreInv => SaveThenLoad
  BY RoundTrip, KindsDiffer DEF StoreInv, SaveInv, SaveThenLoad
<1> QED
  BY <1>1, StoreHolds, PTL

\* Only a save can make the file unreadable, and only one that did not succeed.
THEOREM UnreadableIsExplained == Spec => []UnreadableExplained
<1>1. StoreInv => UnreadableExplained
  BY DEF StoreInv, SaveInv, UnreadableExplained
<1> QED
  BY <1>1, StoreHolds, PTL

\* The constructor of ApiClient never refuses the credentials of a loaded
\* configuration.
THEOREM CredentialsAreAccepted == Spec => []CredentialsAccepted
<1>1. StoreInv => CredentialsAccepted
  BY DEF StoreInv, CredentialsAccepted
<1> QED
  BY <1>1, StoreHolds, PTL
=============================================================================
