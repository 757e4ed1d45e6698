---------------------------- MODULE StartupProofs ----------------------------
(***************************************************************************)
(* Config: SettingsSurvive.  Startup: the same for its processes,          *)
(* ServerHasItsPool, AsksIfPlain, AddressesReadBack.  For any number of    *)
(* processes, any settings, and any size of octets and addresses.          *)
(***************************************************************************)
EXTENDS Startup, UtilsProofs

----------------------------------------------------------------------------
(* The settings and their file.                                            *)

Lines == [Keys -> Texts \cup {Missing}]
States == {"absent", "opening", "writing", "ready", "failed"}

ConfigTypeOK ==
    /\ file \in Lines
    /\ proc \in [Processes -> States]
    /\ settings \in [Processes -> Lines]
    /\ kept \in [Keys -> Texts \cup {Missing, Throws}]
    /\ undisturbed \in BOOLEAN

\* What a process is going to write is read back.
Readable ==
    \A p \in Processes : Saving(p) => \A k \in Keys : ReadsBack(k, settings[p][k])

\* It is what the file was to keep, ...
Faithful ==
    undisturbed => \A p \in Processes : Saving(p) =>
        \A k \in Keys : kept[k] # Missing => settings[p][k] = kept[k]

\* ... and two processes are about to write only if every key has a value.
Decided ==
    undisturbed => \A p, q \in Processes :
        Saving(p) /\ Saving(q) /\ p # q => \A k \in Keys : kept[k] # Missing

Agrees == \A k \in Keys : Reads(file, k) = kept[k]
SomebodyWrites == \E p \in Processes : proc[p] = "writing"

\* While somebody writes, the file is empty or what another has written whole.
OnDisk ==
    undisturbed =>
        IF SomebodyWrites THEN file = Empty \/ (Complete(file) /\ Agrees) ELSE Agrees

ConfigInv == ConfigTypeOK /\ Readable /\ Faithful /\ Decided /\ OnDisk

----------------------------------------------------------------------------

\* The first state.
LEMMA ConfigInitInv == ConfigInit => ConfigInv
  <1> SUFFICES ASSUME ConfigInit PROVE ConfigInv
      OBVIOUS
  <1>1. \A k \in Keys : Reads(file, k) = Missing /\ kept[k] = Missing
        BY DEF ConfigInit, Empty, Reads
  <1>2. NobodySaves /\ ~SomebodyWrites
        BY DEF ConfigInit, NobodySaves, Saving, SomebodyWrites
  <1>3. ConfigTypeOK
        BY DEF ConfigInit, ConfigTypeOK, Lines, States, Empty
  <1> QED BY <1>1, <1>2, <1>3
          DEF ConfigInv, Readable, Faithful, Decided, OnDisk, NobodySaves, Agrees

\* What Load finds in a line is a text that is read back, if it is there and
\* Load does not throw.
LEMMA TakenReadsBack ==
    ASSUME NEW f \in Lines, NEW k \in Keys,
           Reads(f, k) # Missing, Reads(f, k) # Throws
    PROVE  ReadsBack(k, Reads(f, k))
  BY ConfigAssumption DEF Lines, Reads, ReadsBack

\* A complete file agrees with what it was to keep, whoever is about to write.
LEMMA CompleteAgrees ==
    ASSUME ConfigInv, undisturbed, NobodySaves \/ Complete(file)
    PROVE  Agrees
  <1>1. CASE NobodySaves
        BY <1>1 DEF NobodySaves, Saving, SomebodyWrites, ConfigInv, OnDisk
  <1>2. CASE Complete(file)
    <2>1. file = Empty => \A k \in Keys : Reads(file, k) = Missing
          BY DEF Empty, Reads
    <2>2. CASE file = Empty
          BY <1>2, <2>1, <2>2 DEF Complete, Agrees
    <2>3. CASE file # Empty
          BY <2>3 DEF ConfigInv, OnDisk
    <2> QED BY <2>2, <2>3
  <1> QED BY <1>1, <1>2

\* Load decides what the process is going to write.
LEMMA LoadKeeps ==
    ASSUME ConfigInv, NEW p \in Processes, NEW d \in Defaults, Load(p, d)
    PROVE  ConfigInv'
  <1>1. /\ ConfigTypeOK /\ Readable /\ Faithful /\ Decided /\ OnDisk
        /\ proc' = [proc EXCEPT ![p] = "opening"]
        /\ proc[p] = "absent"
        /\ file' = file /\ kept' = kept
        /\ undisturbed' = (undisturbed /\ (NobodySaves \/ Complete(file)))
        /\ \A k \in Keys : Reads(file, k) # Throws
        BY DEF ConfigInv, Load, Go
  <1> DEFINE s == [k \in Keys |-> IF Reads(file, k) = Missing THEN d[k] ELSE Reads(file, k)]
  <1>2. settings' = [settings EXCEPT ![p] = s]
        BY DEF Load
  <1>3. \A k \in Keys : ReadsBack(k, s[k])
    <2> SUFFICES ASSUME NEW k \in Keys PROVE ReadsBack(k, s[k])
        OBVIOUS
    <2>1. ReadsBack(k, d[k])
          BY ConfigAssumption
    <2>2. Reads(file, k) # Missing => ReadsBack(k, Reads(file, k))
          BY <1>1, TakenReadsBack DEF ConfigTypeOK
    <2> QED BY <2>1, <2>2
  <1>4. s \in Lines
        BY <1>3 DEF Lines, ReadsBack
  <1>5. \A k \in Keys : Reads(file, k) # Missing => s[k] = Reads(file, k)
        OBVIOUS
  <1> HIDE DEF s
  <1>6. \A q \in Processes : /\ proc'[q] = IF q = p THEN "opening" ELSE proc[q]
                             /\ settings'[q] = IF q = p THEN s ELSE settings[q]
        BY <1>1, <1>2 DEF ConfigTypeOK
  <1>7. \A q \in Processes : Saving(q)' <=> Saving(q) \/ q = p
        BY <1>1, <1>6 DEF Saving
  <1>8. ~Saving(p)
        BY <1>1 DEF Saving
  <1>9. ConfigTypeOK'
        BY <1>1, <1>2, <1>4 DEF ConfigTypeOK, States
  <1>10. Readable'
        BY <1>1, <1>3, <1>6, <1>7 DEF Readable
  <1>11. undisturbed' => undisturbed /\ Agrees
        BY <1>1, CompleteAgrees
  <1>12. Faithful'
    <2>1. undisturbed' => \A k \in Keys : kept[k] # Missing => s[k] = kept[k]
          BY <1>5, <1>11 DEF Agrees
    <2> QED BY <1>1, <1>6, <1>7, <1>11, <2>1 DEF Faithful
  <1>13. Decided'
    <2>1. undisturbed' /\ ~NobodySaves => \A k \in Keys : kept[k] # Missing
          BY <1>1, <1>11 DEF Agrees, Complete
    <2> QED BY <1>1, <1>7, <1>8, <1>11, <2>1 DEF Decided, NobodySaves
  <1>14. OnDisk'
    <2>1. SomebodyWrites' <=> SomebodyWrites
          BY <1>1, <1>6 DEF SomebodyWrites
    <2>2. Agrees' <=> Agrees
          BY <1>1 DEF Agrees, Reads
    <2>3. Complete(file)' <=> Complete(file)
          BY <1>1 DEF Complete, Reads
    <2> QED BY <1>1, <2>1, <2>2, <2>3 DEF OnDisk, Empty
  <1> QED BY <1>9, <1>10, <1>12, <1>13, <1>14 DEF ConfigInv

\* Without a file to read, a process is going to write its defaults.
LEMMA LoadUnopenedKeeps ==
    ASSUME ConfigInv, NEW p \in Processes, NEW d \in Defaults, LoadUnopened(p, d)
    PROVE  ConfigInv'
  <1>1. /\ ConfigTypeOK /\ Readable
        /\ proc' = [proc EXCEPT ![p] = "opening"]
        /\ settings' = [settings EXCEPT ![p] = d]
        /\ UNCHANGED <<file, kept>>
        /\ undisturbed' = FALSE
        BY DEF ConfigInv, LoadUnopened, Go
  <1>2. d \in Lines /\ \A k \in Keys : ReadsBack(k, d[k])
        BY ConfigAssumption DEF Lines
  <1>3. ConfigTypeOK'
        BY <1>1, <1>2 DEF ConfigTypeOK, States
  <1>4. Readable'
    <2>1. \A q \in Processes \ {p} : proc'[q] = proc[q] /\ settings'[q] = settings[q]
          BY <1>1 DEF ConfigTypeOK
    <2>2. settings'[p] = d
          BY <1>1 DEF ConfigTypeOK
    <2> QED BY <1>1, <1>2, <2>1, <2>2 DEF Readable, Saving
  <1> QED BY <1>1, <1>3, <1>4 DEF ConfigInv, Faithful, Decided, OnDisk

\* A step that leaves file and kept alone, adds nobody to those who save and
\* takes nobody from those who write.
LEMMA Leaving ==
    ASSUME ConfigInv, ConfigTypeOK',
           file' = file, kept' = kept, undisturbed' => undisturbed,
           \A q \in Processes : Saving(q)' => Saving(q) /\ settings'[q] = settings[q],
           undisturbed' =>
               \A q \in Processes : proc'[q] = "writing" <=> proc[q] = "writing"
    PROVE  ConfigInv'
  <1>1. Readable'
        BY DEF ConfigInv, Readable
  <1>2. Faithful'
        BY DEF ConfigInv, Faithful
  <1>3. Decided'
        BY DEF ConfigInv, Decided
  <1>4. OnDisk'
    <2>1. undisturbed' => (SomebodyWrites' <=> SomebodyWrites)
          BY DEF SomebodyWrites
    <2>2. Agrees' <=> Agrees
          BY DEF Agrees, Reads
    <2>3. Complete(file)' <=> Complete(file)
          BY DEF Complete, Reads
    <2> QED BY <2>1, <2>2, <2>3 DEF ConfigInv, OnDisk, Empty
  <1> QED BY <1>1, <1>2, <1>3, <1>4 DEF ConfigInv

\* std::ios::trunc
LEMMA OpenKeeps ==
    ASSUME ConfigInv, NEW p \in Processes, Open(p)
    PROVE  ConfigInv'
  <1>1. /\ ConfigTypeOK /\ Readable /\ Faithful /\ Decided
        /\ proc' = [proc EXCEPT ![p] = "writing"]
        /\ proc[p] = "opening"
        /\ file' = Empty /\ kept' = kept /\ settings' = settings
        /\ undisturbed' = undisturbed
        BY DEF ConfigInv, Open, Go
  <1>2. \A q \in Processes : proc'[q] = IF q = p THEN "writing" ELSE proc[q]
        BY <1>1 DEF ConfigTypeOK
  <1>3. \A q \in Processes : Saving(q)' <=> Saving(q)
        BY <1>1, <1>2 DEF Saving
  <1>4. ConfigTypeOK'
        BY <1>1 DEF ConfigTypeOK, States, Lines, Empty
  <1>5. Readable' /\ Faithful' /\ Decided'
        BY <1>1, <1>3 DEF Readable, Faithful, Decided
  <1>6. OnDisk'
        BY <1>1, <1>2 DEF OnDisk, SomebodyWrites, Empty
  <1> QED BY <1>4, <1>5, <1>6 DEF ConfigInv

\* What Write leaves is complete and as it was to be kept, with or without
\* lines of another process behind it.
LEMMA WriteKeeps ==
    ASSUME ConfigInv, NEW p \in Processes, NEW tail \in Tails, Write(p, tail)
    PROVE  ConfigInv'
  <1>1. /\ ConfigTypeOK /\ Readable /\ Faithful /\ Decided /\ OnDisk
        /\ proc' = [proc EXCEPT ![p] = "ready"]
        /\ proc[p] = "writing"
        /\ settings' = settings /\ undisturbed' = undisturbed
        /\ \A k \in tail : file[k] # Missing
        /\ file' = [k \in Keys |-> IF k \in tail THEN file[k] ELSE settings[p][k]]
        /\ kept' = [k \in Keys |-> IF kept[k] = Missing THEN settings[p][k] ELSE kept[k]]
        BY DEF ConfigInv, Write, Go
  <1>2. Saving(p) /\ SomebodyWrites
        BY <1>1 DEF Saving, SomebodyWrites
  <1>3. \A q \in Processes : proc'[q] = IF q = p THEN "ready" ELSE proc[q]
        BY <1>1 DEF ConfigTypeOK
  <1>4. \A q \in Processes : Saving(q)' <=> Saving(q) /\ q # p
        BY <1>3 DEF Saving
  <1>5. \A k \in Keys : ReadsBack(k, settings[p][k]) /\ settings[p][k] # Missing
        BY <1>1, <1>2, ConfigAssumption DEF Readable, ReadsBack
  <1>6. ConfigTypeOK'
    <2>1. file' \in Lines /\ kept' \in [Keys -> Texts \cup {Missing, Throws}]
          BY <1>1, <1>5 DEF ConfigTypeOK, Lines, ReadsBack
    <2> QED BY <1>1, <2>1 DEF ConfigTypeOK, States
  <1>7. Readable'
        BY <1>1, <1>4 DEF Readable
  <1>8. undisturbed => \A q \in Processes : Saving(q)' => \A k \in Keys :
            kept[k] # Missing /\ kept'[k] = kept[k]
        BY <1>1, <1>2, <1>4 DEF Decided
  <1>9. Faithful'
        BY <1>1, <1>4, <1>8 DEF Faithful
  <1>10. Decided'
        BY <1>1, <1>4, <1>8 DEF Decided
  <1>11. ASSUME undisturbed, NEW k \in Keys
         PROVE  Reads(file', k) = kept'[k] /\ kept'[k] # Missing
    <2>1. kept'[k] = IF kept[k] = Missing THEN settings[p][k] ELSE kept[k]
          BY <1>1
    <2>2. kept'[k] = settings[p][k]
          BY <1>1, <1>2, <1>11, <2>1 DEF Faithful
    <2>3. CASE k \notin tail
      <3>1. file'[k] = settings[p][k]
            BY <1>1, <2>3
      <3> QED BY <1>5, <2>2, <3>1 DEF Reads, ReadsBack
    <2>4. CASE k \in tail
      <3>1. file'[k] = file[k] /\ file # Empty
            BY <1>1, <2>4 DEF Empty
      <3>2. Reads(file, k) = kept[k] /\ kept[k] # Missing
            BY <1>1, <1>2, <1>11, <3>1 DEF OnDisk, Agrees, Complete
      <3> QED BY <2>1, <3>1, <3>2 DEF Reads
    <2> QED BY <2>3, <2>4
  <1>12. OnDisk'
    <2>1. undisturbed => Agrees' /\ Complete(file)'
          BY <1>11 DEF Agrees, Complete, Reads
    <2> QED BY <1>1, <2>1 DEF OnDisk
  <1> QED BY <1>6, <1>7, <1>9, <1>10, <1>12 DEF ConfigInv

\* A user's line counts from now on, unless somebody is about to write over it.
LEMMA EditKeeps ==
    ASSUME ConfigInv, NEW k \in Keys, NEW text \in Texts \cup {Missing}, Edit(k, text)
    PROVE  ConfigInv'
  <1>1. /\ ConfigTypeOK /\ Readable
        /\ file' = [file EXCEPT ![k] = text]
        /\ kept' = [i \in Keys |-> Reads(file', i)]
        /\ undisturbed' = NobodySaves
        /\ proc' = proc /\ settings' = settings
        BY DEF ConfigInv, Edit
  <1>2. file' \in Lines
        BY <1>1 DEF ConfigTypeOK, Lines
  <1>3. kept' \in [Keys -> Texts \cup {Missing, Throws}]
    <2>1. \A i \in Keys : Reads(file', i) \in Texts \cup {Missing, Throws}
          BY <1>2, ConfigAssumption DEF Lines, Reads
    <2> QED BY <1>1, <2>1
  <1>4. ConfigTypeOK'
        BY <1>1, <1>2, <1>3 DEF ConfigTypeOK, NobodySaves, Saving
  <1>5. Readable'
        BY <1>1 DEF Readable, Saving
  <1>6. undisturbed' => NobodySaves' /\ ~SomebodyWrites'
        BY <1>1 DEF NobodySaves, Saving, SomebodyWrites
  <1>7. Agrees'
        BY <1>1 DEF Agrees, Reads
  <1> QED BY <1>4, <1>5, <1>6, <1>7
          DEF ConfigInv, Faithful, Decided, OnDisk, NobodySaves

\* Every step.
LEMMA ConfigNextInv == ConfigInv /\ [ConfigNext]_configVars => ConfigInv'
  <1> SUFFICES ASSUME ConfigInv, [ConfigNext]_configVars PROVE ConfigInv'
      OBVIOUS
  <1> USE DEF ConfigInv
  <1>1. ASSUME NEW p \in Processes, NEW d \in Defaults, Load(p, d) PROVE ConfigInv'
        BY <1>1, LoadKeeps
  <1>2. ASSUME NEW p \in Processes, LoadThrows(p) PROVE ConfigInv'
        BY <1>2, Leaving DEF LoadThrows, Go, ConfigTypeOK, States, Saving
  <1>3. ASSUME NEW p \in Processes, Open(p) PROVE ConfigInv'
        BY <1>3, OpenKeeps
  <1>4. ASSUME NEW p \in Processes, OpenFails(p) PROVE ConfigInv'
        BY <1>4, Leaving DEF OpenFails, Go, ConfigTypeOK, States, Saving
  <1>5. ASSUME NEW p \in Processes, NEW tail \in Tails, Write(p, tail) PROVE ConfigInv'
        BY <1>5, WriteKeeps
  <1>6. Empty \in Lines
        BY DEF Empty, Lines
  <1>7. ASSUME NEW p \in Processes, Crash(p) PROVE ConfigInv'
        BY <1>6, <1>7, Leaving DEF Crash, Go, ConfigTypeOK, States, Saving
  <1>8. ASSUME NEW p \in Processes, End(p) PROVE ConfigInv'
        BY <1>6, <1>8, Leaving DEF End, Go, ConfigTypeOK, States, Saving
  <1>9. ASSUME NEW k \in Keys, NEW text \in Texts \cup {Missing}, Edit(k, text)
        PROVE  ConfigInv'
        BY <1>9, EditKeeps
  <1>10. ASSUME UNCHANGED configVars PROVE ConfigInv'
        BY <1>10, Leaving DEF configVars, ConfigTypeOK, Saving
  <1>11. ASSUME NEW p \in Processes, NEW d \in Defaults, LoadUnopened(p, d)
         PROVE  ConfigInv'
        BY <1>11, LoadUnopenedKeeps
  <1> QED BY <1>1, <1>2, <1>3, <1>4, <1>5, <1>7, <1>8, <1>9, <1>10, <1>11
          DEF ConfigNext, InitProcess

\* For any processes, keys, texts and defaults: what was written once is found
\* again, unless a disturbance came between (SettingsSurvive of Config.h).
THEOREM ConfigSurvives == ConfigSpec => []SettingsSurvive
  <1>1. ConfigInv => SettingsSurvive
        BY DEF ConfigInv, OnDisk, SomebodyWrites, Agrees, SettingsSurvive
  <1> QED BY <1>1, ConfigInitInv, ConfigNextInv, PTL DEF ConfigSpec

----------------------------------------------------------------------------
(* The processes.                                                          *)

Pushing == {"pushing", "built", "up"}

StartTypeOK ==
    /\ at \in [Processes -> {"main", "pushing", "built", "up", "failed"}]
    /\ ip \in [Servers -> uint32_t]
    /\ end_ \in [Servers -> uint32_t]
    /\ DOMAIN free_ = Servers
    /\ DOMAIN asked = Clients

\* Behind Load every setting has a text, and nobody is behind Init's Save but
\* with these settings.
Loaded ==
    \A p \in Processes :
        /\ proc[p] \in {"opening", "writing", "ready"} => settings[p] \in [Keys -> Texts]
        /\ at[p] # "main" => proc[p] = "ready"

FirstOf(p) == ntohl[Address(p, "IpPoolFrom")]
LastOf(p) == ntohl[Address(p, "IpPoolTo")]

\* The queue has all addresses from the first up to the loop's variable,
\* unless the loop runs for ever.
Pushed(p) ==
    /\ at[p] = "main" => free_[p] = <<>>
    /\ at[p] \in Pushing =>
          /\ Address(p, "IpPoolFrom") \in Ips /\ Address(p, "IpPoolTo") \in Ips
          /\ FirstOf(p) <= LastOf(p) /\ end_[p] = LastOf(p)
          /\ end_[p] < UINT32_MAX =>
                /\ ip[p] \in FirstOf(p) .. end_[p] + 1
                /\ free_[p] = [i \in 1 .. ip[p] - FirstOf(p) |-> FirstOf(p) + i - 1]
    /\ at[p] \in {"built", "up"} => end_[p] < ip[p]

\* What a client that is up has done.
Asked(p) ==
    at[p] = "up" => Address(p, "ServerIp") # Invalid /\ asked[p] = Asks(p)

StartInv ==
    /\ ConfigTypeOK /\ StartTypeOK /\ Loaded
    /\ \A p \in Servers : Pushed(p)
    /\ \A p \in Clients : Asked(p)

----------------------------------------------------------------------------

\* What Utils says of the texts and the numbers.
LEMMA Numbering ==
    /\ UINT32_MAX \in Nat /\ Ips = 0 .. UINT32_MAX /\ uint32_t = Ips
    /\ \A a \in Ips : ntohl[a] \in Ips /\ ntohl[ntohl[a]] = a
    /\ \A text \in Texts : text \in Characters /\ FromString(text) \in Ips \cup {Invalid}
  <1>1. Power[Parts] \in Nat \ {0}
        BY Powers, Constants
  <1>2. \A text \in Texts : text \in Characters
        BY StartupAssumption, UtilsAssumption DEF StartupAssumption, UtilsAssumption, Characters
  <1> QED BY <1>1, <1>2, Printing, SwappedTwice, FromStringType
          DEF UINT32_MAX, Ips, uint32_t, ntohl

LEMMA Members ==
    /\ Servers \subseteq Processes /\ Clients \subseteq Processes
    /\ Servers \cap Clients = {}
    /\ "ServerIp" \in Keys /\ "IpPoolFrom" \in Keys /\ "IpPoolTo" \in Keys
    /\ Missing \notin Texts
  BY StartupAssumption, ConfigAssumption DEF StartupAssumption, ConfigAssumption

LEMMA StartInitInv == Init => StartInv
  <1> SUFFICES ASSUME Init PROVE StartInv
      OBVIOUS
  <1>1. ConfigTypeOK
        BY ConfigInitInv DEF Init, ConfigInv
  <1>2. StartTypeOK
        BY Members, Numbering DEF Init, StartTypeOK
  <1>3. Loaded
        BY DEF Init, ConfigInit, Loaded
  <1>4. \A p \in Processes : at[p] = "main"
        BY DEF Init
  <1>5. ASSUME NEW p \in Servers PROVE Pushed(p)
        BY <1>4, Members DEF Init, Pushed, Pushing
  <1>6. ASSUME NEW p \in Clients PROVE Asked(p)
        BY <1>4, Members DEF Asked
  <1> QED BY <1>1, <1>2, <1>3, <1>5, <1>6 DEF StartInv

\* A process that nothing happens to.
LEMMA Unmoved ==
    ASSUME NEW p \in Processes, settings'[p] = settings[p], at'[p] = at[p]
    PROVE  /\ p \in Servers /\ Pushed(p) /\ ip'[p] = ip[p] /\ end_'[p] = end_[p]
              /\ free_'[p] = free_[p] => Pushed(p)'
           /\ p \in Clients /\ Asked(p) /\ asked'[p] = asked[p] => Asked(p)'
  <1>1. ASSUME NEW k PROVE Address(p, k)' = Address(p, k)
        BY DEF Address
  <1>2. FirstOf(p)' = FirstOf(p) /\ LastOf(p)' = LastOf(p)
        BY <1>1 DEF FirstOf, LastOf
  <1>3. Asks(p)' = Asks(p)
        BY <1>1 DEF Asks
  <1>4. ASSUME p \in Servers, Pushed(p), ip'[p] = ip[p], end_'[p] = end_[p], free_'[p] = free_[p]
        PROVE  Pushed(p)'
        BY <1>1, <1>2, <1>4 DEF Pushed
  <1>5. ASSUME p \in Clients, Asked(p), asked'[p] = asked[p]
        PROVE  Asked(p)'
        BY <1>1, <1>3, <1>5 DEF Asked
  <1> QED BY <1>4, <1>5

\* A process behind Load has texts for settings.
LEMMA LoadGivesTexts ==
    ASSUME ConfigTypeOK, NEW p \in Processes, NEW d \in Defaults, Load(p, d)
    PROVE  settings'[p] \in [Keys -> Texts]
  <1> DEFINE s == [k \in Keys |-> IF Reads(file, k) = Missing THEN d[k] ELSE Reads(file, k)]
  <1>1. settings'[p] = s
        BY DEF Load, ConfigTypeOK
  <1>2. ASSUME NEW k \in Keys
        PROVE  (IF Reads(file, k) = Missing THEN d[k] ELSE Reads(file, k)) \in Texts
    <2>1. d[k] \in Texts
          BY ConfigAssumption DEF ConfigAssumption
    <2>2. Reads(file, k) # Missing => ReadsBack(k, Reads(file, k))
          BY TakenReadsBack DEF ConfigTypeOK, Load
    <2> QED BY <2>1, <2>2 DEF ReadsBack
  <1> QED BY <1>1, <1>2

\* Init concerns one process, that has not come to its main part.
LEMMA InitOfOne ==
    ASSUME ConfigTypeOK, Loaded, NEW p \in Processes, InitProcess(p)
    PROVE  /\ at[p] = "main"
           /\ \A q \in Processes \ {p} : proc'[q] = proc[q] /\ settings'[q] = settings[q]
           /\ proc'[p] \in {"opening", "writing", "ready"} => settings'[p] \in [Keys -> Texts]
  <1> USE DEF ConfigTypeOK, Go, Loaded
  <1>1. ASSUME NEW d \in Defaults, Load(p, d)
        PROVE  /\ proc[p] = "absent"
               /\ \A q \in Processes \ {p} : proc'[q] = proc[q] /\ settings'[q] = settings[q]
               /\ settings'[p] \in [Keys -> Texts]
    <2>1. settings'[p] \in [Keys -> Texts]
          BY <1>1, LoadGivesTexts
    <2> QED BY <1>1, <2>1 DEF Load
  <1>2. CASE LoadThrows(p)
        BY <1>2 DEF LoadThrows
  <1>3. CASE Open(p)
        BY <1>3 DEF Open
  <1>4. CASE OpenFails(p)
        BY <1>4 DEF OpenFails
  <1>5. ASSUME NEW tail \in Tails, Write(p, tail)
        PROVE  /\ proc[p] = "writing"
               /\ \A q \in Processes \ {p} : proc'[q] = proc[q] /\ settings'[q] = settings[q]
               /\ settings'[p] \in [Keys -> Texts]
        BY <1>5 DEF Write
  <1>6. CASE Crash(p)
        BY <1>6 DEF Crash, Saving
  <1>7. ASSUME NEW d \in Defaults, LoadUnopened(p, d)
        PROVE  /\ proc[p] = "absent"
               /\ \A q \in Processes \ {p} : proc'[q] = proc[q] /\ settings'[q] = settings[q]
               /\ settings'[p] \in [Keys -> Texts]
    <2>1. d \in [Keys -> Texts]
          BY ConfigAssumption
    <2> QED BY <1>7, <2>1 DEF LoadUnopened
  <1> QED BY <1>1, <1>2, <1>3, <1>4, <1>5, <1>6, <1>7 DEF InitProcess

LEMMA InitProcessKeeps ==
    ASSUME StartInv, ConfigTypeOK', NEW p \in Processes, InitProcess(p), UNCHANGED ownVars
    PROVE  StartInv'
  <1>1. /\ ConfigTypeOK /\ StartTypeOK /\ Loaded
        /\ \A q \in Servers : Pushed(q)
        /\ \A q \in Clients : Asked(q)
        /\ at' = at /\ ip' = ip /\ end_' = end_ /\ free_' = free_ /\ asked' = asked
        BY DEF StartInv, ownVars
  <1>2. /\ at[p] = "main"
        /\ \A q \in Processes \ {p} : proc'[q] = proc[q] /\ settings'[q] = settings[q]
        /\ proc'[p] \in {"opening", "writing", "ready"} => settings'[p] \in [Keys -> Texts]
        BY <1>1, InitOfOne
  <1>3. StartTypeOK'
        BY <1>1 DEF StartTypeOK, uint32_t
  <1>4. Loaded'
        BY <1>1, <1>2 DEF Loaded
  <1>5. ASSUME NEW q \in Servers PROVE Pushed(q)'
    <2>1. CASE q = p
          BY <1>1, <1>2, <2>1 DEF Pushed, Pushing
    <2>2. CASE q # p
          BY <1>1, <1>2, <2>2, Members, Unmoved
    <2> QED BY <2>1, <2>2
  <1>6. ASSUME NEW q \in Clients PROVE Asked(q)'
    <2>1. CASE q = p
          BY <1>1, <1>2, <2>1 DEF Asked
    <2>2. CASE q # p
          BY <1>1, <1>2, <2>2, Members, Unmoved
    <2> QED BY <2>1, <2>2
  <1> QED BY <1>3, <1>4, <1>5, <1>6 DEF StartInv

\* What ends leaves nothing in memory.
LEMMA EndProcessKeeps ==
    ASSUME StartInv, ConfigTypeOK', NEW p \in Processes, EndProcess(p)
    PROVE  StartInv'
  <1>1. /\ ConfigTypeOK /\ StartTypeOK /\ Loaded
        /\ \A q \in Servers : Pushed(q)
        /\ \A q \in Clients : Asked(q)
        /\ at' = [at EXCEPT ![p] = "main"]
        /\ ip' = IF p \in Servers THEN [ip EXCEPT ![p] = 0] ELSE ip
        /\ end_' = IF p \in Servers THEN [end_ EXCEPT ![p] = 0] ELSE end_
        /\ free_' = IF p \in Servers THEN [free_ EXCEPT ![p] = <<>>] ELSE free_
        /\ asked' = IF p \in Clients THEN [asked EXCEPT ![p] = FALSE] ELSE asked
        BY DEF StartInv, EndProcess
  <1>2. /\ \A q \in Processes \ {p} : proc'[q] = proc[q] /\ settings'[q] = settings[q]
        /\ proc'[p] = "absent" /\ at'[p] = "main"
        BY <1>1 DEF EndProcess, End, Go, ConfigTypeOK, StartTypeOK
  <1>3. StartTypeOK'
    <2>1. 0 \in uint32_t
          BY Numbering
    <2> QED BY <1>1, <2>1 DEF StartTypeOK, uint32_t
  <1>4. Loaded'
        BY <1>1, <1>2 DEF Loaded, StartTypeOK
  <1>5. ASSUME NEW q \in Servers PROVE Pushed(q)'
    <2>1. CASE q = p
      <3>1. free_'[p] = <<>>
            BY <1>1, <2>1 DEF StartTypeOK
      <3> QED BY <1>2, <2>1, <3>1 DEF Pushed, Pushing
    <2>2. CASE q # p
      <3>1. at'[q] = at[q] /\ ip'[q] = ip[q] /\ end_'[q] = end_[q] /\ free_'[q] = free_[q]
            BY <1>1, <2>2, Members DEF StartTypeOK
      <3> QED BY <1>1, <1>2, <2>2, <3>1, Members, Unmoved
    <2> QED BY <2>1, <2>2
  <1>6. ASSUME NEW q \in Clients PROVE Asked(q)'
    <2>1. CASE q = p
          BY <1>2, <2>1 DEF Asked
    <2>2. CASE q # p
      <3>1. at'[q] = at[q] /\ asked'[q] = asked[q]
            BY <1>1, <2>2, Members DEF StartTypeOK
      <3> QED BY <1>1, <1>2, <2>2, <3>1, Members, Unmoved
    <2> QED BY <2>1, <2>2
  <1> QED BY <1>3, <1>4, <1>5, <1>6 DEF StartInv

\* What a step of a process's main part leaves alone.
LEMMA MainStep ==
    ASSUME StartInv, NEW p \in Processes, NEW from, NEW to,
           Step(p, from, to), UNCHANGED configVars, StartTypeOK',
           \A q \in Servers \ {p} :
               ip'[q] = ip[q] /\ end_'[q] = end_[q] /\ free_'[q] = free_[q],
           \A q \in Clients \ {p} : asked'[q] = asked[q],
           p \in Servers => Pushed(p)',
           p \in Clients => Asked(p)'
    PROVE  StartInv'
  <1>1. /\ ConfigTypeOK /\ StartTypeOK /\ Loaded
        /\ \A q \in Servers : Pushed(q)
        /\ \A q \in Clients : Asked(q)
        /\ file' = file /\ proc' = proc /\ settings' = settings /\ kept' = kept
        /\ undisturbed' = undisturbed
        /\ proc[p] = "ready" /\ at' = [at EXCEPT ![p] = to]
        BY DEF StartInv, Step, configVars
  <1>2. ConfigTypeOK'
        BY <1>1 DEF ConfigTypeOK
  <1>3. \A q \in Processes \ {p} : at'[q] = at[q]
        BY <1>1 DEF StartTypeOK
  <1>4. Loaded'
        BY <1>1, <1>3 DEF Loaded
  <1>5. ASSUME NEW q \in Servers PROVE Pushed(q)'
    <2>1. CASE q # p
          BY <1>1, <1>3, <2>1, Members, Unmoved
    <2> QED BY <2>1
  <1>6. ASSUME NEW q \in Clients PROVE Asked(q)'
    <2>1. CASE q # p
          BY <1>1, <1>3, <2>1, Members, Unmoved
    <2> QED BY <2>1
  <1> QED BY <1>2, <1>4, <1>5, <1>6 DEF StartInv

\* A process in its main part has addresses or exceptions for its settings.
LEMMA Addresses ==
    ASSUME Loaded, NEW p \in Processes, proc[p] = "ready",
           NEW k \in {"ServerIp", "IpPoolFrom", "IpPoolTo"}
    PROVE  settings[p][k] \in Texts /\ Address(p, k) \in Ips \cup {Invalid}
  <1>1. settings[p] \in [Keys -> Texts] /\ k \in Keys
        BY Members DEF Loaded
  <1> QED BY <1>1, Numbering DEF Address

\* An address and what UNCHANGED configVars leaves of it.
LEMMA SameAddresses ==
    ASSUME UNCHANGED configVars, NEW p
    PROVE  /\ \A k : Address(p, k)' = Address(p, k)
           /\ FirstOf(p)' = FirstOf(p) /\ LastOf(p)' = LastOf(p)
           /\ Asks(p)' = Asks(p)
  <1>1. ASSUME NEW k PROVE Address(p, k)' = Address(p, k)
        BY DEF configVars, Address
  <1>2. settings' = settings
        BY DEF configVars
  <1> QED BY <1>1, <1>2 DEF FirstOf, LastOf, Asks

\* The loop begins with nothing pushed.
LEMMA ConstructKeeps ==
    ASSUME StartInv, NEW p \in Servers, Construct(p)
    PROVE  StartInv'
  <1> DEFINE to == IF ConstructThrows(p) THEN "failed" ELSE "pushing"
  <1>1. /\ StartTypeOK /\ Loaded /\ Pushed(p)
        /\ Step(p, "main", to) /\ UNCHANGED configVars
        /\ proc[p] = "ready" /\ at[p] = "main" /\ at' = [at EXCEPT ![p] = to]
        /\ free_' = free_ /\ asked' = asked /\ to \in {"failed", "pushing"}
        BY DEF StartInv, Construct, Step
  <1>2. p \in Processes /\ p \notin Clients
        BY Members
  <1>3. at'[p] = to
        BY <1>1, <1>2 DEF StartTypeOK
  <1>4. CASE ConstructThrows(p)
    <2>1. ip' = ip /\ end_' = end_ /\ to = "failed"
          BY <1>4 DEF Construct
    <2>2. StartTypeOK'
          BY <1>1, <1>2, <2>1 DEF StartTypeOK, uint32_t
    <2>3. Pushed(p)'
          BY <1>3, <2>1 DEF Pushed, Pushing
    <2> HIDE DEF to
    <2> QED BY <1>1, <1>2, <2>1, <2>2, <2>3, MainStep
  <1>5. CASE ~ConstructThrows(p)
    <2>1. /\ Address(p, "IpPoolFrom") \in Ips /\ Address(p, "IpPoolTo") \in Ips
          /\ ~(FirstOf(p) > LastOf(p))
          BY <1>1, <1>2, <1>5, Addresses DEF ConstructThrows, FirstOf, LastOf
    <2>2. FirstOf(p) \in Ips /\ LastOf(p) \in Ips
          BY <2>1, Numbering DEF FirstOf, LastOf
    <2>3. FirstOf(p) \in Nat /\ LastOf(p) \in Nat /\ FirstOf(p) <= LastOf(p)
          BY <2>1, <2>2, Numbering
    <2>4. ip' = [ip EXCEPT ![p] = FirstOf(p)] /\ end_' = [end_ EXCEPT ![p] = LastOf(p)]
          /\ to = "pushing"
          BY <1>5 DEF Construct, FirstOf, LastOf
    <2>5. StartTypeOK'
      <3>1. ip' \in [Servers -> uint32_t] /\ end_' \in [Servers -> uint32_t]
            BY <1>1, <2>2, <2>4, Numbering DEF StartTypeOK
      <3>2. uint32_t' = uint32_t
            BY DEF uint32_t
      <3> QED BY <1>1, <1>2, <3>1, <3>2 DEF StartTypeOK
    <2>6. ip'[p] = FirstOf(p) /\ end_'[p] = LastOf(p) /\ free_'[p] = <<>>
          BY <1>1, <2>4 DEF StartTypeOK, Pushed
    <2>7. \A q \in Servers \ {p} :
              ip'[q] = ip[q] /\ end_'[q] = end_[q] /\ free_'[q] = free_[q]
          BY <1>1, <2>4 DEF StartTypeOK
    <2>8. Pushed(p)'
      <3>1. [i \in 1 .. FirstOf(p) - FirstOf(p) |-> FirstOf(p) + i - 1] = <<>>
        <4>1. 1 .. FirstOf(p) - FirstOf(p) = {}
              BY <2>3
        <4> QED BY <4>1
      <3>2. FirstOf(p) \in FirstOf(p) .. LastOf(p) + 1
            BY <2>3
      <3> QED BY <1>1, <1>3, <2>1, <2>3, <2>4, <2>6, <3>1, <3>2, SameAddresses
              DEF Pushed, Pushing
    <2> HIDE DEF to
    <2> QED BY <1>1, <1>2, <2>5, <2>7, <2>8, MainStep
  <1> QED BY <1>4, <1>5

\* A round of the loop pushes the next address, unless it has wrapped around.
LEMMA PushKeeps ==
    ASSUME StartInv, NEW p \in Servers, Push(p)
    PROVE  StartInv'
  <1>1. /\ StartTypeOK /\ Loaded /\ Pushed(p)
        /\ Step(p, "pushing", "pushing") /\ UNCHANGED configVars
        /\ proc[p] = "ready" /\ at[p] = "pushing" /\ at' = [at EXCEPT ![p] = "pushing"]
        /\ ip[p] <= end_[p]
        /\ free_' = [free_ EXCEPT ![p] = Append(free_[p], ip[p])]
        /\ ip' = [ip EXCEPT ![p] = (ip[p] + 1) % (UINT32_MAX + 1)]
        /\ end_' = end_ /\ asked' = asked
        BY DEF StartInv, Push, Step, InRange
  <1>2. p \in Processes /\ p \notin Clients /\ UINT32_MAX \in Nat /\ uint32_t = 0 .. UINT32_MAX
        BY Members, Numbering DEF uint32_t
  <1>3. ip[p] \in uint32_t /\ end_[p] \in uint32_t
        BY <1>1 DEF StartTypeOK
  <1> DEFINE next == (ip[p] + 1) % (UINT32_MAX + 1)
  <1>4. next \in uint32_t /\ (end_[p] < UINT32_MAX => next = ip[p] + 1)
    <2>1. ip[p] + 1 \in Nat /\ UINT32_MAX + 1 \in Nat /\ UINT32_MAX + 1 > 0 /\ UINT32_MAX + 1 > 1 - 1
          BY <1>2, <1>3
    <2>2. next \in 0 .. (UINT32_MAX + 1) - 1
          BY ONLY <2>1, Division
    <2>3. ASSUME end_[p] < UINT32_MAX PROVE next = ip[p] + 1
      <3>1. ip[p] + 1 < UINT32_MAX + 1 /\ UINT32_MAX + 1 > 1
            BY <1>1, <1>2, <1>3, <2>3
      <3> QED BY ONLY <2>1, <3>1, Quotient
    <2> QED BY <1>2, <2>2, <2>3
  <1> HIDE DEF next
  <1>5. StartTypeOK'
    <2>1. ip' \in [Servers -> uint32_t] /\ end_' \in [Servers -> uint32_t]
          BY <1>1, <1>4 DEF StartTypeOK, next
    <2>2. uint32_t' = uint32_t
          BY DEF uint32_t
    <2> QED BY <1>1, <1>2, <2>1, <2>2 DEF StartTypeOK
  <1>6. at'[p] = "pushing" /\ ip'[p] = next /\ end_'[p] = end_[p]
        /\ free_'[p] = Append(free_[p], ip[p])
        BY <1>1, <1>2 DEF StartTypeOK, next
  <1>7. \A q \in Servers \ {p} :
            ip'[q] = ip[q] /\ end_'[q] = end_[q] /\ free_'[q] = free_[q]
        BY <1>1 DEF StartTypeOK
  <1>8. ASSUME end_[p] < UINT32_MAX
        PROVE  /\ next \in FirstOf(p) .. end_[p] + 1
               /\ Append(free_[p], ip[p]) = [i \in 1 .. next - FirstOf(p) |-> FirstOf(p) + i - 1]
    <2> DEFINE f == FirstOf(p)
               n == ip[p]
    <2>1. /\ n \in f .. end_[p] + 1 /\ next = n + 1
          /\ free_[p] = [i \in 1 .. n - f |-> f + i - 1]
          BY <1>1, <1>4, <1>8 DEF Pushed, Pushing
    <2>2. f \in Nat
      <3>1. Address(p, "IpPoolFrom") \in Ips
            BY <1>1 DEF Pushed, Pushing
      <3> QED BY <3>1, Numbering DEF FirstOf
    <2>3. n \in Nat /\ n >= f /\ n <= end_[p] /\ n - f \in Nat /\ end_[p] \in Nat
          BY <1>1, <1>2, <1>3, <2>1, <2>2
    <2> HIDE DEF f, n
    <2>4. Append([i \in 1 .. n - f |-> f + i - 1], n) = [i \in 1 .. (n + 1) - f |-> f + i - 1]
      <3> DEFINE s == [i \in 1 .. n - f |-> f + i - 1]
                 t == [i \in 1 .. (n + 1) - f |-> f + i - 1]
      <3>1. s \in Seq(Nat) /\ Len(s) = n - f
            BY <2>2, <2>3
      <3>2. t \in Seq(Nat) /\ Len(t) = (n + 1) - f
            BY <2>2, <2>3
      <3>3. Append(s, n) \in Seq(Nat) /\ Len(Append(s, n)) = (n - f) + 1
            /\ Append(s, n)[(n - f) + 1] = n
            /\ \A i \in 1 .. n - f : Append(s, n)[i] = s[i]
        <4> HIDE DEF s
        <4> QED BY <2>3, <3>1, AppendProperties
      <3>4. ASSUME NEW i \in 1 .. (n - f) + 1 PROVE Append(s, n)[i] = t[i]
        <4>1. t[i] = f + i - 1
              BY <2>2, <2>3
        <4>2. CASE i = (n - f) + 1
              BY <2>2, <2>3, <3>3, <4>1, <4>2
        <4>3. CASE i \in 1 .. n - f
          <5>1. s[i] = f + i - 1
                BY <4>3
          <5> HIDE DEF s, t
          <5> QED BY <3>3, <4>1, <4>3, <5>1
        <4> QED BY <2>3, <4>2, <4>3
      <3> HIDE DEF s, t
      <3>5. (n - f) + 1 = (n + 1) - f
            BY <2>2, <2>3
      <3>6. Append(s, n) = t
            BY <3>2, <3>3, <3>4, <3>5, SeqEqual
      <3> QED BY <3>6 DEF s, t
    <2>5. next \in f .. end_[p] + 1
          BY <2>1, <2>2, <2>3
    <2> QED BY <2>1, <2>4, <2>5 DEF f, n
  <1>9. Pushed(p)'
    <2>1. /\ Address(p, "IpPoolFrom") \in Ips /\ Address(p, "IpPoolTo") \in Ips
          /\ FirstOf(p) <= LastOf(p) /\ end_[p] = LastOf(p)
          BY <1>1 DEF Pushed, Pushing
    <2> QED BY <1>1, <1>6, <1>8, <2>1, SameAddresses, ZenonT(30) DEF Pushed, Pushing
  <1> QED BY <1>1, <1>2, <1>5, <1>7, <1>9, MainStep

\* The steps that leave the loop, and Start.
LEMMA ServerLeaves ==
    ASSUME StartInv, NEW p \in Servers,
           PushThrows(p) \/ Constructed(p) \/ StartServer(p)
    PROVE  StartInv'
  <1>1. /\ StartTypeOK /\ Loaded /\ Pushed(p) /\ UNCHANGED configVars
        /\ ip' = ip /\ end_' = end_ /\ free_' = free_ /\ asked' = asked
        BY DEF StartInv, PushThrows, Constructed, StartServer
  <1>2. p \in Processes /\ p \notin Clients
        BY Members
  <1>3. PICK from, to : /\ Step(p, from, to)
                        /\ <<from, to>> \in {<<"pushing", "failed">>, <<"pushing", "built">>,
                                             <<"built", "failed">>, <<"built", "up">>}
                        /\ to = "built" => ~InRange(p)
        BY DEF PushThrows, Constructed, StartServer
  <1>4. at[p] = from /\ at' = [at EXCEPT ![p] = to] /\ at'[p] = to
        BY <1>1, <1>2, <1>3 DEF Step, StartTypeOK
  <1>5. StartTypeOK'
    <2>1. uint32_t' = uint32_t
          BY DEF uint32_t
    <2> QED BY <1>1, <1>2, <1>3, <1>4, <2>1 DEF StartTypeOK
  <1>6. to = "built" => end_[p] < ip[p]
    <2>1. end_[p] \in uint32_t /\ ip[p] \in uint32_t
          BY <1>1 DEF StartTypeOK
    <2>2. end_[p] \in Nat /\ ip[p] \in Nat
          BY <2>1, Numbering
    <2> QED BY <1>3, <2>2 DEF InRange
  <1>7. Pushed(p)'
        BY <1>1, <1>3, <1>4, <1>6, SameAddresses DEF Pushed, Pushing
  <1> QED BY <1>1, <1>2, <1>3, <1>5, <1>7, MainStep

\* Client::Start
LEMMA StartClientKeeps ==
    ASSUME StartInv, NEW p \in Clients, StartClient(p)
    PROVE  StartInv'
  <1> DEFINE to == IF Address(p, "ServerIp") = Invalid THEN "failed" ELSE "up"
             answer == Address(p, "ServerIp") # Invalid /\ Asks(p)
  <1>1. /\ StartTypeOK /\ Loaded /\ UNCHANGED configVars
        /\ Step(p, "main", to) /\ at' = [at EXCEPT ![p] = to]
        /\ asked' = [asked EXCEPT ![p] = answer]
        /\ ip' = ip /\ end_' = end_ /\ free_' = free_
        BY DEF StartInv, StartClient, Step
  <1>2. p \in Processes /\ p \notin Servers
        BY Members
  <1>3. to \in {"failed", "up"} /\ (to = "up" => Address(p, "ServerIp") # Invalid)
        OBVIOUS
  <1>4. to = "up" => answer = Asks(p)
        BY Zenon DEF Asks
  <1> HIDE DEF to, answer
  <1>5. at'[p] = to /\ asked'[p] = answer /\ \A q \in Clients \ {p} : asked'[q] = asked[q]
        BY <1>1, <1>2 DEF StartTypeOK
  <1>6. StartTypeOK'
    <2>1. uint32_t' = uint32_t
          BY DEF uint32_t
    <2> QED BY <1>1, <1>2, <1>3, <2>1 DEF StartTypeOK
  <1>7. Asked(p)'
        BY <1>1, <1>3, <1>4, <1>5, SameAddresses DEF Asked
  <1> QED BY <1>1, <1>2, <1>5, <1>6, <1>7, MainStep

\* A step of Startup is one of Config, or leaves it alone.
LEMMA StepsOfConfig == [Next]_vars => [ConfigNext]_configVars
  <1> SUFFICES ASSUME [Next]_vars PROVE [ConfigNext]_configVars
      OBVIOUS
  <1>1. ASSUME NEW p \in Processes, InitProcess(p) PROVE ConfigNext
        BY <1>1 DEF ConfigNext
  <1>2. ASSUME NEW p \in Processes, EndProcess(p) PROVE ConfigNext
        BY <1>2 DEF ConfigNext, EndProcess
  <1>3. ASSUME NEW k \in Keys, NEW text \in Texts \cup {Missing}, Edit(k, text) PROVE ConfigNext
        BY <1>3 DEF ConfigNext
  <1>4. ASSUME NEW p \in Servers,
               Construct(p) \/ Push(p) \/ PushThrows(p) \/ Constructed(p) \/ StartServer(p)
        PROVE  UNCHANGED configVars
        BY <1>4 DEF Construct, Push, PushThrows, Constructed, StartServer
  <1>5. ASSUME NEW p \in Clients, StartClient(p) PROVE UNCHANGED configVars
        BY <1>5 DEF StartClient
  <1>6. ASSUME UNCHANGED vars PROVE UNCHANGED configVars
        BY <1>6 DEF vars
  <1> QED BY <1>1, <1>2, <1>3, <1>4, <1>5, <1>6 DEF Next

LEMMA StartNextInv == ConfigInv /\ StartInv /\ [Next]_vars => StartInv'
  <1> SUFFICES ASSUME ConfigInv, StartInv, [Next]_vars PROVE StartInv'
      OBVIOUS
  <1>1. ConfigTypeOK'
        BY StepsOfConfig, ConfigNextInv DEF ConfigInv
  <1>2. ASSUME NEW p \in Processes, InitProcess(p), UNCHANGED ownVars PROVE StartInv'
        BY <1>1, <1>2, InitProcessKeeps
  <1>3. ASSUME NEW p \in Processes, EndProcess(p) PROVE StartInv'
        BY <1>1, <1>3, EndProcessKeeps
  <1>4. ASSUME UNCHANGED <<proc, settings, ownVars>> PROVE StartInv'
    <2>1. /\ StartTypeOK /\ Loaded
          /\ \A q \in Servers : Pushed(q)
          /\ \A q \in Clients : Asked(q)
          /\ at' = at /\ ip' = ip /\ end_' = end_ /\ free_' = free_ /\ asked' = asked
          /\ proc' = proc /\ settings' = settings
          BY <1>4 DEF StartInv, ownVars
    <2>2. StartTypeOK' /\ Loaded'
          BY <2>1 DEF StartTypeOK, uint32_t, Loaded
    <2> QED BY <1>1, <2>1, <2>2, Members, Unmoved DEF StartInv
  <1>5. ASSUME NEW k \in Keys, NEW text \in Texts \cup {Missing}, Edit(k, text), UNCHANGED ownVars
        PROVE  StartInv'
        BY <1>4, <1>5 DEF Edit
  <1>6. ASSUME NEW p \in Servers,
               Construct(p) \/ Push(p) \/ PushThrows(p) \/ Constructed(p) \/ StartServer(p)
        PROVE  StartInv'
        BY <1>6, ConstructKeeps, PushKeeps, ServerLeaves
  <1>7. ASSUME NEW p \in Clients, StartClient(p) PROVE StartInv'
        BY <1>7, StartClientKeeps
  <1>8. ASSUME UNCHANGED vars PROVE StartInv'
        BY <1>4, <1>8 DEF vars, configVars
  <1> QED BY <1>2, <1>3, <1>5, <1>6, <1>7, <1>8 DEF Next

LEMMA StartAlways == Spec => [](ConfigInv /\ StartInv)
  <1>1. Init => ConfigInv /\ StartInv
        BY StartInitInv, ConfigInitInv DEF Init
  <1>2. ConfigInv /\ StartInv /\ [Next]_vars => (ConfigInv /\ StartInv)'
        BY StepsOfConfig, ConfigNextInv, StartNextInv
  <1> QED BY <1>1, <1>2, PTL DEF Spec

----------------------------------------------------------------------------

\* The processes with their main parts are processes of Config, ...
THEOREM StartupIsConfig == Spec => ConfigSpec
  <1>1. Init => ConfigInit
        BY DEF Init
  <1> QED BY <1>1, StepsOfConfig, PTL DEF Spec, ConfigSpec

\* ... so that what was written once is found again by them, too, unless a
\* disturbance came between (SettingsSurvive).
THEOREM SettingsSurviveStart == Spec => []SettingsSurvive
  <1> QED BY StartupIsConfig, ConfigSurvives, PTL

\* What IpPool assumes of htonl is so if htonl reverses the octets.
THEOREM SwapsBytes ==
    ASSUME NEW p, NEW start, NEW end
    PROVE  Pool(p, start, end)!IsByteSwap
  <1>1. htonl \in [Ips -> Ips]
        BY UtilsAssumption, Zenon DEF UtilsAssumption
  <1> QED BY <1>1, Numbering DEF ntohl, uint32_t, Pool!IsByteSwap, Pool!uint32_t

\* A server that is up has the pool IpPool starts with, for a range IpPool can
\* work on: for any range, size of addresses, and number of processes.
THEOREM ServersHaveTheirPools == Spec => []ServerHasItsPool
  <1>1. StartInv => ServerHasItsPool
    <2> SUFFICES ASSUME StartInv, NEW p \in Servers, at[p] = "up"
                 PROVE  \E start, end \in uint32_t :
                           /\ start = Address(p, "IpPoolFrom")
                           /\ end = Address(p, "IpPoolTo")
                           /\ Pool(p, start, end)!IsRange
                           /\ Pool(p, start, end)!Init
        BY DEF ServerHasItsPool
    <2>1. StartTypeOK /\ Pushed(p)
          BY DEF StartInv
    <2>2. PICK from \in uint32_t, to \in uint32_t :
             from = Address(p, "IpPoolFrom") /\ to = Address(p, "IpPoolTo")
          BY <2>1, Numbering DEF Pushed, Pushing
    <2>3. FirstOf(p) = ntohl[from] /\ LastOf(p) = ntohl[to]
          BY <2>2 DEF FirstOf, LastOf
    <2>4. FirstOf(p) \in Nat /\ LastOf(p) \in Nat
          BY <2>2, <2>3, Numbering
    <2>5. ip[p] \in Nat /\ ip[p] <= UINT32_MAX /\ end_[p] \in Nat /\ UINT32_MAX \in Nat
          BY <2>1, Numbering DEF StartTypeOK
    <2>6. FirstOf(p) <= LastOf(p) /\ end_[p] = LastOf(p) /\ end_[p] < ip[p]
          BY <2>1 DEF Pushed, Pushing
    <2>7. end_[p] < UINT32_MAX
          BY <2>5, <2>6
    <2>8. /\ ip[p] \in FirstOf(p) .. end_[p] + 1
          /\ free_[p] = [i \in 1 .. ip[p] - FirstOf(p) |-> FirstOf(p) + i - 1]
          BY <2>1, <2>7 DEF Pushed, Pushing
    <2>9. ip[p] - FirstOf(p) = LastOf(p) - FirstOf(p) + 1
          BY <2>4, <2>5, <2>6, <2>8
    <2>10. Pool(p, from, to)!start_ = FirstOf(p) /\ Pool(p, from, to)!end_ = LastOf(p)
          BY <2>3 DEF Pool!start_, Pool!end_, Pool!ntohl, ntohl
    <2>11. Pool(p, from, to)!IsRange
          BY <2>2, <2>6, <2>7, <2>10 DEF Pool!IsRange, Pool!uint32_t, uint32_t
    <2>12. Pool(p, from, to)!Init
          BY <2>8, <2>9, <2>10 DEF Pool!Init
    <2> QED BY <2>2, <2>11, <2>12
  <1> QED BY <1>1, StartAlways, PTL

\* A client that is up has asked to be let in if and only if the address is
\* spelt the way it is printed: for addresses of any size, spelt in any way.
THEOREM ClientsAskIfPlain == Spec => []AsksIfPlain
  <1>1. StartInv => AsksIfPlain
    <2> SUFFICES ASSUME StartInv, NEW p \in Clients, at[p] = "up"
                 PROVE  asked[p] <=> Plain(settings[p]["ServerIp"])
        BY DEF AsksIfPlain
    <2> DEFINE text == settings[p]["ServerIp"]
    <2>1. FromString(text) # Invalid /\ asked[p] = (ToString(FromString(text)) = text)
          BY DEF StartInv, Asked, Asks, Address
    <2>2. text \in Texts
      <3>1. Loaded /\ p \in Processes /\ at[p] # "main"
            BY Members DEF StartInv
      <3>2. proc[p] = "ready"
            BY <3>1 DEF Loaded
      <3> QED BY <3>1, <3>2, Addresses
    <2>3. text \in Characters
          BY <2>2, Numbering
    <2> HIDE DEF text
    <2>4. ToString(FromString(text)) = text <=> Plain(text)
          BY <2>1, <2>3, PlainIffPrinted
    <2> QED BY <2>1, <2>4 DEF text
  <1> QED BY <1>1, StartAlways, PTL

\* Every text reads as Utils says.
THEOREM TextsReadBack == Spec => []AddressesReadBack
  <1>1. AddressesReadBack
        BY ReadsRight DEF AddressesReadBack
  <1> QED BY <1>1, PTL

=============================================================================
