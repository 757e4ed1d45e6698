------------------------------- MODULE Config --------------------------------
(***************************************************************************)
(* include/lib/Config.h: the settings of a process, and config.txt, which  *)
(* every process started in the directory reads and writes over.           *)
(*                                                                         *)
(* The file has a line Key=Text for each key, or none; a file that is not  *)
(* there or empty has none at all.  It is shorter than a stream's buffer:  *)
(* Load reads it at once and Save writes it at once, but between opening   *)
(* (which empties it) and closing other processes run, or this one ends.   *)
(***************************************************************************)

CONSTANTS
    Processes,
    Keys,
    Texts,       \* what may stand behind a key's "="
    Missing,     \* there is no such line
    Throws,      \* std::stoul refuses a part of the GUID
    taken,       \* taken[k][text]: the value Load takes from a line of key k,
                 \* trimmed, Missing if it goes on without ("Invalid
                 \* AdapterGuid format"), or Throws
    Defaults,    \* what a process starts with: constants and a random GUID
    Tails        \* last lines of the file, as sets of their keys

\* What a process holds it writes so that Load takes it again.
ReadsBack(k, text) == text \in Texts /\ taken[k][text] = text

ASSUME ConfigAssumption ==
    /\ Missing \notin Texts \cup {Throws}
    /\ Throws \notin Texts
    /\ taken \in [Keys -> [Texts -> Texts \cup {Missing, Throws}]]
    /\ \A k \in Keys, text \in Texts :
          taken[k][text] \in Texts => ReadsBack(k, taken[k][text])
    /\ Defaults \subseteq [Keys -> Texts]
    /\ \A d \in Defaults, k \in Keys : ReadsBack(k, d[k])
    /\ Tails \subseteq SUBSET Keys

VARIABLES
    file,
    proc,         \* proc[p]: "absent", behind Load (opening), behind the
                  \* opening (writing), behind Init (ready, or failed)
    settings,     \* settings[p]: the static members of Config, if p lives
    kept,         \* history: what the file was last given to keep, by a user's
                  \* edit or else by the first process to write a line
    undisturbed   \* history: nothing of Disturbances has happened since

configVars == <<file, proc, settings, kept, undisturbed>>

Empty == [k \in Keys |-> Missing]
Reads(f, k) == IF f[k] = Missing THEN Missing ELSE taken[k][f[k]]
Complete(f) == \A k \in Keys : Reads(f, k) # Missing

Saving(p) == proc[p] \in {"opening", "writing"}
NobodySaves == \A p \in Processes : ~Saving(p)

----------------------------------------------------------------------------

ConfigInit ==
    /\ file = Empty
    /\ proc = [p \in Processes |-> "absent"]
    /\ settings = [p \in Processes |-> Empty]
    /\ kept = Empty
    /\ undisturbed = TRUE

Go(p, from, to) ==
    /\ proc[p] = from
    /\ proc' = [proc EXCEPT ![p] = to]

\* Disturbances: a process takes its own defaults for lines another one has
\* already made up its mind about, ...
Load(p, d) ==
    /\ Go(p, "absent", "opening")
    /\ \A k \in Keys : Reads(file, k) # Throws
    /\ settings' = [settings EXCEPT ![p] =
          [k \in Keys |-> IF Reads(file, k) = Missing THEN d[k] ELSE Reads(file, k)]]
    /\ undisturbed' = (undisturbed /\ (NobodySaves \/ Complete(file)))
    /\ UNCHANGED <<file, kept>>

\* ... or goes on without a file that is there but cannot be opened ("Config
\* file not found"), ...
LoadUnopened(p, d) ==
    /\ Go(p, "absent", "opening")
    /\ file # Empty
    /\ settings' = [settings EXCEPT ![p] = d]
    /\ undisturbed' = FALSE
    /\ UNCHANGED <<file, kept>>

\* Slip: the exception is caught around Load, and Init goes on to Save.
LoadCatching(p) ==
    /\ Go(p, "absent", "opening")
    /\ \E k \in Keys : Reads(file, k) = Throws
    /\ \E d \in Defaults : settings' = [settings EXCEPT ![p] = d]
    /\ UNCHANGED <<file, kept, undisturbed>>

\* The exception leaves Init before Save.
LoadThrows(p) ==
    /\ Go(p, "absent", "failed")
    /\ \E k \in Keys : Reads(file, k) = Throws
    /\ UNCHANGED <<file, settings, kept, undisturbed>>

\* std::ios::trunc
Open(p) ==
    /\ Go(p, "opening", "writing")
    /\ file' = Empty
    /\ UNCHANGED <<settings, kept, undisturbed>>

\* "Failed to save config to config.txt"
OpenFails(p) ==
    /\ Go(p, "opening", "ready")
    /\ UNCHANGED <<file, settings, kept, undisturbed>>

\* Another process may have written since Open: if it wrote more, its last
\* lines stay behind this one's.
Write(p, tail) ==
    /\ Go(p, "writing", "ready")
    /\ \A k \in tail : file[k] # Missing
    /\ file' = [k \in Keys |-> IF k \in tail THEN file[k] ELSE settings[p][k]]
    /\ kept' = [k \in Keys |-> IF kept[k] = Missing THEN settings[p][k] ELSE kept[k]]
    /\ UNCHANGED <<settings, undisturbed>>

\* ... a process ends after Open and before Write, ...
Crash(p) ==
    /\ Saving(p)
    /\ Go(p, proc[p], "absent")
    /\ settings' = [settings EXCEPT ![p] = Empty]
    /\ undisturbed' = (undisturbed /\ proc[p] # "writing")
    /\ UNCHANGED <<file, kept>>

End(p) ==
    /\ Go(p, "ready", "absent") \/ Go(p, "failed", "absent")
    /\ settings' = [settings EXCEPT ![p] = Empty]
    /\ UNCHANGED <<file, kept, undisturbed>>

\* ... or a user edits a line while a process is about to write over it.
Edit(k, text) ==
    /\ file' = [file EXCEPT ![k] = text]
    /\ kept' = [i \in Keys |-> Reads(file', i)]
    /\ undisturbed' = NobodySaves
    /\ UNCHANGED <<proc, settings>>

InitProcess(p) ==
    \/ \E d \in Defaults : Load(p, d) \/ LoadUnopened(p, d)
    \/ LoadThrows(p)
    \/ Open(p)
    \/ OpenFails(p)
    \/ \E tail \in Tails : Write(p, tail)
    \/ Crash(p)

ConfigNext ==
    \/ \E p \in Processes : InitProcess(p) \/ End(p)
    \/ \E k \in Keys, text \in Texts \cup {Missing} : Edit(k, text)

ConfigSpec == ConfigInit /\ [][ConfigNext]_configVars

----------------------------------------------------------------------------
(* What must hold.                                                         *)

\* What a user wrote, and the GUID the first process chose, is what the next
\* process will find, though every process throws the file away to write it
\* anew and several may do so at once, and though a line may be one that Load
\* ignores or throws at.  What it takes to lose a setting is a disturbance.
SettingsSurvive ==
    undisturbed /\ (\A p \in Processes : proc[p] # "writing") =>
        \A k \in Keys : Reads(file, k) = kept[k]

=============================================================================
