----------------------------- MODULE SteamLoop ------------------------------
(***************************************************************************)
(* lib/SteamLoop: Steam's game server API and the thread that runs its     *)
(* callbacks.  A thread's value says where it is; "none" is a std::thread  *)
(* without one, "ended" one that waits to be joined.                       *)
(***************************************************************************)

VARIABLES
    running,
    runThread,    \* in RunLoop: at the while (looping), in RunCallbacks
                  \* (polling), in OnSteamConnected (setting, notifying)
    steam         \* between SteamGameServer_Init and SteamGameServer_Shutdown

Init ==
    /\ running = FALSE
    /\ runThread = "none"
    /\ steam = "down"

Start ==
    /\ ~running
    /\ running' = TRUE
    /\ steam' = "up"
    /\ runThread' = "looping"

\* SteamGameServer_Init fails; running stays set.
StartFails ==
    /\ ~running
    /\ running' = TRUE
    /\ UNCHANGED <<runThread, steam>>

ThreadAt(from, to) ==
    /\ runThread = from
    /\ runThread' = to
    /\ UNCHANGED <<running, steam>>

Test == ThreadAt("looping", IF running THEN "polling" ELSE "ended")
PollNothing == ThreadAt("polling", "looping")

\* Steam connects, or connects again after a loss: the callback of Start is
\* run, in two steps.
OnSteamConnected == ThreadAt("polling", "setting")
CallbackSets == ThreadAt("setting", "notifying")
CallbackNotifies == ThreadAt("notifying", "looping")

RunLoop == Test \/ PollNothing \/ CallbackSets \/ CallbackNotifies

StopSignals ==
    /\ running' = FALSE
    /\ UNCHANGED <<runThread, steam>>

\* Slip: shut down without waiting for the thread.
StopDetaching ==
    /\ steam' = "down"
    /\ UNCHANGED <<running, runThread>>

\* Stop, from join on.
StopJoins ==
    /\ runThread \in {"none", "ended"}
    /\ runThread' = "none"
    /\ steam' = "down"
    /\ UNCHANGED running

=============================================================================
