-------------------------------- MODULE TUN ---------------------------------
(***************************************************************************)
(* lib/TUN: the TUN device and the thread that receives its packets, as    *)
(* TUNLinux and TUNWindows implement it.  No call checks what the one      *)
(* before it made of the device: what is done without one is undefined.    *)
(***************************************************************************)

VARIABLES
    blocking,       \* never changes: TUNLinux waits in select, without a
                    \* timeout; TUNWindows asks for a packet every 10 ms
    device,         \* not tried (none), not there (absent), a descriptor or an
                    \* adapter (open), with a Wintun session on top (session),
                    \* closed, or its session ended (ended)
    running,
    receiverThread  \* at the while (looping), for a packet (waiting), in the
                    \* callback (handling)

Init ==
    /\ blocking \in BOOLEAN
    /\ device = "none"
    /\ running = FALSE
    /\ receiverThread = "none"

\* The constructor: InitializeTun; InitializeWintun and CreateAdapter.  When it
\* fails, what there is is cleaned up and the object is there all the same.
Construct ==
    /\ device' \in {"open", "absent"}
    /\ UNCHANGED <<blocking, running, receiverThread>>

\* Wintun's functions are called through pointers that GetProcAddress set; they
\* are null, or lead into a library that was freed, if there is no adapter.
StartCrashes == ~running /\ ~blocking /\ device = "absent"

\* SetupTun, or SetupAdapter and SetupSession; their results are not looked at.
Start ==
    /\ UNCHANGED blocking
    /\ IF running THEN UNCHANGED <<device, running, receiverThread>>
       ELSE /\ ~StartCrashes
            /\ device' \in IF blocking THEN {device} ELSE {"session", device}
            /\ running' = TRUE
            /\ receiverThread' = "looping"

ThreadAt(from, to) ==
    /\ receiverThread = from
    /\ receiverThread' = to
    /\ UNCHANGED <<blocking, device, running>>

\* FD_SET of a descriptor, WintunReceivePacket from a session.
Receives == device = IF blocking THEN "open" ELSE "session"

Test == ThreadAt("looping", IF running THEN "waiting" ELSE "ended")

\* On Linux select may return and read give nothing.
Packet ==
    /\ Receives
    /\ ThreadAt("waiting", "handling") \/ (blocking /\ ThreadAt("waiting", "looping"))

Handled == ThreadAt("handling", "looping")

\* WintunReceivePacket: no more items, or an error that ends the thread.
NoPacket == ~blocking /\ ThreadAt("waiting", "looping")
ReceiverFails == ~blocking /\ ThreadAt("waiting", "ended")

\* FD_SET(-1), which _FORTIFY_SOURCE turns into an abort; no session.
ReceiveMayCrash == receiverThread = "waiting" /\ ~Receives

\* TUNLinux asks for a descriptor before it writes; TUNWindows for nothing.
SendMayCrash == ~blocking /\ device # "session"

StopSignals == running' = FALSE /\ UNCHANGED <<blocking, device, receiverThread>>

\* Stop, from join on: Cleanup, or WintunEndSession.
StopJoins ==
    /\ receiverThread \in {"none", "ended"}
    /\ receiverThread' = "none"
    /\ device' = IF device = (IF blocking THEN "open" ELSE "session") THEN "ended" ELSE device
    /\ UNCHANGED <<blocking, running>>

\* Session is not cleared: a second Stop ends it again.
StopMayCrash == receiverThread \in {"none", "ended"} /\ ~blocking /\ device = "ended"

=============================================================================
