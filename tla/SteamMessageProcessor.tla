----------------------- MODULE SteamMessageProcessor ------------------------
(***************************************************************************)
(* lib/SteamMessageProcessor: one thread for each channel, that receives   *)
(* Steam's messages and hands them to the Client or Server.  The batch of  *)
(* up to ten messages a call returns is one message here.                  *)
(***************************************************************************)

CONSTANT Channels

VARIABLES
    running,
    threads     \* threads[c]: in ReceiveDataLoop, at the while (looping), in
                \* ReceiveMessagesOnChannel (receiving) or in the callback

Init ==
    /\ running = FALSE
    /\ threads = [c \in Channels |-> "none"]

Start ==
    /\ ~running
    /\ running' = TRUE
    /\ threads' = [c \in Channels |-> "looping"]

ThreadAt(c, from, to) ==
    /\ threads[c] = from
    /\ threads' = [threads EXCEPT ![c] = to]
    /\ UNCHANGED running

\* Slip: while (true).
TestNothing(c) == ThreadAt(c, "looping", "receiving")

Test(c) == ThreadAt(c, "looping", IF running THEN "receiving" ELSE "ended")
ReceiveNothing(c) == ThreadAt(c, "receiving", "looping")
Receive(c) == ThreadAt(c, "receiving", "handling")
Handled(c) == ThreadAt(c, "handling", "looping")

StopSignals == running' = FALSE /\ UNCHANGED threads

\* Slip: the thread is left to itself.
StopDetaches(c) == UNCHANGED <<running, threads>>

StopJoins(c) ==
    /\ threads[c] \in {"none", "ended"}
    /\ threads' = [threads EXCEPT ![c] = "none"]
    /\ UNCHANGED running

=============================================================================
