--------------------------- MODULE AutomaticMain ----------------------------
(***************************************************************************)
(* app/AutomaticMain: the life of a process, from its arguments through    *)
(* client_start or server_start to its end, with the threads it starts.    *)
(*                                                                         *)
(* The main thread waits for callbacks of other threads on a condition     *)
(* variable (phase 1: Steam is connected; phase 2, client only: the        *)
(* handshake has come).  The callbacks set mtxReady and notify without     *)
(* taking mtx.  Then it stops what it started, step by step: main.next is  *)
(* the next of the calls of Quitting, destructors included.                *)
(***************************************************************************)
EXTENDS Integers, Sequences

VARIABLES
    main,         \* the main thread
    mtxReady,
    fresh,        \* history: who has set mtxReady since the phase began
    loopRunning, runThread, steam,           \* SteamLoop
    recvRunning, threads,                    \* SteamMessageProcessor
    blocking, device, tunRunning, receiverThread,    \* TUN
    isServer,     \* server_start or client_start; never changes
    pingThread    \* of Server

Channels == {"Message", "System"}

loop == INSTANCE SteamLoop WITH running <- loopRunning
recv == INSTANCE SteamMessageProcessor WITH running <- recvRunning
tunDev == INSTANCE TUN WITH running <- tunRunning

wait == <<main, mtxReady, fresh>>
loopVars == <<loopRunning, runThread, steam>>
recvVars == <<recvRunning, threads>>
tunVars == <<blocking, device, tunRunning, receiverThread>>
server == <<isServer, pingThread>>
others == <<loopVars, recvVars, tunVars, server>>
vars == <<wait, others>>

Init ==
    /\ main = [pc |-> "args"]
    /\ mtxReady = FALSE
    /\ fresh = {}
    /\ loop!Init
    /\ recv!Init
    /\ tunDev!Init
    /\ isServer \in BOOLEAN
    /\ pingThread = "none"

----------------------------------------------------------------------------
(* The callbacks.  A notification wakes the main thread if it is blocked.  *)

Set(who) ==
    /\ mtxReady' = TRUE
    /\ fresh' = fresh \cup {who}
    /\ UNCHANGED main

Notify ==
    /\ main' = IF main.pc = "blocked" THEN [main EXCEPT !.pc = "check"] ELSE main
    /\ UNCHANGED <<mtxReady, fresh>>

LoopThread ==
    /\ \/ loop!Test /\ UNCHANGED wait
       \/ loop!PollNothing /\ UNCHANGED wait
       \/ loop!CallbackSets /\ Set("steam")
       \/ loop!CallbackNotifies /\ Notify
    /\ UNCHANGED <<recvVars, tunVars, server>>

SteamConnects ==
    /\ loop!OnSteamConnected
    /\ UNCHANGED <<wait, recvVars, tunVars, server>>

ReceiverThread(c) ==
    /\ recv!Test(c) \/ recv!ReceiveNothing(c) \/ recv!Handled(c)
    /\ UNCHANGED <<wait, loopVars, tunVars, server>>

MessageComes(c) ==
    /\ recv!Receive(c)
    /\ UNCHANGED <<wait, loopVars, tunVars, server>>

\* A handshake is received, by a client and once: the callback, then
\* tunMessageProcessor.Start, then Client::mtx_ready is set.
HandshakeComes ==
    /\ ~isServer
    /\ ~tunRunning
    /\ recv!ThreadAt("System", "receiving", "setting")
    /\ UNCHANGED <<wait, loopVars, tunVars, server>>

HandshakeThread ==
    /\ \/ recv!ThreadAt("System", "setting", "notifying") /\ Set("handshake")
       \/ recv!ThreadAt("System", "notifying", "starting") /\ Notify
       \/ recv!ThreadAt("System", "starting", "readying") /\ UNCHANGED wait
       \/ recv!ThreadAt("System", "readying", "handling") /\ UNCHANGED wait
    /\ IF threads["System"] = "starting" THEN tunDev!Start
       ELSE UNCHANGED tunVars
    /\ UNCHANGED <<loopVars, server>>

TunThread ==
    /\ \/ tunDev!Test
       \/ tunDev!NoPacket
       \/ tunDev!ReceiverFails
       \/ tunDev!Handled
    /\ UNCHANGED <<wait, loopVars, recvVars, server>>

TunPacketComes ==
    /\ tunDev!Packet
    /\ UNCHANGED <<wait, loopVars, recvVars, server>>

\* Server::running is never cleared: PingLoop goes on.
PingLoop ==
    /\ pingThread # "none"
    /\ pingThread' = IF pingThread = "sleeping" THEN "sending" ELSE "sleeping"
    /\ UNCHANGED <<isServer, wait, loopVars, recvVars, tunVars>>

----------------------------------------------------------------------------
(* The end of the process, expected or not.                                *)

ProcessEnds(how) ==
    /\ main' = [pc |-> how]
    /\ runThread' = "none" /\ steam' = "down"
    /\ threads' = [c \in Channels |-> "none"]
    /\ receiverThread' = "none"
    /\ pingThread' = "none"
    /\ UNCHANGED <<mtxReady, fresh, loopRunning, recvRunning, blocking, device,
                   tunRunning, isServer>>

\* Next of the calls on the way out.
LoopStop == <<"SteamLoop::running", "SteamLoop::join">>

\* Slip: the device is stopped before the threads that send to it.
PeerStopTunFirst == <<"TUN::running", "TUN::join", "SteamMessageProcessor::running",
                      "join Message", "join System">>

PeerStop == <<"SteamMessageProcessor::running", "join Message", "join System",
              "TUN::running", "TUN::join">>

\* Stop is called for the loop and the peer, then the objects are destroyed in
\* the reverse order of their definition, and every destructor calls Stop again.
Quitting == LoopStop \o PeerStop \o PeerStop \o <<"~pingThread">> \o LoopStop

\* Where the way out begins: at the calls, at the peer's destructor, at the
\* loop's.
AtStops == 1
AtPeer == Len(LoopStop \o PeerStop) + 1
AtLoop == Len(Quitting) - Len(LoopStop) + 1

Out(i) == [pc |-> "call", next |-> i]
Calling(name) == main.pc = "call" /\ main.next <= Len(Quitting) /\ Quitting[main.next] = name

\* TUN::Start through a null pointer, in the server's main thread or in a
\* client's system receiver.
StartCrashes ==
    /\ tunDev!StartCrashes
    /\ threads["System"] = "starting" \/ (main.pc = "started" /\ isServer)
    /\ ProcessEnds("aborted")

\* What undefined behaviour, or an exception nobody catches, may do to the
\* process.  The exception is that of a client's TUN receiver on Linux, if 15
\* seconds pass between the start of the device and mtx_ready.
MayCrash ==
    /\ \/ tunDev!ReceiveMayCrash
       \/ tunDev!SendMayCrash /\ threads["Message"] = "handling"
       \/ tunDev!StopMayCrash /\ Calling("TUN::join")
       \/ blocking /\ ~isServer /\ receiverThread = "handling" /\ threads["System"] = "readying"
    /\ ProcessEnds("aborted")

----------------------------------------------------------------------------
(* The main thread: starting, and the two waits.                           *)

\* parse_args: exit(1), or std::stoull throws outside the try block.
ParseArgs ==
    /\ main.pc = "args"
    /\ main' \in {[pc |-> "config"], [pc |-> "exited"], [pc |-> "aborted"]}
    /\ UNCHANGED <<mtxReady, fresh, others>>

\* Config::Init; what it throws is caught.
ConfigInit ==
    /\ main.pc = "config"
    /\ main' \in {[pc |-> "init"], [pc |-> "returned"]}
    /\ UNCHANGED <<mtxReady, fresh, others>>

StartLoop ==
    /\ main.pc = "init"
    /\ \/ /\ loop!Start
          /\ main' = [pc |-> "reset", phase |-> 1]
       \/ /\ loop!StartFails
          /\ main' = Out(AtLoop)
    /\ UNCHANGED <<mtxReady, fresh, recvVars, tunVars, server>>

\* Slip: the second wait finds mtxReady as the first one left it.
ResetOnce ==
    /\ main.pc = "reset"
    /\ mtxReady' = (mtxReady /\ main.phase = 2)
    /\ main' = [main EXCEPT !.pc = "check"]
    /\ UNCHANGED <<fresh, others>>

\* mtxReady = false, after the thread that may set it has been started.
Reset ==
    /\ main.pc = "reset"
    /\ mtxReady' = FALSE
    /\ main' = [main EXCEPT !.pc = "check"]
    /\ UNCHANGED <<fresh, others>>

\* wait_for's predicate is false; then the thread blocks.
Unready ==
    /\ main.pc = "check"
    /\ ~mtxReady
    /\ main' = [main EXCEPT !.pc = "unready"]
    /\ UNCHANGED <<mtxReady, fresh, others>>

Block ==
    /\ main.pc = "unready"
    /\ main' = [main EXCEPT !.pc = "blocked"]
    /\ UNCHANGED <<mtxReady, fresh, others>>

\* Slip: wait, not wait_for.
TimeOutNever == FALSE /\ Block

\* The 10 seconds are over and mtxReady is false: "Failed to ...", return 1.
TimeOut ==
    /\ main.pc = "blocked"
    /\ ~mtxReady
    /\ main' = Out(IF main.phase = 1 THEN AtLoop ELSE AtPeer)
    /\ UNCHANGED <<mtxReady, fresh, others>>

\* mtxReady is true, before blocking, when woken, or when time is up.
WaitIsOver == main.pc \in {"check", "blocked"} /\ mtxReady

\* The Client or the Server is constructed; a Server's pool may throw.
Construct ==
    /\ WaitIsOver
    /\ main.phase = 1
    /\ fresh' = {}
    /\ \/ /\ tunDev!Construct
          /\ main' = [pc |-> "constructed"]
       \/ /\ isServer
          /\ main' = Out(AtLoop)
          /\ UNCHANGED tunVars
    /\ UNCHANGED <<mtxReady, loopVars, recvVars, server>>

\* Client::Start or Server::Start, in two steps.
StartReceivers ==
    /\ main.pc = "constructed"
    /\ recv!Start
    /\ main' = [pc |-> "started"]
    /\ UNCHANGED <<mtxReady, fresh, loopVars, tunVars, server>>

\* FromString(ServerIp) throws.
StartThrows ==
    /\ main.pc = "started"
    /\ main' = Out(AtPeer)
    /\ UNCHANGED <<mtxReady, fresh, others>>

\* JoinMember, and on to the second wait.
StartClient ==
    /\ main.pc = "started"
    /\ ~isServer
    /\ main' = [pc |-> "reset", phase |-> 2]
    /\ UNCHANGED <<mtxReady, fresh, others>>

StartServer ==
    /\ main.pc = "started"
    /\ isServer
    /\ tunDev!Start
    /\ pingThread' = "sleeping"
    /\ main' = [pc |-> "serving"]
    /\ UNCHANGED <<isServer, mtxReady, fresh, loopVars, recvVars>>

ClientReady ==
    /\ WaitIsOver
    /\ main.phase = 2
    /\ main' = [pc |-> "serving"]
    /\ UNCHANGED <<mtxReady, fresh, others>>

----------------------------------------------------------------------------
(* The main thread: stopping.                                              *)

\* "Press any key for exit..."
KeyPressed ==
    /\ main.pc = "serving"
    /\ main' = Out(AtStops)
    /\ UNCHANGED <<mtxReady, fresh, others>>

\* The next call of Stop's and the destructors' bodies.
Call(name) ==
    /\ Calling(name)
    /\ main' = [main EXCEPT !.next = @ + 1]
    /\ UNCHANGED <<mtxReady, fresh, server>>

StopLoop ==
    /\ \/ Call("SteamLoop::running") /\ loop!StopSignals
       \/ Call("SteamLoop::join") /\ loop!StopJoins
    /\ UNCHANGED <<recvVars, tunVars>>

StopReceivers ==
    /\ \/ Call("SteamMessageProcessor::running") /\ recv!StopSignals
       \/ Call("join Message") /\ recv!StopJoins("Message")
       \/ Call("join System") /\ recv!StopJoins("System")
    /\ UNCHANGED <<loopVars, tunVars>>

StopTun ==
    /\ \/ Call("TUN::running") /\ tunDev!StopSignals
       \/ Call("TUN::join") /\ tunDev!StopJoins
    /\ UNCHANGED <<loopVars, recvVars>>

\* The destructor of a joinable std::thread calls std::terminate.  (A Client has
\* no such member.)
DestroyPingThread ==
    \/ /\ Call("~pingThread")
       /\ pingThread = "none"
       /\ UNCHANGED <<loopVars, recvVars, tunVars>>
    \/ /\ Calling("~pingThread")
       /\ pingThread # "none"
       /\ ProcessEnds("terminated")

\* The function returns, or its exception is caught: "Press Enter to continue".
Return ==
    /\ main = Out(Len(Quitting) + 1)
    /\ main' = [pc |-> "returned"]
    /\ UNCHANGED <<mtxReady, fresh, others>>

EnterPressed ==
    /\ main.pc = "returned"
    /\ main' = [pc |-> "exited"]
    /\ UNCHANGED <<mtxReady, fresh, others>>

----------------------------------------------------------------------------

Starting ==
    \/ ParseArgs \/ ConfigInit \/ StartLoop
    \/ Reset \/ Unready \/ Block \/ TimeOut
    \/ Construct \/ StartReceivers \/ StartThrows \/ StartClient \/ StartServer
    \/ ClientReady

Stopping == StopLoop \/ StopReceivers \/ StopTun \/ DestroyPingThread \/ Return

Next ==
    \/ Starting
    \/ KeyPressed
    \/ Stopping
    \/ EnterPressed
    \/ StartCrashes
    \/ MayCrash
    \/ LoopThread
    \/ SteamConnects
    \/ \E c \in Channels : ReceiverThread(c) \/ MessageComes(c)
    \/ HandshakeComes
    \/ HandshakeThread
    \/ TunThread
    \/ TunPacketComes
    \/ PingLoop

Spec == Init /\ [][Next]_vars

\* The operating system runs every thread.  Steam's events, messages, packets
\* and keys are up to others, and undefined behaviour need not crash.
FairSpec ==
    /\ Spec
    /\ WF_vars(Starting)
    /\ WF_vars(Stopping)
    /\ WF_vars(StartCrashes)
    /\ WF_vars(LoopThread)
    /\ \A c \in Channels : WF_vars(ReceiverThread(c))
    /\ WF_vars(HandshakeThread)
    /\ WF_vars(TunThread)

----------------------------------------------------------------------------
(* What must hold.                                                         *)

\* The Steam API is up whenever the callback thread is inside it or inside a
\* callback: Stop shuts it down only behind the join, in every order of calls.
LoopRunsOnSteam ==
    runThread \in {"polling", "setting", "notifying"} => steam = "up"

\* When the function has returned or thrown, no thread is left that calls back
\* into its frame: not the callback thread, which has references to mtxReady and
\* cv, and none of the Client's or Server's threads, whichever of the steps of
\* starting them the exception or the timeout came between.
NoThreadOutlivesFrame ==
    main.pc \in {"returned", "exited"} =>
        /\ runThread = "none"
        /\ \A c \in Channels : threads[c] = "none"
        /\ receiverThread = "none"
        /\ pingThread = "none"

\* A device is closed, a session ended, only when the receiver of its packets is
\* gone, the receiver that writes to it, and the one whose handshake starts it.
DeviceOutlivesItsUsers ==
    device = "ended" =>
        receiverThread = "none" /\ \A c \in Channels : threads[c] = "none"

\* A wait is passed only on a callback that ran since its phase began: none is
\* passed on what the phase before left behind.
PassedOnFreshSignal ==
    [][Construct \/ ClientReady => fresh # {}]_vars

\* The main thread comes to a decision, with a notification lost before it
\* blocked or with none at all.
WaitIsDecided ==
    main.pc \in {"reset", "check", "unready", "blocked"}
        ~> main.pc \in {"constructed", "serving", "call", "aborted"}

\* After a key or a failed start, everything is stopped and the function ends.
\* Nothing else can hold the joins up but select in TUNLinux, which waits for
\* the device's next packet.
InSelect == Calling("TUN::join") /\ blocking /\ receiverThread = "waiting"

ExitStallsOnlyInSelect ==
    main.pc = "call" ~> main.pc \in {"returned", "terminated", "aborted"} \/ InSelect

=============================================================================
