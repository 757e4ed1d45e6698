----------------------------- MODULE MainProofs ------------------------------
(***************************************************************************)
(* What outlives what in a process, whichever way its main thread goes.    *)
(***************************************************************************)
EXTENDS AutomaticMain, TLAPS

Waits == {"reset", "check", "unready", "blocked"}

ThreadPlaces == {"none", "looping", "receiving", "setting", "notifying", "starting",
                 "readying", "handling", "ended"}

MainTypeOK ==
    /\ main.pc \in {"args", "config", "init", "constructed", "started", "serving", "returned",
                    "exited", "terminated", "aborted", "call"} \cup Waits
    /\ main.pc \in Waits => main \in [pc : Waits, phase : {1, 2}]
    /\ main.pc = "call" => main \in [pc : {"call"}, next : 1 .. 16]
    /\ threads \in [Channels -> ThreadPlaces]

NoPeer ==
    /\ threads["Message"] = "none"
    /\ threads["System"] = "none"
    /\ receiverThread = "none"
    /\ pingThread = "none"

\* Which threads there may be, by where the main thread is.
Early ==
    /\ main.pc \in {"args", "config", "init", "returned", "exited", "terminated", "aborted"} =>
          runThread = "none" /\ NoPeer
    /\ main.pc = "constructed" \/ (main.pc \in Waits /\ main.phase = 1) => NoPeer

\* What is behind the main thread on its way out has been joined, and stays so.
Late ==
    main.pc = "call" =>
        /\ main.next \in {5, 6, 7} \cup 10 .. 16 => threads["Message"] = "none"
        /\ main.next \in {6, 7} \cup 11 .. 16 => threads["System"] = "none"
        /\ main.next \in 13 .. 16 => receiverThread = "none"
        /\ main.next \in 14 .. 16 => pingThread = "none"
        /\ main.next = 16 => runThread = "none"

\* The device ends on the way out.
Ended ==
    device = "ended" =>
        /\ main.pc \in {"call", "returned", "exited", "terminated", "aborted"}
        /\ threads["Message"] = "none"
        /\ threads["System"] = "none"
        /\ receiverThread = "none"

Loop == runThread \notin {"none", "ended"} => steam = "up"

MainInv == MainTypeOK /\ Early /\ Late /\ Ended /\ Loop

----------------------------------------------------------------------------

Names == {"SteamLoop::running", "SteamLoop::join", "SteamMessageProcessor::running",
          "join Message", "join System", "TUN::running", "TUN::join", "~pingThread"}

\* One sequence of calls after another.
LEMMA Joined ==
    ASSUME NEW s \in Seq(Names), NEW t \in Seq(Names)
    PROVE  /\ s \o t \in Seq(Names)
           /\ Len(s \o t) = Len(s) + Len(t)
           /\ \A i \in 1 .. Len(s) : (s \o t)[i] = s[i]
           /\ \A i \in 1 .. Len(t) : (s \o t)[Len(s) + i] = t[i]
  OBVIOUS

\* The calls on the way out, by their numbers.
LEMMA Calls ==
    /\ Len(Quitting) = 15
    /\ AtStops = 1 /\ AtPeer = 8 /\ AtLoop = 14
    /\ Quitting[4] = "join Message" /\ Quitting[9] = "join Message"
    /\ Quitting[5] = "join System" /\ Quitting[10] = "join System"
    /\ Quitting[7] = "TUN::join" /\ Quitting[12] = "TUN::join"
    /\ Quitting[13] = "~pingThread" /\ Quitting[15] = "SteamLoop::join"
    /\ \A i \in 1 .. 15 : Quitting[i] = "TUN::join" => i \in {7, 12}
  <1> DEFINE a == LoopStop \o PeerStop
             b == a \o PeerStop
             p == <<"~pingThread">>
             c == b \o p
             q == c \o LoopStop
  <1> HIDE DEF a, b, c, p, q
  <1>1. /\ LoopStop \in Seq(Names) /\ Len(LoopStop) = 2
        /\ LoopStop[1] = "SteamLoop::running" /\ LoopStop[2] = "SteamLoop::join"
        BY DEF LoopStop, Names
  <1>2. PeerStop \in Seq(Names) /\ Len(PeerStop) = 5
        BY DEF PeerStop, Names
  <1>3. /\ PeerStop[1] = "SteamMessageProcessor::running"
        /\ PeerStop[2] = "join Message" /\ PeerStop[3] = "join System"
        /\ PeerStop[4] = "TUN::running" /\ PeerStop[5] = "TUN::join"
        BY DEF PeerStop
  <1>4. p \in Seq(Names) /\ Len(p) = 1 /\ p[1] = "~pingThread"
        BY DEF Names, p
  <1>5. /\ a \in Seq(Names) /\ Len(a) = Len(LoopStop) + Len(PeerStop)
        /\ \A i \in 1 .. Len(LoopStop) : a[i] = LoopStop[i]
        /\ \A i \in 1 .. Len(PeerStop) : a[Len(LoopStop) + i] = PeerStop[i]
        BY <1>1, <1>2, Joined DEF a
  <1>6. /\ a \in Seq(Names) /\ Len(a) = 7
        /\ \A i \in 1 .. 2 : a[i] = LoopStop[i]
        /\ \A i \in 3 .. 7 : a[i] = PeerStop[i - 2]
    <2>1. \A i \in 3 .. 7 : i - 2 \in 1 .. 5 /\ 2 + (i - 2) = i
          OBVIOUS
    <2> QED BY <1>1, <1>2, <1>5, <2>1
  <1>7. /\ b \in Seq(Names) /\ Len(b) = Len(a) + Len(PeerStop)
        /\ \A i \in 1 .. Len(a) : b[i] = a[i]
        /\ \A i \in 1 .. Len(PeerStop) : b[Len(a) + i] = PeerStop[i]
        BY <1>6, <1>2, Joined DEF b
  <1>8. /\ b \in Seq(Names) /\ Len(b) = 12
        /\ \A i \in 1 .. 7 : b[i] = a[i]
        /\ \A i \in 8 .. 12 : b[i] = PeerStop[i - 7]
    <2>1. \A i \in 8 .. 12 : i - 7 \in 1 .. 5 /\ 7 + (i - 7) = i
          OBVIOUS
    <2> QED BY <1>6, <1>2, <1>7, <2>1
  <1>9. /\ c \in Seq(Names) /\ Len(c) = Len(b) + Len(p)
        /\ \A i \in 1 .. Len(b) : c[i] = b[i]
        /\ \A i \in 1 .. Len(p) : c[Len(b) + i] = p[i]
        BY <1>8, <1>4, Joined DEF c
  <1>10. /\ c \in Seq(Names) /\ Len(c) = 13
         /\ \A i \in 1 .. 12 : c[i] = b[i]
         /\ \A i \in 13 .. 13 : c[i] = p[i - 12]
    <2>1. \A i \in 13 .. 13 : i - 12 \in 1 .. 1 /\ 12 + (i - 12) = i
          OBVIOUS
    <2> QED BY <1>8, <1>4, <1>9, <2>1
  <1>11. /\ q \in Seq(Names) /\ Len(q) = Len(c) + Len(LoopStop)
         /\ \A i \in 1 .. Len(c) : q[i] = c[i]
         /\ \A i \in 1 .. Len(LoopStop) : q[Len(c) + i] = LoopStop[i]
        BY <1>10, <1>1, Joined DEF q
  <1>12. /\ q \in Seq(Names) /\ Len(q) = 15
         /\ \A i \in 1 .. 13 : q[i] = c[i]
         /\ \A i \in 14 .. 15 : q[i] = LoopStop[i - 13]
    <2>1. \A i \in 14 .. 15 : i - 13 \in 1 .. 2 /\ 13 + (i - 13) = i
          OBVIOUS
    <2> QED BY <1>10, <1>1, <1>11, <2>1
  <1>13. Quitting = q
        BY DEF Quitting, a, b, c, p, q
  <1>14. Len(LoopStop \o PeerStop) = 7
        BY <1>6 DEF a
  <1>15. AtStops = 1 /\ AtPeer = 8 /\ AtLoop = 14
        BY <1>1, <1>12, <1>13, <1>14 DEF AtStops, AtPeer, AtLoop
  <1>16. /\ q[1] = LoopStop[1] /\ q[2] = LoopStop[2]
         /\ q[3] = PeerStop[1] /\ q[4] = PeerStop[2] /\ q[5] = PeerStop[3]
         /\ q[6] = PeerStop[4] /\ q[7] = PeerStop[5]
        BY <1>6, <1>8, <1>10, <1>12, SMTT(30)
  <1>17. /\ q[8] = PeerStop[1] /\ q[9] = PeerStop[2] /\ q[10] = PeerStop[3]
         /\ q[11] = PeerStop[4] /\ q[12] = PeerStop[5]
        BY <1>8, <1>10, <1>12
  <1>18. q[13] = p[1] /\ q[14] = LoopStop[1] /\ q[15] = LoopStop[2]
        BY <1>10, <1>12
  <1>19. \A i \in 1 .. 15 : i \in {1, 2, 3, 4, 5, 6, 7, 8, 9, 10, 11, 12, 13, 14, 15}
        OBVIOUS
  <1> QED BY <1>1, <1>3, <1>4, <1>12, <1>13, <1>15, <1>16, <1>17, <1>18, <1>19, ZenonT(30)

\* From one place of a wait to another.
LEMMA Waiting ==
    ASSUME main \in [pc : Waits, phase : {1, 2}], NEW to \in Waits
    PROVE  LET new == [main EXCEPT !.pc = to]
           IN  /\ new \in [pc : Waits, phase : {1, 2}]
               /\ new.pc = to
               /\ new.phase = main.phase
  OBVIOUS

\* Nothing has been started.
LEMMA MainInitInv == Init => MainInv
  BY DEF Init, MainInv, MainTypeOK, Early, Late, Ended, Loop, NoPeer, Channels,
         ThreadPlaces, Waits, loop!Init, recv!Init, tunDev!Init

\* The end of the process is the end of its threads.
LEMMA EndKeeps ==
    ASSUME MainInv, NEW how \in {"terminated", "aborted"}, ProcessEnds(how)
    PROVE  MainInv'
  BY DEF ProcessEnds, MainInv, MainTypeOK, Early, Late, Ended, Loop, NoPeer, Channels,
         ThreadPlaces, Waits

\* Threads other than the main thread end, go on or start the receiver of the
\* device, but they start no other thread; the device is as it was or has a
\* session.
OthersStep ==
    /\ main' = main \/ (main.pc = "blocked" /\ main' = [main EXCEPT !.pc = "check"])
    /\ runThread = "none" => runThread' = "none"
    /\ runThread' \in {"none", "ended"} \/ runThread' = runThread
          \/ runThread \notin {"none", "ended"}
    /\ steam' = steam
    /\ threads' \in [Channels -> ThreadPlaces]
    /\ \A c \in Channels : threads[c] = "none" => threads'[c] = "none"
    /\ receiverThread = "none" =>
          receiverThread' = "none" \/ threads["System"] # "none"
    /\ device' # "ended" \/ device' = device
    /\ pingThread = "none" => pingThread' = "none"

LEMMA OthersKeep ==
    ASSUME MainInv, OthersStep
    PROVE  MainInv'
  <1> USE DEF MainInv, OthersStep, Channels
  <1>1. MainTypeOK'
        BY DEF MainTypeOK, Waits
  <1>2. main'.pc = main.pc \/ (main.pc = "blocked" /\ main'.pc = "check")
        BY DEF MainTypeOK
  <1>3. main.pc \in Waits => main'.pc \in Waits /\ main'.phase = main.phase
        BY DEF MainTypeOK, Waits
  <1>4. main.pc \notin Waits => main' = main
        BY DEF Waits
  <1>5. NoPeer => NoPeer'
        BY DEF NoPeer
  <1>6. Early'
        BY <1>2, <1>3, <1>4, <1>5 DEF Early, Waits
  <1>7. Late'
        BY <1>2, <1>4 DEF Late, MainTypeOK, Waits
  <1>8. Ended'
        BY <1>2 DEF Ended
  <1>9. Loop'
        BY DEF Loop
  <1> QED BY <1>1, <1>6, <1>7, <1>8, <1>9

LEMMA LoopThreadKeeps ==
    ASSUME MainInv, LoopThread \/ SteamConnects
    PROVE  OthersStep
  <1> USE DEF MainInv, OthersStep, Channels, MainTypeOK, recvVars, tunVars, server, wait
  <1>1. CASE LoopThread
    <2>1. runThread \notin {"none", "ended"} /\ steam' = steam
          BY <1>1 DEF LoopThread, loop!Test, loop!PollNothing, loop!CallbackSets,
                      loop!CallbackNotifies, loop!ThreadAt
    <2>2. main' = main \/ (main.pc = "blocked" /\ main' = [main EXCEPT !.pc = "check"])
          BY <1>1 DEF LoopThread, Set, Notify
    <2> QED BY <1>1, <2>1, <2>2 DEF LoopThread
  <1>2. CASE SteamConnects
        BY <1>2 DEF SteamConnects, loop!OnSteamConnected, loop!ThreadAt
  <1> QED BY <1>1, <1>2

LEMMA ReceiversKeep ==
    ASSUME MainInv, NEW c \in Channels,
           ReceiverThread(c) \/ MessageComes(c) \/ HandshakeComes \/ HandshakeThread
    PROVE  OthersStep
  <1> USE DEF MainInv, MainTypeOK, ThreadPlaces
  <1> "System" \in Channels
      BY DEF Channels
  <1>1. PICK d \in Channels, from \in ThreadPlaces, to \in ThreadPlaces :
            /\ from # "none"
            /\ recv!ThreadAt(d, from, to)
    <2>1. CASE ReceiverThread(c) \/ MessageComes(c)
          BY <2>1 DEF ReceiverThread, MessageComes, recv!Test, recv!ReceiveNothing,
                      recv!Handled, recv!Receive
    <2>2. CASE HandshakeComes \/ HandshakeThread
          BY <2>2 DEF HandshakeComes, HandshakeThread
    <2> QED BY <2>1, <2>2
  <1>2. /\ threads' \in [Channels -> ThreadPlaces]
        /\ \A e \in Channels : threads[e] = "none" => threads'[e] = "none"
        BY <1>1 DEF recv!ThreadAt
  <1>3. main' = main \/ (main.pc = "blocked" /\ main' = [main EXCEPT !.pc = "check"])
        BY DEF ReceiverThread, MessageComes, HandshakeComes, HandshakeThread, Set, Notify, wait
  <1>4. runThread' = runThread /\ steam' = steam /\ pingThread' = pingThread
        BY DEF ReceiverThread, MessageComes, HandshakeComes, HandshakeThread, loopVars, server
  <1>5. \/ receiverThread' = receiverThread /\ device' = device
        \/ threads["System"] = "starting" /\ device' \in {device, "session"}
        BY DEF ReceiverThread, MessageComes, HandshakeComes, HandshakeThread, tunVars,
               tunDev!Start
  <1> QED BY <1>2, <1>3, <1>4, <1>5 DEF OthersStep

LEMMA TunThreadKeeps ==
    ASSUME MainInv, TunThread \/ TunPacketComes \/ PingLoop
    PROVE  OthersStep
  <1>1. CASE TunThread \/ TunPacketComes
    <2>1. receiverThread # "none" /\ device' = device
          BY <1>1 DEF TunThread, TunPacketComes, tunDev!Test, tunDev!NoPacket,
                      tunDev!ReceiverFails, tunDev!Handled, tunDev!Packet, tunDev!ThreadAt
    <2> QED BY <1>1, <2>1 DEF TunThread, TunPacketComes, wait, loopVars, recvVars, server,
                              OthersStep, MainInv, MainTypeOK
  <1>2. CASE PingLoop
        BY <1>2 DEF PingLoop, wait, loopVars, recvVars, tunVars, OthersStep, MainInv, MainTypeOK
  <1> QED BY <1>1, <1>2

Quiet == {"args", "config", "init", "returned", "exited", "terminated", "aborted"}

\* A step of the main thread alone, and what it must find where it goes.
MayGo ==
    /\ main'.pc \in Quiet \cup {"constructed", "started", "serving", "call"} \cup Waits
    /\ main'.pc \in Waits => main' \in [pc : Waits, phase : {1, 2}]
    /\ main'.pc = "call" =>
          main' \in [pc : {"call"}, next : {1, 8}] \/ (main' = Out(14) /\ NoPeer)
    /\ main'.pc \in Quiet => runThread = "none" /\ NoPeer
    /\ main'.pc = "constructed" \/ (main'.pc \in Waits /\ main'.phase = 1) => NoPeer
    /\ device = "ended" => main.pc = "returned" /\ main'.pc = "exited"

LEMMA MainGoes ==
    ASSUME MainInv, MayGo, UNCHANGED others
    PROVE  MainInv'
  <1> USE DEF MainInv
  <1>1. /\ threads' = threads /\ receiverThread' = receiverThread /\ pingThread' = pingThread
        /\ runThread' = runThread /\ steam' = steam /\ device' = device
        BY DEF others, loopVars, recvVars, tunVars, server
  <1>2. NoPeer' = NoPeer
        BY <1>1 DEF NoPeer
  <1>3. main'.pc = "call" =>
            /\ main' \in [pc : {"call"}, next : 1 .. 16]
            /\ main'.next \in {1, 8, 14}
            /\ main'.next = 14 => NoPeer
        BY DEF MayGo, Out
  <1>4. MainTypeOK'
        BY <1>1, <1>3 DEF MainTypeOK, MayGo, Quiet
  <1>5. Early'
        BY <1>1, <1>2 DEF Early, MayGo, Quiet
  <1>6. Late'
        BY <1>1, <1>3 DEF Late, NoPeer
  <1>7. Ended'
        BY <1>1 DEF Ended, MayGo
  <1>8. Loop'
        BY <1>1 DEF Loop
  <1> QED BY <1>4, <1>5, <1>6, <1>7, <1>8

\* The main thread, up to the way out.
LEMMA StartingKeeps ==
    ASSUME MainInv, Starting
    PROVE  MainInv'
  <1> USE DEF MainInv
  <1>1. CASE ParseArgs \/ ConfigInit
    <2>1. /\ main.pc \in {"args", "config"}
          /\ main'.pc \in {"config", "init", "exited", "aborted", "returned"}
          /\ UNCHANGED others
          BY <1>1 DEF ParseArgs, ConfigInit
    <2>2. MayGo
          BY <2>1 DEF MayGo, Early, Ended, Quiet, Waits
    <2> QED BY <2>1, <2>2, MainGoes
  <1>2. CASE StartLoop
    <2>1. /\ main.pc = "init"
          /\ UNCHANGED <<recvVars, tunVars, server>>
          BY <1>2 DEF StartLoop
    <2>2. runThread = "none" /\ NoPeer /\ device # "ended"
          BY <2>1 DEF Early, Ended
    <2>3. CASE loop!Start /\ main' = [pc |-> "reset", phase |-> 1]
      <3>1. /\ main'.pc = "reset" /\ main' \in [pc : Waits, phase : {1, 2}]
            /\ runThread' = "looping" /\ steam' = "up"
            /\ threads' = threads /\ device' = device /\ NoPeer'
            BY <2>1, <2>2, <2>3 DEF loop!Start, recvVars, tunVars, server, NoPeer, Waits
      <3> QED BY <2>2, <3>1 DEF MainTypeOK, Early, Late, Ended, Loop, Waits
    <2>4. CASE loop!StartFails /\ main' = Out(AtLoop)
      <3>1. UNCHANGED <<runThread, steam>> /\ main' = Out(14)
            BY <2>4, Calls DEF loop!StartFails
      <3>2. /\ main'.pc = "call" /\ main'.next = 14
            /\ main' \in [pc : {"call"}, next : 1 .. 16]
            BY <3>1 DEF Out
      <3>3. threads' = threads /\ device' = device /\ runThread' = runThread /\ NoPeer'
            BY <2>1, <2>2, <3>1 DEF recvVars, tunVars, server, NoPeer
      <3> QED BY <2>2, <3>1, <3>2, <3>3 DEF MainTypeOK, Early, Late, Ended, Loop, NoPeer, Waits
    <2> QED BY <1>2, <2>3, <2>4 DEF StartLoop
  <1>3. CASE Reset \/ Unready \/ Block
    <2>1. /\ main.pc \in Waits
          /\ \E to \in Waits : main' = [main EXCEPT !.pc = to]
          /\ UNCHANGED others
          BY <1>3 DEF Reset, Unready, Block, Waits
    <2>2. /\ main' \in [pc : Waits, phase : {1, 2}]
          /\ main'.pc \in Waits /\ main'.phase = main.phase
          BY <2>1, Waiting DEF MainTypeOK
    <2>3. MayGo
          BY <2>1, <2>2 DEF MayGo, Early, Ended, Quiet, Waits
    <2> QED BY <2>1, <2>3, MainGoes
  <1>4. CASE TimeOut
    <2>1. /\ main.pc \in Waits /\ UNCHANGED others
          /\ main' = Out(IF main.phase = 1 THEN 14 ELSE 8)
          BY <1>4, Calls DEF TimeOut, Waits
    <2>2. \/ main' = Out(8)
          \/ main' = Out(14) /\ NoPeer
          BY <2>1 DEF Early
    <2>3. main'.pc = "call"
          BY <2>2 DEF Out
    <2>4. MayGo
          BY <2>1, <2>2, <2>3 DEF MayGo, Ended, Quiet, Waits, Out
    <2> QED BY <2>1, <2>4, MainGoes
  <1>5. CASE Construct
    <2>1. /\ main.pc \in Waits /\ main.phase = 1
          /\ UNCHANGED <<loopVars, recvVars, server>>
          BY <1>5 DEF Construct, WaitIsOver, Waits
    <2>2. NoPeer /\ device # "ended"
          BY <2>1 DEF Early, Ended, Waits
    <2>3. CASE tunDev!Construct /\ main' = [pc |-> "constructed"]
      <3>1. /\ main'.pc = "constructed" /\ device' \in {"open", "absent"} /\ NoPeer'
            /\ threads' = threads /\ runThread' = runThread /\ steam' = steam
            BY <2>1, <2>2, <2>3 DEF tunDev!Construct, loopVars, recvVars, server, NoPeer
      <3> QED BY <3>1 DEF MainTypeOK, Early, Late, Ended, Loop, Waits
    <2>4. CASE main' = Out(AtLoop) /\ UNCHANGED tunVars
      <3>1. UNCHANGED others /\ main' = Out(14)
            BY <2>1, <2>4, Calls DEF others
      <3>2. main'.pc = "call"
            BY <3>1 DEF Out
      <3>3. MayGo
            BY <2>2, <3>1, <3>2 DEF MayGo, Quiet, Waits
      <3> QED BY <3>1, <3>3, MainGoes
    <2> QED BY <1>5, <2>3, <2>4 DEF Construct
  <1>6. CASE StartReceivers
    <2>1. /\ main.pc = "constructed" /\ main'.pc = "started"
          /\ threads' = [c \in Channels |-> "looping"]
          /\ runThread' = runThread /\ steam' = steam /\ device' = device
          BY <1>6 DEF StartReceivers, recv!Start, loopVars, tunVars
    <2>2. device # "ended"
          BY <2>1 DEF Ended
    <2>3. threads' \in [Channels -> ThreadPlaces]
          BY <2>1 DEF ThreadPlaces
    <2> QED BY <2>1, <2>2, <2>3 DEF MainTypeOK, Early, Late, Ended, Loop, Waits
  <1>7. CASE StartThrows
    <2>1. main.pc = "started" /\ main' = Out(8) /\ UNCHANGED others
          BY <1>7, Calls DEF StartThrows
    <2>2. main'.pc = "call"
          BY <2>1 DEF Out
    <2>3. MayGo
          BY <2>1, <2>2 DEF MayGo, Ended, Quiet, Waits, Out
    <2> QED BY <2>1, <2>3, MainGoes
  <1>8. CASE StartClient
    <2>1. /\ main.pc = "started" /\ main' = [pc |-> "reset", phase |-> 2]
          /\ UNCHANGED others
          BY <1>8 DEF StartClient
    <2>2. main'.pc = "reset" /\ main'.phase = 2 /\ main' \in [pc : Waits, phase : {1, 2}]
          BY <2>1 DEF Waits
    <2>3. MayGo
          BY <2>1, <2>2 DEF MayGo, Ended, Quiet, Waits
    <2> QED BY <2>1, <2>3, MainGoes
  <1>9. CASE StartServer
    <2>1. /\ main.pc = "started" /\ main'.pc = "serving"
          /\ device' \in {device, "session"}
          /\ threads' = threads /\ runThread' = runThread /\ steam' = steam
          BY <1>9 DEF StartServer, tunDev!Start, loopVars, recvVars
    <2>2. device # "ended"
          BY <2>1 DEF Ended
    <2> QED BY <2>1, <2>2 DEF MainTypeOK, Early, Late, Ended, Loop, Waits
  <1>10. CASE ClientReady
    <2>1. main.pc \in Waits /\ main'.pc = "serving" /\ UNCHANGED others
          BY <1>10 DEF ClientReady, WaitIsOver, Waits
    <2>2. MayGo
          BY <2>1 DEF MayGo, Ended, Quiet, Waits
    <2> QED BY <2>1, <2>2, MainGoes
  <1> QED BY <1>1, <1>2, <1>3, <1>4, <1>5, <1>6, <1>7, <1>8, <1>9, <1>10 DEF Starting

\* The next call returns.
LEMMA CallReturns ==
    ASSUME MainInv, NEW name, Call(name)
    PROVE  /\ main.pc = "call" /\ main.next \in 1 .. 15
           /\ Quitting[main.next] = name
           /\ main'.pc = "call" /\ main'.next = main.next + 1
           /\ main' \in [pc : {"call"}, next : 1 .. 16]
           /\ pingThread' = pingThread
  <1>1. /\ main.pc = "call" /\ main.next <= 15 /\ Quitting[main.next] = name
        /\ main' = [main EXCEPT !.next = @ + 1]
        /\ pingThread' = pingThread
        BY Calls DEF Call, Calling, server
  <1>2. main \in [pc : {"call"}, next : 1 .. 16]
        BY <1>1 DEF MainInv, MainTypeOK
  <1> QED BY <1>1, <1>2

\* Which call was before the one at which a conjunct of Late begins to bind.
LEMMA NextCall ==
    ASSUME NEW n \in 1 .. 15
    PROVE  /\ n + 1 \in {5, 6, 7} \cup 10 .. 16 => n \in {4, 9} \/ n \in {5, 6, 7} \cup 10 .. 16
           /\ n + 1 \in {6, 7} \cup 11 .. 16 => n \in {5, 10} \/ n \in {6, 7} \cup 11 .. 16
           /\ n + 1 \in 13 .. 16 => n = 12 \/ n \in 13 .. 16
           /\ n + 1 \in 14 .. 16 => n = 13 \/ n \in 14 .. 16
           /\ n + 1 = 16 => n = 15
  OBVIOUS

\* What the conjuncts need of a call that returns.
LEMMA CallKeeps ==
    ASSUME MainInv, NEW name, Call(name), threads' \in [Channels -> ThreadPlaces],
           threads["Message"] = "none" => threads'["Message"] = "none",
           threads["System"] = "none" => threads'["System"] = "none",
           receiverThread = "none" => receiverThread' = "none",
           runThread = "none" => runThread' = "none",
           name = "join Message" => threads'["Message"] = "none",
           name = "join System" => threads'["System"] = "none",
           name = "TUN::join" => receiverThread' = "none",
           name = "~pingThread" => pingThread' = "none",
           name = "SteamLoop::join" => runThread' = "none",
           device' = "ended" => device = "ended" \/ name = "TUN::join",
           runThread' \notin {"none", "ended"} => steam' = "up"
    PROVE  MainInv'
  <1> USE DEF MainInv
  <1>1. /\ main.pc = "call" /\ main.next \in 1 .. 15
        /\ Quitting[main.next] = name
        /\ main'.pc = "call" /\ main'.next = main.next + 1
        /\ main' \in [pc : {"call"}, next : 1 .. 16]
        /\ pingThread' = pingThread
        BY CallReturns
  <1>2. MainTypeOK'
        BY <1>1 DEF MainTypeOK, Waits
  <1>3. Early'
        BY <1>1 DEF Early, Waits
  <1>4. /\ main.next \in {4, 9} => name = "join Message"
        /\ main.next \in {5, 10} => name = "join System"
        /\ main.next \in {7, 12} => name = "TUN::join"
        /\ main.next = 13 => name = "~pingThread"
        /\ main.next = 15 => name = "SteamLoop::join"
        BY <1>1, Calls
  <1>5. Late'
    <2> QED BY <1>1, <1>4, NextCall DEF Late
  <1>6. Ended'
    <2>1. name = "TUN::join" => main.next \in {7, 12}
          BY <1>1, Calls
    <2>2. name = "TUN::join" => threads["Message"] = "none" /\ threads["System"] = "none"
          BY <1>1, <2>1 DEF Late
    <2> QED BY <1>1, <2>2 DEF Ended
  <1>7. Loop'
        BY DEF Loop
  <1> QED BY <1>2, <1>3, <1>5, <1>6, <1>7

\* The main thread, on its way out.
LEMMA StoppingKeeps ==
    ASSUME MainInv, Stopping \/ KeyPressed \/ EnterPressed
    PROVE  MainInv'
  <1>0. threads \in [Channels -> ThreadPlaces] /\ (runThread \notin {"none", "ended"} => steam = "up")
        BY DEF MainInv, MainTypeOK, Loop
  <1>2. CASE StopLoop
    <2>1. PICK name \in {"SteamLoop::running", "SteamLoop::join"} :
              /\ Call(name)
              /\ name = "SteamLoop::join" => loop!StopJoins
              /\ name # "SteamLoop::join" => loop!StopSignals
          BY <1>2 DEF StopLoop
    <2>2. threads' = threads /\ receiverThread' = receiverThread /\ device' = device
          BY <1>2 DEF StopLoop, recvVars, tunVars
    <2>3. \/ runThread' = "none"
          \/ name # "SteamLoop::join" /\ runThread' = runThread /\ steam' = steam
          BY <2>1 DEF loop!StopJoins, loop!StopSignals
    <2> QED BY <1>0, <2>1, <2>2, <2>3, CallKeeps
  <1>3. CASE StopReceivers
    <2>1. PICK name \in {"SteamMessageProcessor::running", "join Message", "join System"} :
              /\ Call(name)
              /\ name = "SteamMessageProcessor::running" => recv!StopSignals
              /\ name = "join Message" => recv!StopJoins("Message")
              /\ name = "join System" => recv!StopJoins("System")
          BY <1>3 DEF StopReceivers
    <2>2. /\ runThread' = runThread /\ steam' = steam
          /\ receiverThread' = receiverThread /\ device' = device
          BY <1>3 DEF StopReceivers, loopVars, tunVars
    <2>3. /\ threads' \in [Channels -> ThreadPlaces]
          /\ \A c \in Channels : threads'[c] \in {"none", threads[c]}
          /\ name = "join Message" => threads'["Message"] = "none"
          /\ name = "join System" => threads'["System"] = "none"
          BY <1>0, <2>1 DEF recv!StopSignals, recv!StopJoins, ThreadPlaces, Channels
    <2>4. /\ threads["Message"] = "none" => threads'["Message"] = "none"
          /\ threads["System"] = "none" => threads'["System"] = "none"
          BY <2>3 DEF Channels
    <2> QED BY <1>0, <2>1, <2>2, <2>3, <2>4, CallKeeps
  <1>4. CASE StopTun
    <2>1. PICK name \in {"TUN::running", "TUN::join"} :
              /\ Call(name)
              /\ name = "TUN::join" => tunDev!StopJoins
              /\ name # "TUN::join" => tunDev!StopSignals
          BY <1>4 DEF StopTun
    <2>2. runThread' = runThread /\ steam' = steam /\ threads' = threads
          BY <1>4 DEF StopTun, loopVars, recvVars
    <2>3. IF name = "TUN::join" THEN receiverThread' = "none"
          ELSE receiverThread' = receiverThread /\ device' = device
          BY <2>1 DEF tunDev!StopJoins, tunDev!StopSignals
    <2> QED BY <1>0, <2>1, <2>2, <2>3, CallKeeps
  <1>5. CASE DestroyPingThread
    <2>1. CASE Call("~pingThread") /\ pingThread = "none" /\ UNCHANGED <<loopVars, recvVars, tunVars>>
      <3>1. /\ threads' = threads /\ receiverThread' = receiverThread /\ device' = device
            /\ runThread' = runThread /\ steam' = steam /\ pingThread' = "none"
            BY <2>1 DEF Call, loopVars, recvVars, tunVars, server
      <3> QED BY <1>0, <2>1, <3>1, CallKeeps
    <2>2. CASE ProcessEnds("terminated")
          BY <2>2, EndKeeps
    <2> QED BY <1>5, <2>1, <2>2 DEF DestroyPingThread
  <1>6. CASE Return
    <2>0. main = Out(15 + 1) /\ main' = [pc |-> "returned"] /\ UNCHANGED others
          BY <1>6, Calls DEF Return
    <2>1. main.pc = "call" /\ main.next = 16 /\ main'.pc = "returned"
          BY <2>0 DEF Out
    <2>2. runThread = "none" /\ NoPeer
          BY <2>1 DEF MainInv, Late, NoPeer
    <2>3. /\ threads' = threads /\ device' = device /\ steam' = steam
          /\ runThread' = "none" /\ NoPeer'
          BY <2>0, <2>2 DEF others, loopVars, recvVars, tunVars, server, NoPeer
    <2> QED BY <2>1, <2>3 DEF MainInv, MainTypeOK, Early, Late, Ended, Loop, NoPeer, Waits
  <1>7. CASE KeyPressed
    <2>1. main.pc = "serving" /\ main' = Out(1) /\ UNCHANGED others
          BY <1>7, Calls DEF KeyPressed
    <2>2. main'.pc = "call"
          BY <2>1 DEF Out
    <2>3. MayGo
          BY <2>1, <2>2 DEF MayGo, MainInv, Ended, Quiet, Waits, Out
    <2> QED BY <2>1, <2>3, MainGoes
  <1>8. CASE EnterPressed
    <2>1. main.pc = "returned" /\ main'.pc = "exited" /\ UNCHANGED others
          BY <1>8 DEF EnterPressed
    <2>2. MayGo
          BY <2>1 DEF MayGo, MainInv, Early, Ended, Quiet, Waits
    <2> QED BY <2>1, <2>2, MainGoes
  <1> QED BY <1>2, <1>3, <1>4, <1>5, <1>6, <1>7, <1>8 DEF Stopping

\* Every step.
LEMMA MainNextInv == MainInv /\ [Next]_vars => MainInv'
  <1> SUFFICES ASSUME MainInv, [Next]_vars PROVE MainInv'
      OBVIOUS
  <1>1. CASE Starting
        BY <1>1, StartingKeeps
  <1>2. CASE Stopping \/ KeyPressed \/ EnterPressed
        BY <1>2, StoppingKeeps
  <1>3. CASE StartCrashes \/ MayCrash
        BY <1>3, EndKeeps DEF StartCrashes, MayCrash
  <1>4. CASE LoopThread \/ SteamConnects
        BY <1>4, LoopThreadKeeps, OthersKeep
  <1>5. CASE \/ \E c \in Channels : ReceiverThread(c) \/ MessageComes(c)
             \/ HandshakeComes \/ HandshakeThread
        BY <1>5, ReceiversKeep, OthersKeep DEF Channels
  <1>6. CASE TunThread \/ TunPacketComes \/ PingLoop
        BY <1>6, TunThreadKeeps, OthersKeep
  <1>7. CASE UNCHANGED vars
        BY <1>7 DEF vars, wait, others, loopVars, recvVars, tunVars, server, MainInv,
                    MainTypeOK, Early, Late, Ended, Loop, NoPeer
  <1> QED BY <1>1, <1>2, <1>3, <1>4, <1>5, <1>6, <1>7 DEF Next

\* While the main thread waits, mtxReady is set only if a callback has set it
\* since the phase began.
Fresh == main.pc \in {"check", "unready", "blocked"} /\ mtxReady => fresh # {}

LEMMA FreshKeeps ==
    ASSUME MainInv, Fresh, [Next]_vars
    PROVE  Fresh'
  <1>1. CASE ParseArgs \/ ConfigInit \/ StartLoop \/ TimeOut \/ Construct \/ StartReceivers
             \/ StartThrows \/ StartClient \/ StartServer \/ ClientReady
    <2>1. ASSUME NEW i, main' = Out(i)
          PROVE  main'.pc = "call"
          BY <2>1 DEF Out
    <2>2. main'.pc \in {"config", "exited", "aborted", "init", "returned", "reset", "call",
                        "constructed", "started", "serving"}
      <3>1. CASE ParseArgs \/ ConfigInit \/ StartReceivers \/ StartClient \/ StartServer
                 \/ ClientReady
            BY <3>1 DEF ParseArgs, ConfigInit, StartReceivers, StartClient, StartServer,
                        ClientReady
      <3>2. CASE StartLoop \/ TimeOut \/ Construct \/ StartThrows
            BY <3>2, <2>1 DEF StartLoop, TimeOut, Construct, StartThrows
      <3> QED BY <1>1, <3>1, <3>2
    <2> QED BY <2>2 DEF Fresh
  <1>2. CASE Reset \/ Unready
        BY <1>2 DEF Reset, Unready, Fresh
  <1>3. CASE Block
    <2>1. main.pc = "unready" /\ UNCHANGED <<mtxReady, fresh>>
          BY <1>3 DEF Block
    <2> QED BY <2>1 DEF Fresh
  <1>4. CASE Stopping \/ KeyPressed \/ EnterPressed
    <2>1. ASSUME NEW name, Call(name)
          PROVE  Fresh'
      <3>1. main'.pc = "call"
            BY <2>1, CallReturns
      <3> QED BY <3>1 DEF Fresh
    <2>2. CASE KeyPressed \/ EnterPressed \/ Return \/ ProcessEnds("terminated")
      <3>1. main'.pc \in {"call", "exited", "returned", "terminated"}
            BY <2>2 DEF KeyPressed, EnterPressed, Return, ProcessEnds, Out
      <3> QED BY <3>1 DEF Fresh
    <2> QED BY <1>4, <2>1, <2>2 DEF Stopping, StopLoop, StopReceivers, StopTun,
                                    DestroyPingThread
  <1>5. CASE StartCrashes \/ MayCrash
    <2>1. main'.pc = "aborted"
          BY <1>5 DEF StartCrashes, MayCrash, ProcessEnds
    <2> QED BY <2>1 DEF Fresh
  <1>6. ASSUME NEW who, Set(who)
        PROVE  Fresh'
        BY <1>6 DEF Set, Fresh
  <1>7. CASE Notify
        BY <1>7 DEF Notify, Fresh
  <1>8. CASE UNCHANGED wait
        BY <1>8 DEF wait, Fresh
  <1>9. CASE LoopThread \/ SteamConnects \/ HandshakeComes \/ HandshakeThread \/ TunThread
             \/ TunPacketComes \/ PingLoop
             \/ \E c \in Channels : ReceiverThread(c) \/ MessageComes(c)
        BY <1>9, <1>6, <1>7, <1>8 DEF LoopThread, SteamConnects, HandshakeComes, HandshakeThread,
              TunThread, TunPacketComes, PingLoop, ReceiverThread, MessageComes
  <1>10. CASE UNCHANGED vars
        BY <1>8, <1>10 DEF vars
  <1> QED BY <1>1, <1>2, <1>3, <1>4, <1>5, <1>9, <1>10 DEF Next, Starting

LEMMA MainInvariant == Spec => []MainInv
  BY MainInitInv, MainNextInv, PTL DEF Spec

----------------------------------------------------------------------------

\* The callback thread finds the Steam API up (SteamLoop::Stop shuts it down
\* behind the join).
THEOREM MainLoopRunsOnSteam == Spec => []LoopRunsOnSteam
  <1>1. MainInv => LoopRunsOnSteam
        BY DEF MainInv, Loop, LoopRunsOnSteam
  <1> QED BY <1>1, MainInvariant, PTL

\* Nothing is left of the process's threads when client_start or server_start
\* has returned or thrown.
THEOREM MainNoThreadOutlivesFrame == Spec => []NoThreadOutlivesFrame
  <1>1. MainInv => NoThreadOutlivesFrame
        BY DEF MainInv, Early, NoPeer, NoThreadOutlivesFrame, Channels
  <1> QED BY <1>1, MainInvariant, PTL

\* No thread that uses the device is there when it is closed.
THEOREM MainDeviceOutlivesItsUsers == Spec => []DeviceOutlivesItsUsers
  <1>1. MainInv => DeviceOutlivesItsUsers
        BY DEF MainInv, Ended, DeviceOutlivesItsUsers, Channels
  <1> QED BY <1>1, MainInvariant, PTL

\* No wait is passed on what the phase before left in mtxReady: a callback of
\* this phase has set it, whatever notifications were lost.
THEOREM MainPassedOnFreshSignal == Spec => PassedOnFreshSignal
  <1>1. Init => Fresh
        BY DEF Init, Fresh
  <1>2. MainInv /\ Fresh /\ [Next]_vars => Fresh'
        BY FreshKeeps
  <1>3. Fresh => [Construct \/ ClientReady => fresh # {}]_vars
        BY DEF Fresh, Construct, ClientReady, WaitIsOver
  <1> QED BY <1>1, <1>2, <1>3, MainInvariant, PTL DEF Spec, PassedOnFreshSignal

=============================================================================
