----------------------------- MODULE MCNetwork ------------------------------
(***************************************************************************)
(* Network on small instances, with the addresses of MCServer.             *)
(***************************************************************************)
EXTENDS Network, TLC

CONSTANTS u1, u2, u3

MCSwap == [a \in 0 .. 8 |-> (a % 3) * 3 + a \div 3]

Symmetry == Permutations(Users)

\* Bound: one packet at a time is looked up, waits, is sent or is under way.
InTransit ==
    (IF tun = S!Idle THEN {} ELSE {Server})
        \cup {u \in Users : out[u].pc \notin {"idle", "terminated"}}
        \cup UNION {{<<r, from>> : from \in packets[r]} : r \in DOMAIN packets}

OnePacket == Cardinality(InTransit') <= 1

\* Bound: a vector that is full moves to a new block, as those of the standard
\* libraries do up to four elements.  (Server and Client leave it open.)
FullBlockMoves ==
    /\ \A g \in DOMAIN blocks : Len(blocks'[g]) = Len(blocks[g])
    /\ \A u \in Users : \A g \in DOMAIN known[u].mem :
          Len(known'[u].mem[g]) = Len(known[u].mem[g])

\* Users are alike, so they may be numbered in the order they start in.
InOrder ==
    /\ C!Started(u2)' => C!Started(u1)'
    /\ C!Started(u3)' => C!Started(u2)'

\* Bound: one client ends.  (It may be let in first, last or not at all.)
OneEnds == \A u \in Users : out'[u].pc = "terminated" => u = u1

\* Bound: a round with nobody to remove, which tells nobody of anything, is left
\* out.
RoundsRemove == ping.pc = "sleeping" /\ ping'.pc = "erased" => ping'.gone # {}

OnePacketSpec == Init /\ [][Next /\ OnePacket]_vars

BoundedSpec ==
    /\ Init
    /\ [][Next /\ OnePacket /\ FullBlockMoves /\ InOrder /\ OneEnds /\ RoundsRemove]_vars
    /\ Fairness

=============================================================================
