------------------------------ MODULE MCStartup ------------------------------
(***************************************************************************)
(* Startup with binary octets of two digits: four addresses to an octet,   *)
(* two octets to an address.  The pool may reach the largest of them.      *)
(***************************************************************************)
EXTENDS Startup, FiniteSets

CONSTANTS server, client

MCSwap == [a \in 0 .. 15 |-> (a % 4) * 4 + a \div 4]

MCKeys == {"AdapterGuid", "ServerIp", "IpPoolFrom", "IpPoolTo"}

dot == Dot
letter == Other

\* Two GUIDs, one that is too short and one that is not a number.
g1 == <<letter, 0>>
g2 == <<letter, 1>>
short == <<letter>>
odd == <<letter, letter>>

MCDefaults == {[AdapterGuid |-> g, ServerIp |-> <<1, dot, 0>>,
                IpPoolFrom |-> <<1, dot, 1>>, IpPoolTo |-> <<1, dot, 1, 1>>] : g \in {g1, g2}}

\* What a user may write: the same, 1.00, 1.0 with a dot behind it, 11.11 (the
\* largest uint32_t), a range that ends before it begins, and no address.
Written == [AdapterGuid |-> {g1, g2, short, odd},
            ServerIp |-> {<<1, dot, 0>>, <<1, dot, 0, 0>>, <<1, dot, 0, dot>>, <<1, dot>>},
            IpPoolFrom |-> {<<1, dot, 1>>, <<1, dot>>},
            IpPoolTo |-> {<<1, dot, 1, 1>>, <<1, 1, dot, 1, 1>>, <<1, dot, 0>>}]

MCTexts == UNION {Written[k] : k \in MCKeys}

\* A GUID may be too short or not a number; other values are any text.
MCTaken == [k \in MCKeys |-> [text \in MCTexts |->
    CASE k = "AdapterGuid" /\ text \notin {g1, g2, odd} -> Missing
      [] k = "AdapterGuid" /\ text = odd -> Throws
      [] OTHER -> text]]

MCTails == {{}, {"IpPoolTo"}, {"IpPoolFrom", "IpPoolTo"}, MCKeys}

\* Every text of up to seven characters: no address takes more without saying
\* something superfluous.
AddressTexts == UNION {[1 .. n -> Chars] : n \in 0 .. 7}

\* Bound: a user writes what is Written, and but for a file that is removed at
\* most one line is missing or says something else than a default.
EditsAreFew ==
    /\ \A k \in Keys : file'[k] \in Written[k] \cup {Missing}
    /\ \/ file' = Empty
       \/ Cardinality({k \in Keys : \A d \in Defaults : file'[k] # d[k]}) <= 1

\* Bound: nobody else moves while the server is in its pool's loop, which
\* neither reads nor writes anything of others.
LoopRunsAlone ==
    \A p \in Servers : at[p] = "pushing" => at'[p] # "pushing" \/ ip'[p] # ip[p]

\* Bound: a user edits before both processes are there.
EditsAreEarly ==
    file' # file /\ proc' = proc => \E p \in Processes : proc[p] = "absent"

BoundedSpec ==
    Init /\ [][Next /\ EditsAreFew /\ EditsAreEarly /\ LoopRunsAlone]_vars

=============================================================================
