-------------------------- MODULE MCInjectionDaemon --------------------------
(* Small machines for TLC to check InjectionDaemon on.                     *)
EXTENDS InjectionDaemon, TLC

CONSTANTS m1, m2, w1, k1, v1, v2, v3, t1, t2, t3, Exact

MCThreads2 == {t1, t2}
MCThreads3 == {t1, t2, t3}
MCVirtualNode2 == t1 :> v1 @@ t2 :> v2
MCVirtualNode3 == MCVirtualNode2 @@ t3 :> v3
MCVirtuals == {v1, v2, v3}

(* Threads are interchangeable, each together with its virtual node.       *)
MCSwap(p) == [x \in MCVirtuals |-> CHOOSE v \in MCVirtuals :
                 \E t \in MCThreads3 : MCVirtualNode3[t] = x /\ v = MCVirtualNode3[p[t]]]
MCSymmetry == {p @@ MCSwap(p) : p \in Permutations(MCThreads3)}

MCKeyless == {}
MCInvalid == {"../x"}
MCPresets1 == {"p"}
MCPresets2 == {"p", "../x"}

(* A mouse with two nodes, a second mouse of the same make, a keyboard, and *)
(* the daemon's virtual devices.                                           *)
MCGroups == {"mouse key", "twin key", "keyboard key", "own key"}
MCGroupOf == m1 :> "mouse key" @@ m2 :> "mouse key" @@ w1 :> "twin key" @@ k1 :> "keyboard key"
                @@ [v \in MCVirtuals |-> "own key"]
MCOwnNames == {"input-remapper-rs"}

MCNames == {"Mouse", "Mouse Keys", "Keyboard"} \cup MCOwnNames \cup MCGroups \cup MCInvalid

(* Exact: the nodes of both mice have one name, and clients use it.       *)
MCExactNodeName == m1 :> "Mouse" @@ m2 :> "Mouse" @@ w1 :> "Mouse" @@ k1 :> "Keyboard"
                      @@ [v \in MCVirtuals |-> "input-remapper-rs"]
MCExactRequestable == {"Mouse", "Keyboard"}
MCExactAutoload == {<<"Mouse", "p">>, <<"Keyboard", "p">>}

(* Fuzzy: the second node of the mouse has a longer name than the first,   *)
(* so hotplug renames the group, and clients also send a part of a name.   *)
MCFuzzyNodeName == [MCExactNodeName EXCEPT ![m2] = "Mouse Keys"]
MCFuzzyRequestable == {"Mouse", "Mouse Keys", "input-remapper-rs", "mouse key"}
MCFuzzyContains == {<<"Mouse Keys", "Mouse">>}
MCMouseRequestable == {"Mouse", "Mouse Keys"}
MCPartRequestable == {"Mouse", "mouse key"}
MCLiveAutoload == {<<"Mouse Keys", "p">>}
MCFuzzyAutoload == {<<"Mouse", "p">>, <<"Mouse Keys", "p">>}

(* The byte lengths of the names, and their order (only names of devices   *)
(* are compared).                                                          *)
MCNameLength ==
    [n \in MCNames |->
        CASE n = "Mouse" -> 5 [] n = "Keyboard" -> 8 [] n = "Mouse Keys" -> 10
          [] n = "../x" -> 4 [] n = "own key" -> 7 [] n = "mouse key" -> 9 [] n = "twin key" -> 8
          [] n = "keyboard key" -> 12 [] n = "input-remapper-rs" -> 17]
MCRank == "Keyboard" :> 1 @@ "Mouse" :> 2 @@ "Mouse Keys" :> 3
MCNameOrder == {o \in (DOMAIN MCRank) \X (DOMAIN MCRank) : MCRank[o[1]] <= MCRank[o[2]]}
MCEmpty == {}

MCExactNodes == {m1, m2, w1, k1} \cup MCVirtuals
MCMouseNodes == {m1, m2} \cup MCVirtuals
MCSmallNodes == {m1, m2, v1, v2}
MCOf(f, nodes) == [n \in nodes |-> f[n]]
MCSmallGroupOf == MCOf(MCGroupOf, MCSmallNodes)
MCSmallNodeName == MCOf(MCFuzzyNodeName, MCSmallNodes)
MCMouseGroupOf == MCOf(MCGroupOf, MCMouseNodes)
MCMouseNodeName == MCOf(MCFuzzyNodeName, MCMouseNodes)

(* The runs that say so are about exact requests for stable names.         *)
ASSUME MCExactness == Exact => StableNames /\ ExactRequests
=============================================================================
