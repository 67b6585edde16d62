------------------------------- MODULE Devices -------------------------------
(***************************************************************************)
(* Device discovery: how /dev/input/eventX nodes are grouped into devices  *)
(* and how a client's string is resolved to one of them                    *)
(* (src/device/discover.rs).                                               *)
(*                                                                         *)
(* A name is an opaque string.  What the code asks of strings is given by  *)
(* constants: byte length, the order sort_by uses, str::contains, and      *)
(* whether the name starts with "input-remapper".                          *)
(***************************************************************************)
EXTENDS Naturals

CONSTANTS
    Nodes,       \* the event nodes that may ever exist, hardware and virtual
    Groups,      \* what device_group_key can return: one per physical device
    Names,       \* strings: device names, group keys, what clients type
    GroupOf,     \* device_group_key of a node
    NodeName,    \* the name the kernel reports for a node
    NameLength,  \* String::len of a name
    NameOrder,   \* the pairs <<a, b>> with a sorted before or equal to b
    Contains,    \* the pairs <<a, b>> such that b is a substring of a
    OwnNames,    \* the names that start with "input-remapper"
    Keyless      \* the nodes without any key or button (audio, video, ...)

ASSUME DevicesAssumption ==
    /\ Groups \subseteq Names
    /\ GroupOf \in [Nodes -> Groups]
    /\ NodeName \in [Nodes -> Names]
    /\ NameLength \in [Names -> Nat]
    /\ NameOrder \subseteq Names \X Names
    /\ Contains \subseteq Names \X Names
    /\ OwnNames \subseteq Names
    /\ Keyless \subseteq Nodes

(* Variant of SubDevices: our own virtual devices are not skipped.         *)
SubDevicesOwn(g, present) == {n \in present \ Keyless : GroupOf[n] = g}

(***************************************************************************)
(* The nodes of group g that discovery keeps when `present` are the nodes  *)
(* in /dev/input: our own virtual devices and keyless nodes are skipped.   *)
(***************************************************************************)
SubDevices(g, present) ==
    {n \in present \ Keyless : GroupOf[n] = g /\ NodeName[n] \notin OwnNames}

(* The entries discover_devices builds: the groups with a kept node.       *)
Discovered(present) == {g \in Groups : SubDevices(g, present) # {}}

(***************************************************************************)
(* A group is named after its sub-device with the shortest name; of        *)
(* several, after the one evdev::enumerate yields first, so any of them.   *)
(***************************************************************************)
GroupNames(g, present) ==
    LET subs == SubDevices(g, present)
    IN  {nm \in {NodeName[n] : n \in subs} :
            \A n \in subs : NameLength[nm] <= NameLength[NodeName[n]]}

(* Every naming of the discovered groups one call may come up with.        *)
Namings(present) ==
    {naming \in [Discovered(present) -> Names] :
        \A g \in Discovered(present) : naming[g] \in GroupNames(g, present)}

(***************************************************************************)
(* find_device_by_name: the groups with exactly this name or, if there is  *)
(* none, the first in name order whose name contains it.  Groups of equal  *)
(* name come out of a HashMap, so which one is first is open: the result   *)
(* is the set of groups that may be returned, empty for None.              *)
(***************************************************************************)
FindDevice(name, naming) ==
    LET exact   == {g \in DOMAIN naming : naming[g] = name}
        partial == {g \in DOMAIN naming : <<naming[g], name>> \in Contains}
    IN  IF exact # {}
        THEN exact
        ELSE {g \in partial :
                \A h \in partial : <<naming[g], naming[h]>> \in NameOrder}
=============================================================================
