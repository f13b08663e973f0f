---------------------------- MODULE FrontendNets ----------------------------
(***************************************************************************)
(* How the generic frontend flattens the nets of a hierarchical design:    *)
(* GenericFrontend in frontend/frontend_base.h.  import_module runs depth  *)
(* first over the instances.  A net is known by an index into              *)
(* net_flatindex, which is redirected when two nets turn out to be one;    *)
(* net_aliases maps the other names of a net to its name.                  *)
(*                                                                         *)
(* The design is the input: which signal each port and netname of a module *)
(* refers to is chosen as the import meets it.  A name is the instance     *)
(* whose prefix it has, a label, and the number unique_name() appended;    *)
(* the label of an anonymous net ("$frontend$<idx>") is its bit and that   *)
(* of a constant net ("...$const") its port.  A net is identified by its   *)
(* name.  Drivers, attributes and cells are left out, and so are the log   *)
(* errors about multiple drivers.                                          *)
(***************************************************************************)
EXTENDS Integers, Sequences, FiniteSets

CONSTANTS Insts,       \* the instances of modules
          Top,         \* the top level module
          Parent,      \* the instance in which each other instance stands
          Bits,        \* the signal numbers of a module
          Ports,       \* the bits of the ports of a module
          Labels,      \* the names of nets inside a module
          NoName,      \* no entry
          MaxUnique,   \* bound on the number unique_name() appends
          MaxNets,     \* bound on the nets made by the import
          Loops,       \* may an instance join a net to itself?
          Pads         \* does packing make nets for the top level pads?

ASSUME FrontendAssumption ==
    /\ Top \in Insts
    /\ IsFiniteSet(Insts) /\ IsFiniteSet(Bits) /\ IsFiniteSet(Ports)
    /\ Bits \cap Ports = {}
    /\ Parent \in [Insts \ {Top} -> Insts]
    /\ MaxUnique \in Nat /\ MaxNets \in Nat
    /\ Loops \in BOOLEAN /\ Pads \in BOOLEAN

Locals == Labels \cup Bits \cup Ports
Names == Insts \X Locals \X (0..(MaxUnique + 1))

ASSUME NoNameAssumption == NoName \notin Names

VARIABLES
    stage,             \* how far the import of each instance has come
    port_to_bus,       \* the index of the net at each port, 0 when handled
    index_to_net_flatindex,   \* the index of each signal, 0 when it has none
    net_names,         \* the names found for signals without a net
    named,             \* the netnames of each instance handled
    nets, net_aliases, \* of the context
    aliases,           \* NetInfo::aliases
    udata,             \* NetInfo::udata
    net_flatindex, net_old_indices,
    joined             \* history: the pairs of signals and ports the design joins

importVars == <<stage, named>>
signalVars == <<port_to_bus, index_to_net_flatindex, net_names>>
nameVars == <<nets, net_aliases, aliases>>
flatVars == <<udata, net_flatindex, net_old_indices>>
frontendVars == <<importVars, signalVars, nameVars, flatVars, joined>>

Stages == {"waiting", "bind", "ports", "netnames", "cells", "done"}
Nodes == Insts \X (Bits \cup Ports)
Indices == 1..Len(net_flatindex)

FrontendTypeOK ==
    /\ stage \in [Insts -> Stages]
    /\ port_to_bus \in [Insts -> [Ports -> 0..Len(net_flatindex)]]
    /\ index_to_net_flatindex \in [Insts -> [Bits -> 0..Len(net_flatindex)]]
    /\ net_names \in [Insts -> [Bits -> SUBSET Labels]]
    /\ named \in [Insts -> SUBSET Labels]
    /\ nets \in SUBSET Names
    /\ net_aliases \in [Names -> Names \cup {NoName}]
    /\ aliases \in [Names -> SUBSET Names]
    /\ udata \in [Names -> 0..Len(net_flatindex)]
    /\ net_flatindex \in Seq(Names)
    /\ net_old_indices \in [Indices -> SUBSET Indices]
    /\ joined \in SUBSET (SUBSET Nodes)

Init ==
    /\ stage = [m \in Insts |-> IF m = Top THEN "netnames" ELSE "waiting"]
    /\ port_to_bus = [m \in Insts |-> [p \in Ports |-> 0]]
    /\ index_to_net_flatindex = [m \in Insts |-> [b \in Bits |-> 0]]
    /\ net_names = [m \in Insts |-> [b \in Bits |-> {}]]
    /\ named = [m \in Insts |-> {}]
    /\ nets = {}
    /\ net_aliases = [a \in Names |-> NoName]
    /\ aliases = [n \in Names |-> {}]
    /\ udata = [n \in Names |-> 0]
    /\ net_flatindex = <<>>
    /\ net_old_indices = <<>>
    /\ joined = {}

\* The import is at instance m: no instance inside m is being imported.
Importing(m) == stage[m] \notin {"waiting", "done"}
At(m, s) == /\ stage[m] = s
            /\ \A c \in Insts \ {Top} : Parent[c] = m => ~Importing(c)

Taken(n) == n \in nets \/ net_aliases[n] # NoName

\* unique_name(): the first number that is not taken.
UniqueNames(m, l) ==
    {<<m, l, i>> : i \in {j \in 0..MaxUnique :
                            /\ ~Taken(<<m, l, j>>)
                            /\ \A k \in 0..(j - 1) : Taken(<<m, l, k>>)}}

\* Seeded fault: no room for the old indices of the net.
NewNetNoOld(n, as) ==
    /\ Len(net_flatindex) < MaxNets
    /\ nets' = nets \cup {n}
    /\ net_aliases' = [a \in Names |-> IF a \in as \cup {n} THEN n ELSE net_aliases[a]]
    /\ aliases' = [aliases EXCEPT ![n] = as]
    /\ udata' = [udata EXCEPT ![n] = Len(net_flatindex) + 1]
    /\ net_flatindex' = Append(net_flatindex, n)
    /\ UNCHANGED net_old_indices

\* A new net n with the aliases as, at the end of net_flatindex.
NewNet(n, as) ==
    /\ Len(net_flatindex) < MaxNets
    /\ nets' = nets \cup {n}
    /\ net_aliases' = [a \in Names |-> IF a \in as \cup {n} THEN n ELSE net_aliases[a]]
    /\ aliases' = [aliases EXCEPT ![n] = as]
    /\ udata' = [udata EXCEPT ![n] = Len(net_flatindex) + 1]
    /\ net_flatindex' = Append(net_flatindex, n)
    /\ net_old_indices' = Append(net_old_indices, {})

\* create_or_get_net() for a signal without a net.  The aliases are the names
\* as they stand in the module, without the prefix.
CreateNet(m, b) ==
    \/ \E l \in net_names[m][b] : \E n \in UniqueNames(m, l) :
         NewNet(n, {<<Top, k, 0>> : k \in net_names[m][b]})
    \/ /\ net_names[m][b] = {}
       /\ \E n \in UniqueNames(m, b) : NewNet(n, {n})

GetIndex(m, b) == index_to_net_flatindex[m][b]

\* A cell or a top level port of m uses signal b.
UseSignal(m, b) ==
    /\ At(m, "cells")
    /\ GetIndex(m, b) = 0
    /\ CreateNet(m, b)
    /\ index_to_net_flatindex' =
         [index_to_net_flatindex EXCEPT ![m][b] = Len(net_flatindex) + 1]
    /\ UNCHANGED <<importVars, port_to_bus, net_names, joined>>

\* import_submodule_cell: c is instantiated with its port p at signal b.
EnterInstance(c) ==
    /\ At(Parent[c], "cells")
    /\ stage[c] = "waiting"
    /\ stage' = [stage EXCEPT ![c] = "bind"]
    /\ UNCHANGED <<named, signalVars, nameVars, flatVars, joined>>

\* The udata of the net, which merging may have given another index.
BindPort(c, p, b) ==
    LET m == Parent[c]
        i == GetIndex(m, b)
    IN
    /\ At(c, "bind")
    /\ port_to_bus[c][p] = 0
    /\ joined' = joined \cup {{<<m, b>>, <<c, p>>}}
    /\ \/ /\ i # 0
          /\ port_to_bus' = [port_to_bus EXCEPT ![c][p] = udata[net_flatindex[i]]]
          /\ UNCHANGED <<index_to_net_flatindex, nameVars, flatVars>>
       \/ /\ i = 0
          /\ CreateNet(m, b)
          /\ port_to_bus' = [port_to_bus EXCEPT ![c][p] = Len(net_flatindex) + 1]
          /\ index_to_net_flatindex' =
               [index_to_net_flatindex EXCEPT ![m][b] = Len(net_flatindex) + 1]
    /\ UNCHANGED <<importVars, net_names>>

\* create_constant_net for a port that is tied.
TiePort(c, p) ==
    /\ At(c, "bind")
    /\ port_to_bus[c][p] = 0
    /\ \E n \in UniqueNames(Parent[c], p) : NewNet(n, {})
    /\ port_to_bus' = [port_to_bus EXCEPT ![c][p] = Len(net_flatindex) + 1]
    /\ UNCHANGED <<importVars, index_to_net_flatindex, net_names, joined>>

\* Seeded fault: the indices merged into the mergee before are forgotten.
MergeForgetsOld(base, mergee) ==
    LET from == udata[mergee]
        to == udata[base]
        moved == aliases[mergee] \cup {mergee}
    IN
    /\ aliases' = [aliases EXCEPT ![base] = @ \cup aliases[mergee]]
    /\ net_aliases' = [a \in Names |-> IF a \in moved THEN base ELSE net_aliases[a]]
    /\ net_flatindex' = [net_flatindex EXCEPT ![from] = base]
    /\ net_old_indices' = [net_old_indices EXCEPT ![to] = @ \cup {from}, ![from] = {}]
    /\ nets' = nets \ {mergee}
    /\ UNCHANGED udata

MergeNets(base, mergee) ==
    LET from == udata[mergee]
        to == udata[base]
        moved == aliases[mergee] \cup {mergee}
        stale == net_old_indices[from] \cup {from}
    IN
    /\ aliases' = [aliases EXCEPT ![base] = @ \cup aliases[mergee]]
    /\ net_aliases' = [a \in Names |-> IF a \in moved THEN base ELSE net_aliases[a]]
    /\ net_flatindex' = [i \in Indices |-> IF i \in stale THEN base ELSE net_flatindex[i]]
    /\ net_old_indices' = [net_old_indices EXCEPT ![to] = @ \cup stale, ![from] = {}]
    /\ nets' = nets \ {mergee}
    /\ UNCHANGED udata

\* Seeded fault: a signal at two ports moves to the net at the second.
ImportPortOverwrites(m, p, b) ==
    LET conn == port_to_bus[m][p] IN
    /\ At(m, "ports")
    /\ conn # 0
    /\ port_to_bus' = [port_to_bus EXCEPT ![m][p] = 0]
    /\ joined' = joined \cup {{<<m, p>>, <<m, b>>}}
    /\ index_to_net_flatindex' = [index_to_net_flatindex EXCEPT ![m][b] = conn]
    /\ UNCHANGED <<importVars, net_names, nameVars, flatVars>>

\* import_port_connections: port p of m is its signal b, which either has no
\* net yet or is joined to the net at the port.
ImportPort(m, p, b) ==
    LET conn == port_to_bus[m][p]
        base == net_flatindex[GetIndex(m, b)]
        mergee == net_flatindex[conn]
    IN
    /\ At(m, "ports")
    /\ conn # 0
    /\ port_to_bus' = [port_to_bus EXCEPT ![m][p] = 0]
    /\ joined' = joined \cup {{<<m, p>>, <<m, b>>}}
    /\ \/ /\ GetIndex(m, b) = 0
          /\ index_to_net_flatindex' = [index_to_net_flatindex EXCEPT ![m][b] = conn]
          /\ UNCHANGED <<nameVars, flatVars>>
       \/ /\ GetIndex(m, b) # 0
          /\ Loops \/ base # mergee
          /\ MergeNets(base, mergee)
          /\ UNCHANGED index_to_net_flatindex
    /\ UNCHANGED <<importVars, net_names>>

\* A port that the module ties to a constant gets a driver in the parent.
ImportTiedPort(m, p) ==
    /\ At(m, "ports")
    /\ port_to_bus[m][p] # 0
    /\ port_to_bus' = [port_to_bus EXCEPT ![m][p] = 0]
    /\ UNCHANGED <<importVars, index_to_net_flatindex, net_names, nameVars, flatVars, joined>>

\* import_module_netnames: label l of m names signal b.
ImportNetname(m, l, b) ==
    LET i == GetIndex(m, b)
        n == net_flatindex[i]
        a == <<m, l, 0>>
    IN
    /\ At(m, "netnames")
    /\ l \notin named[m]
    /\ named' = [named EXCEPT ![m] = @ \cup {l}]
    /\ \/ /\ i = 0
          /\ net_names' = [net_names EXCEPT ![m][b] = @ \cup {l}]
          /\ UNCHANGED nameVars
       \/ /\ i # 0
          /\ net_aliases[a] = NoName
          /\ net_aliases' = [net_aliases EXCEPT ![a] = n]
          /\ aliases' = [aliases EXCEPT ![n] = @ \cup {a}]
          /\ UNCHANGED <<nets, net_names>>
       \/ /\ i # 0
          /\ net_aliases[a] # NoName
          /\ UNCHANGED <<nameVars, net_names>>
    /\ UNCHANGED <<stage, port_to_bus, index_to_net_flatindex, flatVars, joined>>

NextStage(s) ==
    CASE s = "bind" -> "ports"
      [] s = "ports" -> "netnames"
      [] s = "netnames" -> "cells"
      [] s = "cells" -> "done"

\* import_module goes on when the design has no more for this stage.
GoOn(m) ==
    /\ \E s \in {"bind", "ports", "netnames", "cells"} :
         /\ At(m, s)
         /\ s = "ports" => \A p \in Ports : port_to_bus[m][p] = 0
         /\ stage' = [stage EXCEPT ![m] = NextStage(s)]
    /\ UNCHANGED <<named, signalVars, nameVars, flatVars, joined>>

\* Seeded fault: the new net does not take the name.
PadNetUnnamed(n) ==
    LET new == <<n[1], n[2], MaxUnique + 1>> IN
    /\ Pads
    /\ \A m \in Insts : ~Importing(m)
    /\ n \in nets /\ n[1] = Top /\ n[3] = 0
    /\ new \notin nets
    /\ nets' = (nets \ {n}) \cup {new}
    /\ aliases' = [aliases EXCEPT ![new] = aliases[n]]
    /\ udata' = [udata EXCEPT ![new] = udata[n]]
    /\ net_flatindex' = [i \in Indices |-> IF net_flatindex[i] = n THEN new ELSE net_flatindex[i]]
    /\ UNCHANGED <<importVars, signalVars, net_aliases, net_old_indices, joined>>

\* Packing a pad of iCE40, nxio_to_sb: the net that has the name of the pad is
\* renamed (BaseCtx::renameNet) and a new net takes the name.
PadNet(n) ==
    LET new == <<n[1], n[2], MaxUnique + 1>> IN
    /\ Pads
    /\ \A m \in Insts : ~Importing(m)
    /\ n \in nets /\ n[1] = Top /\ n[3] = 0
    /\ new \notin nets
    /\ nets' = nets \cup {new}
    /\ net_aliases' = [net_aliases EXCEPT ![n] = n]
    /\ aliases' = [aliases EXCEPT ![n] = {}, ![new] = aliases[n]]
    /\ udata' = [udata EXCEPT ![new] = udata[n]]
    /\ net_flatindex' = [i \in Indices |-> IF net_flatindex[i] = n THEN new ELSE net_flatindex[i]]
    /\ UNCHANGED <<importVars, signalVars, net_old_indices, joined>>

Next ==
    \/ \E m \in Insts, b \in Bits : UseSignal(m, b)
    \/ \E c \in Insts \ {Top} : EnterInstance(c)
    \/ \E c \in Insts \ {Top}, p \in Ports, b \in Bits : BindPort(c, p, b)
    \/ \E c \in Insts \ {Top}, p \in Ports : TiePort(c, p)
    \/ \E m \in Insts, p \in Ports, b \in Bits : ImportPort(m, p, b)
    \/ \E m \in Insts, p \in Ports : ImportTiedPort(m, p)
    \/ \E m \in Insts, l \in Labels, b \in Bits : ImportNetname(m, l, b)
    \/ \E m \in Insts : GoOn(m)
    \/ \E n \in nets : PadNet(n)

Spec == Init /\ [][Next]_frontendVars

-----------------------------------------------------------------------------
(* Properties *)

\* No index leads to a net that was merged away: the pointers in net_flatindex
\* are to nets of the context, and udata leads back to the net.
FlatIndexLive ==
    \A i \in Indices :
      LET n == net_flatindex[i] IN
      /\ n \in nets
      /\ udata[n] # 0 /\ net_flatindex[udata[n]] = n

\* What the design joins to node u, directly or not.
JoinedTo(u) ==
    LET within[S \in SUBSET Nodes] ==
          LET more == S \cup UNION {e \in joined : e \cap S # {}}
          IN IF more = S THEN S ELSE within[more]
    IN within[{u}]

\* Flattening neither shorts two signals nor splits one: at any moment of the
\* import, signals have the same net exactly if the ports met so far join them.
NetsAreTheJoinedSignals ==
    \A m \in Insts, b \in Bits :
        LET i == GetIndex(m, b)
            peers == JoinedTo(<<m, b>>)
        IN i # 0 => \A k \in Insts, d \in Bits :
             LET j == GetIndex(k, d)
             IN j # 0 => (net_flatindex[i] = net_flatindex[j] <=> <<k, d>> \in peers)

\* No instance has been entered: the design has no hierarchy, so far.
Flat == \A c \in Insts \ {Top} : stage[c] = "waiting"

\* Names lead to nets: each entry of net_aliases to an index into nets, as
\* docs/netlist.md has it, and each alias of a net back to it, as nextpnr_types.h
\* says of NetInfo::aliases.  In a hierarchy neither holds: a name that was
\* merged into another is forgotten when that one is merged in turn, and two
\* nets may claim one entry.  A net that packing renamed leaves its entries.
AliasesResolve ==
    Flat => /\ \A a \in Names : net_aliases[a] \in nets \cup {NoName}
            /\ \A n \in nets : n[3] <= MaxUnique =>
                  \A a \in aliases[n] : net_aliases[a] = n
=============================================================================
