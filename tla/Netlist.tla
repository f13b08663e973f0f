------------------------------ MODULE Netlist ------------------------------
(***************************************************************************)
(* The connections between cells and nets: the operations of CellInfo in   *)
(* common/kernel/nextpnr_types.cc.  A port knows its net and its index in  *)
(* the users of the net; a net knows its driver and its users.  The users  *)
(* are an indexed_store, of which only the interface (SlotMap) is used     *)
(* here: a new user gets some index that is free.                          *)
(*                                                                         *)
(* An operation whose assertion fails ends the program: its action is not  *)
(* enabled.  So is a call that breaks what the callers of an operation see *)
(* to, which is named with the operation.                                  *)
(***************************************************************************)
EXTENDS Integers, FiniteSets

CONSTANTS Cells, PortNames, Nets,
          Indices,   \* the indices in the users of a net: the bound of the model
          None,      \* no net, cell or index
          Retype,    \* may a port that exists get another type?
          MoveWithin \* may a port be moved to a new port of its own cell?

VARIABLES ports,    \* CellInfo::ports, None for a name that has no port
          nets,     \* the nets that exist
          driver,   \* NetInfo::driver
          users     \* NetInfo::users
netlistVars == <<ports, nets, driver, users>>

PortTypes == {"PORT_IN", "PORT_OUT", "PORT_INOUT"}
PortInfo == [type : PortTypes, net : Nets \cup {None}, user_idx : Indices \cup {None}]
PortRefs == Cells \X PortNames

ASSUME NetlistAssumption ==
    /\ None \notin Nets /\ None \notin PortRefs /\ None \notin Indices
    /\ None \notin PortInfo
    /\ Retype \in BOOLEAN /\ MoveWithin \in BOOLEAN

NetlistTypeOK ==
    /\ ports \in [Cells -> [PortNames -> PortInfo \cup {None}]]
    /\ nets \in SUBSET Nets
    /\ driver \in [Nets -> PortRefs \cup {None}]
    /\ users \in [Nets -> [Indices -> PortRefs \cup {None}]]

Init ==
    /\ ports = [c \in Cells |-> [p \in PortNames |-> None]]
    /\ nets = {}
    /\ driver = [n \in Nets |-> None]
    /\ users = [n \in Nets |-> [i \in Indices |-> None]]

Exists(c, p) == ports[c][p] # None
Connected(c, p) == Exists(c, p) /\ ports[c][p].net # None
FreeIndices(n) == {i \in Indices : users[n][i] = None}

CreateNet(n) ==
    /\ n \notin nets
    /\ nets' = nets \cup {n}
    /\ UNCHANGED <<ports, driver, users>>

\* Seeded fault: the type of a new port is not set.
AddPortUntyped(c, p, t) ==
    /\ ~Exists(c, p)
    /\ ports' = [ports EXCEPT ![c][p] = [type |-> None, net |-> None, user_idx |-> None]]
    /\ UNCHANGED <<nets, driver, users>>

\* addInput, addOutput and addInout.  Callers do not change the type of a port
\* that is connected.
AddPort(c, p, t) ==
    /\ Exists(c, p) => Retype /\ ~Connected(c, p)
    /\ ports' = [ports EXCEPT ![c][p] =
                   IF Exists(c, p) THEN [@ EXCEPT !.type = t]
                   ELSE [type |-> t, net |-> None, user_idx |-> None]]
    /\ UNCHANGED <<nets, driver, users>>

\* The port info pi of an unconnected port, at <<c, p>>, is connected to n.
Attach(c, p, pi, n) ==
    \/ /\ pi.type = "PORT_OUT"
       /\ driver[n] = None
       /\ driver' = [driver EXCEPT ![n] = <<c, p>>]
       /\ ports' = [ports EXCEPT ![c][p] = [pi EXCEPT !.net = n]]
       /\ UNCHANGED users
    \/ /\ pi.type # "PORT_OUT"
       /\ \E i \in FreeIndices(n) :
            /\ users' = [users EXCEPT ![n][i] = <<c, p>>]
            /\ ports' = [ports EXCEPT ![c][p] = [pi EXCEPT !.net = n, !.user_idx = i]]
       /\ UNCHANGED driver

ConnectPort(c, p, n) ==
    /\ n \in nets
    /\ Exists(c, p) /\ ~Connected(c, p)
    /\ Attach(c, p, ports[c][p], n)
    /\ UNCHANGED nets

\* The index of the port is left as it was.
DisconnectPort(c, p) ==
    LET pi == ports[c][p]
        n == pi.net
    IN
    /\ Connected(c, p)
    /\ \/ /\ pi.user_idx = None
          /\ UNCHANGED users
       \/ /\ pi.user_idx # None
          /\ users[n][pi.user_idx] # None    \* asserted by indexed_store
          /\ users' = [users EXCEPT ![n][pi.user_idx] = None]
    /\ driver' = [driver EXCEPT ![n] = IF @ = <<c, p>> THEN None ELSE @]
    /\ ports' = [ports EXCEPT ![c][p].net = None]
    /\ UNCHANGED nets

\* With no net on the first port a new net is made for both.
ConnectPorts(c, p, d, q) ==
    /\ Exists(c, p) /\ Exists(d, q)
    /\ <<c, p>> # <<d, q>> /\ ~Connected(d, q)
    /\ \/ /\ Connected(c, p)
          /\ Attach(d, q, ports[d][q], ports[c][p].net)
          /\ UNCHANGED nets
       \/ /\ ~Connected(c, p)
          /\ \E n \in Nets \ nets :
               LET from == ports[c][p]
                   to == ports[d][q]
               IN
               /\ nets' = nets \cup {n}
               /\ ~(from.type = "PORT_OUT" /\ to.type = "PORT_OUT")
               /\ driver' = [driver EXCEPT ![n] =
                               IF from.type = "PORT_OUT" THEN <<c, p>>
                               ELSE IF to.type = "PORT_OUT" THEN <<d, q>> ELSE @]
               /\ \E i, j \in FreeIndices(n) :
                    /\ i # j
                    /\ users' = [users EXCEPT
                         ![n] = [k \in Indices |->
                                   IF k = i /\ from.type # "PORT_OUT" THEN <<c, p>>
                                   ELSE IF k = j /\ to.type # "PORT_OUT" THEN <<d, q>>
                                   ELSE @[k]]]
                    /\ ports' = [ports EXCEPT
                         ![c][p] = IF from.type = "PORT_OUT" THEN [from EXCEPT !.net = n]
                                   ELSE [from EXCEPT !.net = n, !.user_idx = i],
                         ![d][q] = IF to.type = "PORT_OUT" THEN [to EXCEPT !.net = n]
                                   ELSE [to EXCEPT !.net = n, !.user_idx = j]]

\* Port <<d, q>> takes over the net and the index of <<c, p>>.  Making a port
\* in the cell of the old one may move the old one in memory, and what is
\* written to it then is lost: the reference to it is dangling.
MovedTo(c, p, d, q) ==
    LET old == ports[c][p]
        gone == [old EXCEPT !.net = None, !.user_idx = None]
    IN
    {[ports EXCEPT ![d][q] = old, ![c][p] = gone]}
      \cup IF c = d /\ ~Exists(d, q) THEN {[ports EXCEPT ![d][q] = old]} ELSE {}

\* Callers move to another port that is not connected.
MayMove(c, p, d, q) ==
    /\ Exists(c, p)
    /\ <<c, p>> # <<d, q>> /\ ~Connected(d, q)
    /\ Exists(d, q) => ports[d][q].type = ports[c][p].type
    /\ ports[c][p].type # "PORT_INOUT"
    /\ c = d /\ ~Exists(d, q) => MoveWithin

\* Seeded fault: the entry in the users is not updated.
MoveKeepsUser(c, p, d, q) ==
    LET old == ports[c][p] IN
    /\ MayMove(c, p, d, q)
    /\ ports' \in MovedTo(c, p, d, q)
    /\ driver' = [n \in Nets |-> IF old.net = n /\ old.type = "PORT_OUT" THEN <<d, q>>
                                 ELSE driver[n]]
    /\ UNCHANGED <<nets, users>>

MovePortTo(c, p, d, q) ==
    LET old == ports[c][p] IN
    /\ MayMove(c, p, d, q)
    /\ ports' \in MovedTo(c, p, d, q)
    /\ \/ /\ old.net = None
          /\ UNCHANGED <<driver, users>>
       \/ /\ old.net # None /\ old.type = "PORT_OUT"
          /\ driver' = [driver EXCEPT ![old.net] = <<d, q>>]
          /\ UNCHANGED users
       \/ /\ old.net # None /\ old.type = "PORT_IN"
          /\ users[old.net][old.user_idx] # None    \* asserted by indexed_store
          /\ users' = [users EXCEPT ![old.net][old.user_idx] = <<d, q>>]
          /\ UNCHANGED driver
    /\ UNCHANGED nets

\* Seeded fault: the driver keeps the old name.
RenameKeepsDriver(c, p, q) ==
    LET pi == ports[c][p] IN
    /\ Exists(c, p)
    /\ q # p /\ ~Connected(c, q)
    /\ ports' = [ports EXCEPT ![c] = [@ EXCEPT ![p] = None, ![q] = pi]]
    /\ \/ /\ pi.net # None /\ pi.user_idx # None
          /\ users' = [users EXCEPT ![pi.net][pi.user_idx] = <<c, q>>]
       \/ /\ pi.net = None \/ pi.user_idx = None
          /\ UNCHANGED users
    /\ UNCHANGED <<nets, driver>>

\* Callers rename to a port that is not connected.
RenamePort(c, p, q) ==
    LET pi == ports[c][p] IN
    /\ Exists(c, p)
    /\ q # p /\ ~Connected(c, q)
    /\ ports' = [ports EXCEPT ![c] = [@ EXCEPT ![p] = None, ![q] = pi]]
    /\ driver' = [n \in Nets |-> IF pi.net = n /\ driver[n] = <<c, p>> THEN <<c, q>>
                                 ELSE driver[n]]
    /\ \/ /\ pi.net # None /\ pi.user_idx # None
          /\ users[pi.net][pi.user_idx] # None    \* asserted by indexed_store
          /\ users' = [users EXCEPT ![pi.net][pi.user_idx] = <<users[pi.net][pi.user_idx][1], q>>]
       \/ /\ pi.net = None \/ pi.user_idx = None
          /\ UNCHANGED users
    /\ UNCHANGED nets

\* The copy has the type of the port, and the net with it.  Callers copy to a
\* port that is not connected.
CopyPortTo(c, p, d, q) ==
    LET from == ports[c][p]
        copy == IF Exists(d, q) THEN [ports[d][q] EXCEPT !.type = from.type]
                ELSE [type |-> from.type, net |-> None, user_idx |-> None]
    IN
    /\ Exists(c, p)
    /\ ~Connected(d, q)
    /\ Retype \/ (Exists(d, q) => ports[d][q].type = from.type)
    /\ \/ /\ from.net = None
          /\ ports' = [ports EXCEPT ![d][q] = copy]
          /\ UNCHANGED <<driver, users>>
       \/ /\ from.net # None
          /\ Attach(d, q, copy, from.net)
    /\ UNCHANGED nets

Next ==
    \/ \E n \in Nets : CreateNet(n)
    \/ \E c \in Cells, p \in PortNames, t \in PortTypes : AddPort(c, p, t)
    \/ \E c \in Cells, p \in PortNames, n \in Nets : ConnectPort(c, p, n)
    \/ \E c \in Cells, p \in PortNames : DisconnectPort(c, p)
    \/ \E c, d \in Cells, p, q \in PortNames : ConnectPorts(c, p, d, q)
    \/ \E c, d \in Cells, p, q \in PortNames : MovePortTo(c, p, d, q)
    \/ \E c \in Cells, p, q \in PortNames : RenamePort(c, p, q)
    \/ \E c, d \in Cells, p, q \in PortNames : CopyPortTo(c, p, d, q)

Spec == Init /\ [][Next]_netlistVars

-----------------------------------------------------------------------------
(* Properties *)

\* The net of port <<c, p>> refers to the port: as its driver for an output, as
\* the user at the index of the port for the others.
IsKnown(c, p) ==
    LET pi == ports[c][p] IN
    /\ pi.net \in nets
    /\ IF pi.type = "PORT_OUT" THEN driver[pi.net] = <<c, p>>
       ELSE pi.user_idx # None /\ users[pi.net][pi.user_idx] = <<c, p>>

\* Port r refers to net n.
RefersTo(r, n) == Connected(r[1], r[2]) /\ ports[r[1]][r[2]].net = n

\* Context::check: a net knows every port that is connected to it.
PortsAreKnown ==
    \A c \in Cells, p \in PortNames : Connected(c, p) => IsKnown(c, p)

\* The driver of net n is an output that refers to n.
DriverRefers(n) ==
    LET r == driver[n] IN
    r # None => RefersTo(r, n) /\ ports[r[1]][r[2]].type = "PORT_OUT"

\* The user of net n at index i is an input or inout that refers to n and i.
UserRefers(n, i) ==
    LET r == users[n][i] IN
    r # None => /\ RefersTo(r, n)
                /\ ports[r[1]][r[2]].type # "PORT_OUT"
                /\ ports[r[1]][r[2]].user_idx = i

\* docs/netlist.md on NetInfo: the driver of a net is an output and its users
\* are inputs or inouts, which refer back to the net; each user is there once.
NetsRefer ==
    \A n \in Nets : DriverRefers(n) /\ \A i \in Indices : UserRefers(n, i)
=============================================================================
