-------------------------- MODULE Netlist_proofs --------------------------
(***************************************************************************)
(* Ports and nets refer to each other, for any cells, ports, nets and      *)
(* indices, as long as no port that exists gets another type and none is   *)
(* moved to a new port of its own cell.                                    *)
(*                                                                         *)
(* The two references are not inductive by themselves.  disconnectPort     *)
(* leaves the index of a port as it was, and would free it in the users of *)
(* the next net if the port were an output by then; so the induction needs *)
(* that an output never has an index.                                      *)
(***************************************************************************)
EXTENDS Netlist, TLAPS

\* No output has an index in the users of a net.
OutputsHaveNoIndex ==
    \A c \in Cells, p \in PortNames :
      Exists(c, p) /\ ports[c][p].type = "PORT_OUT" => ports[c][p].user_idx = None

IInv == NetlistTypeOK /\ PortsAreKnown /\ NetsRefer /\ OutputsHaveNoIndex

-----------------------------------------------------------------------------
(* What a step does, port by port and index by index *)

\* Port <<c, p>> is left alone.
SamePort(c, p) == ports'[c][p] = ports[c][p]

\* Port <<c, p>> becomes pi and the other ports are left alone.
OnlyPort(c, p, pi) ==
    /\ ports'[c][p] = pi
    /\ \A e \in Cells, r \in PortNames : e # c \/ r # p => SamePort(e, r)

\* The users of n get r at index i, and the other users are left alone.
OnlyUser(n, i, r) ==
    /\ users'[n][i] = r
    /\ \A m \in Nets, j \in Indices : m # n \/ j # i => users'[m][j] = users[m][j]

\* Writing one port is written as an EXCEPT in the model: it keeps the type of
\* the ports and changes only that port.
LEMMA WriteOnePort ==
    ASSUME NetlistTypeOK,
           NEW c \in Cells, NEW p \in PortNames, NEW pi \in PortInfo \cup {None},
           ports' = [ports EXCEPT ![c][p] = pi]
    PROVE  /\ ports' \in [Cells -> [PortNames -> PortInfo \cup {None}]]
           /\ OnlyPort(c, p, pi)
BY DEF NetlistTypeOK, OnlyPort, SamePort

\* Likewise for one entry of the users of a net.
LEMMA WriteOneUser ==
    ASSUME NetlistTypeOK,
           NEW n \in Nets, NEW i \in Indices, NEW r \in PortRefs \cup {None},
           users' = [users EXCEPT ![n][i] = r]
    PROVE  /\ users' \in [Nets -> [Indices -> PortRefs \cup {None}]]
           /\ OnlyUser(n, i, r)
BY DEF NetlistTypeOK, OnlyUser

\* A port that is left alone stays known to its net when the nets keep their
\* references to it.
LEMMA StaysKnown ==
    ASSUME IInv, NEW c \in Cells, NEW p \in PortNames, Connected(c, p), SamePort(c, p),
           ports[c][p].net \in nets',
           \A n \in Nets : driver[n] = <<c, p>> => driver'[n] = <<c, p>>,
           \A n \in Nets, i \in Indices : users[n][i] = <<c, p>> => users'[n][i] = <<c, p>>
    PROVE  IsKnown(c, p)'
<1>1. IsKnown(c, p) /\ ports[c][p] \in PortInfo
  BY DEF IInv, PortsAreKnown, NetlistTypeOK, Connected, Exists
<1>2. ports[c][p].net \in Nets /\ ports[c][p].user_idx \in Indices \cup {None}
  BY <1>1, NetlistAssumption DEF PortInfo, IInv, NetlistTypeOK, IsKnown
<1> QED BY <1>1, <1>2 DEF IsKnown, SamePort

\* A driver that is left alone, with its port, still refers to the net.
LEMMA DriverStays ==
    ASSUME IInv, NEW n \in Nets, driver'[n] = driver[n],
           \A c \in Cells, p \in PortNames : driver[n] = <<c, p>> => SamePort(c, p)
    PROVE  DriverRefers(n)'
<1>1. DriverRefers(n) /\ driver[n] \in PortRefs \cup {None}
  BY DEF IInv, NetsRefer, NetlistTypeOK
<1>2. CASE driver[n] = None
  BY <1>2 DEF DriverRefers
<1>3. CASE driver[n] # None
  <2>1. PICK c \in Cells, p \in PortNames : driver[n] = <<c, p>>
    BY <1>1, <1>3 DEF PortRefs
  <2> QED BY <1>1, <1>3, <2>1 DEF DriverRefers, RefersTo, Connected, Exists, SamePort
<1> QED BY <1>2, <1>3

\* Likewise for a user.
LEMMA UserStays ==
    ASSUME IInv, NEW n \in Nets, NEW i \in Indices, users'[n][i] = users[n][i],
           \A c \in Cells, p \in PortNames : users[n][i] = <<c, p>> => SamePort(c, p)
    PROVE  UserRefers(n, i)'
<1>1. UserRefers(n, i) /\ users[n][i] \in PortRefs \cup {None}
  BY DEF IInv, NetsRefer, NetlistTypeOK
<1>2. CASE users[n][i] = None
  BY <1>2 DEF UserRefers
<1>3. CASE users[n][i] # None
  <2>1. PICK c \in Cells, p \in PortNames : users[n][i] = <<c, p>>
    BY <1>1, <1>3 DEF PortRefs
  <2> QED BY <1>1, <1>3, <2>1 DEF UserRefers, RefersTo, Connected, Exists, SamePort
<1> QED BY <1>2, <1>3

\* A user that is connected to the net at its index refers to the net.
LEMMA UserGiven ==
    ASSUME NEW n \in Nets, NEW i \in Indices, NEW c \in Cells, NEW p \in PortNames,
           users'[n][i] = <<c, p>>, Connected(c, p)', ports'[c][p].net = n,
           ports'[c][p].type # "PORT_OUT", ports'[c][p].user_idx = i
    PROVE  UserRefers(n, i)'
BY DEF UserRefers, RefersTo

\* The references of the nets lead to connected ports.
LEMMA ReferredIsConnected ==
    ASSUME IInv, NEW c \in Cells, NEW p \in PortNames, NEW n \in Nets
    PROVE  /\ driver[n] = <<c, p>> =>
                Connected(c, p) /\ ports[c][p].net = n /\ ports[c][p].type = "PORT_OUT"
           /\ \A i \in Indices : users[n][i] = <<c, p>> =>
                /\ Connected(c, p) /\ ports[c][p].net = n
                /\ ports[c][p].type # "PORT_OUT" /\ ports[c][p].user_idx = i
<1>1. <<c, p>> \in PortRefs /\ <<c, p>> # None
  BY NetlistAssumption DEF PortRefs
<1>2. DriverRefers(n) /\ \A i \in Indices : UserRefers(n, i)
  BY DEF IInv, NetsRefer
<1>3. ASSUME driver[n] = <<c, p>>
      PROVE  Connected(c, p) /\ ports[c][p].net = n /\ ports[c][p].type = "PORT_OUT"
  BY <1>1, <1>2, <1>3 DEF DriverRefers, RefersTo
<1>4. ASSUME NEW i \in Indices, users[n][i] = <<c, p>>
      PROVE  /\ Connected(c, p) /\ ports[c][p].net = n
             /\ ports[c][p].type # "PORT_OUT" /\ ports[c][p].user_idx = i
  <2>1. UserRefers(n, i)
    BY <1>2
  <2> QED BY ONLY <1>1, <1>4, <2>1 DEF UserRefers, RefersTo
<1> QED BY <1>3, <1>4

\* When all connected ports are left alone, only the entries that change have
\* to be looked at.
LEMMA OthersRefer ==
    ASSUME IInv,
           \A c \in Cells, p \in PortNames : Connected(c, p) => SamePort(c, p)
    PROVE  \A n \in Nets :
             /\ driver'[n] = driver[n] => DriverRefers(n)'
             /\ \A i \in Indices : users'[n][i] = users[n][i] => UserRefers(n, i)'
<1> SUFFICES ASSUME NEW n \in Nets
             PROVE  /\ driver'[n] = driver[n] => DriverRefers(n)'
                    /\ \A i \in Indices : users'[n][i] = users[n][i] => UserRefers(n, i)'
  OBVIOUS
<1>0. \A c \in Cells, p \in PortNames :
        /\ driver[n] = <<c, p>> => Connected(c, p)
        /\ \A i \in Indices : users[n][i] = <<c, p>> => Connected(c, p)
  BY ReferredIsConnected
<1>1. \A c \in Cells, p \in PortNames : driver[n] = <<c, p>> => SamePort(c, p)
  BY <1>0
<1>2. \A i \in Indices : \A c \in Cells, p \in PortNames :
        users[n][i] = <<c, p>> => SamePort(c, p)
  BY <1>0
<1>3. driver'[n] = driver[n] => DriverRefers(n)'
  BY <1>1, DriverStays
<1>4. \A i \in Indices : users'[n][i] = users[n][i] => UserRefers(n, i)'
  BY <1>2, UserStays
<1> QED BY <1>3, <1>4

\* createNet: the new net is not referred to.
LEMMA CreateNetKeeps ==
    ASSUME NEW n \in Nets, IInv, CreateNet(n)
    PROVE  IInv'
<1>1. NetlistTypeOK /\ PortsAreKnown /\ NetsRefer /\ OutputsHaveNoIndex
  BY DEF IInv
<1>2. nets' = nets \cup {n} /\ ports' = ports /\ driver' = driver /\ users' = users
  BY DEF CreateNet
<1>3. NetlistTypeOK' /\ OutputsHaveNoIndex'
  BY <1>1, <1>2 DEF NetlistTypeOK, OutputsHaveNoIndex, Exists
<1>4. PortsAreKnown'
  BY <1>1, <1>2 DEF PortsAreKnown, IsKnown, Connected, Exists
<1>5. NetsRefer'
  <2>1. \A c \in Cells, p \in PortNames : SamePort(c, p)
    BY <1>2 DEF SamePort
  <2> QED BY <1>2, <2>1, OthersRefer DEF NetsRefer
<1> QED BY <1>3, <1>4, <1>5 DEF IInv

\* A port that is not connected is written as pi, which is not connected either.
LEMMA WriteUnconnectedKeeps ==
    ASSUME NEW c \in Cells, NEW p \in PortNames, NEW pi \in PortInfo,
           IInv, ~Connected(c, p), pi.net = None,
           pi.type = "PORT_OUT" => pi.user_idx = None,
           ports' = [ports EXCEPT ![c][p] = pi],
           UNCHANGED <<nets, driver, users>>
    PROVE  IInv'
<1> USE NetlistAssumption
<1>1. NetlistTypeOK /\ PortsAreKnown /\ NetsRefer /\ OutputsHaveNoIndex
  BY DEF IInv
<1>2. nets' = nets /\ driver' = driver /\ users' = users
  OBVIOUS
<1>3. pi # None
  OBVIOUS
<1>4. /\ ports' \in [Cells -> [PortNames -> PortInfo \cup {None}]]
      /\ OnlyPort(c, p, pi)
  BY <1>1, WriteOnePort
<1>5. NetlistTypeOK'
  BY <1>1, <1>2, <1>4 DEF NetlistTypeOK
<1>6. PortsAreKnown'
  <2> SUFFICES ASSUME NEW e \in Cells, NEW r \in PortNames, Connected(e, r)'
               PROVE  IsKnown(e, r)'
    BY DEF PortsAreKnown
  <2>1. SamePort(e, r)
    BY <1>3, <1>4 DEF OnlyPort, Connected, Exists
  <2>2. Connected(e, r) /\ IsKnown(e, r)
    BY <1>1, <2>1 DEF PortsAreKnown, SamePort, Connected, Exists
  <2> QED BY <1>2, <2>1, <2>2, StaysKnown DEF IsKnown
<1>7. NetsRefer'
  <2>1. \A e \in Cells, r \in PortNames : Connected(e, r) => SamePort(e, r)
    BY <1>4 DEF OnlyPort
  <2>2. \A n \in Nets : DriverRefers(n)' /\ \A i \in Indices : UserRefers(n, i)'
    BY <1>2, <2>1, OthersRefer
  <2> QED BY <2>2 DEF NetsRefer
<1>8. OutputsHaveNoIndex'
  BY <1>1, <1>3, <1>4 DEF OutputsHaveNoIndex, OnlyPort, SamePort, Exists
<1> QED BY <1>5, <1>6, <1>7, <1>8 DEF IInv

\* addInput, addOutput and addInout on a new port.
LEMMA AddPortKeeps ==
    ASSUME NEW c \in Cells, NEW p \in PortNames, NEW t \in PortTypes,
           Retype = FALSE, IInv, AddPort(c, p, t)
    PROVE  IInv'
<1> DEFINE pi == [type |-> t, net |-> None, user_idx |-> None]
<1>1. /\ ~Connected(c, p)
      /\ ports' = [ports EXCEPT ![c][p] = pi]
      /\ UNCHANGED <<nets, driver, users>>
  BY DEF AddPort, Connected
<1>2. pi \in PortInfo /\ pi.net = None /\ pi.user_idx = None
  BY DEF PortInfo
<1> QED BY <1>1, <1>2, WriteUnconnectedKeeps

\* A port that is not connected is written as pi and connected to n.
LEMMA AttachKeeps ==
    ASSUME NEW c \in Cells, NEW p \in PortNames, NEW pi \in PortInfo, NEW n \in nets,
           IInv, ~Connected(c, p), pi.type = "PORT_OUT" => pi.user_idx = None,
           Attach(c, p, pi, n), nets' = nets
    PROVE  IInv'
<1> USE NetlistAssumption
<1>1. NetlistTypeOK /\ PortsAreKnown /\ NetsRefer /\ OutputsHaveNoIndex /\ n \in Nets
  BY DEF IInv, NetlistTypeOK
<1>2. <<c, p>> \in PortRefs /\ <<c, p>> # None
  BY DEF PortRefs
<1>3. CASE pi.type = "PORT_OUT"
  <2> DEFINE po == [pi EXCEPT !.net = n]
  <2>1. /\ driver[n] = None
        /\ driver' = [driver EXCEPT ![n] = <<c, p>>]
        /\ ports' = [ports EXCEPT ![c][p] = po]
        /\ users' = users
    BY <1>3 DEF Attach
  <2>2. /\ po \in PortInfo /\ po # None
        /\ po.net = n /\ po.type = "PORT_OUT" /\ po.user_idx = None
    BY <1>1, <1>3 DEF PortInfo
  <2> HIDE DEF po
  <2>3. /\ ports' \in [Cells -> [PortNames -> PortInfo \cup {None}]]
        /\ OnlyPort(c, p, po)
    BY <1>1, <2>1, <2>2, WriteOnePort
  <2>4. NetlistTypeOK'
    BY <1>1, <1>2, <2>1, <2>3 DEF NetlistTypeOK
  <2>5. PortsAreKnown'
    <3> SUFFICES ASSUME NEW e \in Cells, NEW r \in PortNames, Connected(e, r)'
                 PROVE  IsKnown(e, r)'
      BY DEF PortsAreKnown
    <3>1. CASE e = c /\ r = p
      BY <1>1, <2>1, <2>2, <2>3, <3>1 DEF IsKnown, OnlyPort, NetlistTypeOK
    <3>2. CASE e # c \/ r # p
      <4>1. SamePort(e, r)
        BY <2>3, <3>2 DEF OnlyPort
      <4>2. Connected(e, r) /\ IsKnown(e, r) /\ ports[e][r] \in PortInfo
        BY <1>1, <4>1 DEF PortsAreKnown, SamePort, Connected, Exists, NetlistTypeOK
      <4>3. \A m \in Nets : driver[m] = <<e, r>> => driver'[m] = <<e, r>>
        <5>1. driver[n] # <<e, r>>
          BY <2>1 DEF PortRefs
        <5> QED BY <1>1, <2>1, <5>1 DEF NetlistTypeOK
      <4> QED BY <2>1, <4>1, <4>2, <4>3, StaysKnown DEF IsKnown
    <3> QED BY <3>1, <3>2
  <2>6. NetsRefer'
    <3>1. \A e \in Cells, r \in PortNames : Connected(e, r) => SamePort(e, r)
      BY <2>3 DEF OnlyPort
    <3> SUFFICES ASSUME NEW m \in Nets
                 PROVE  DriverRefers(m)' /\ \A i \in Indices : UserRefers(m, i)'
      BY DEF NetsRefer
    <3>2. \A i \in Indices : UserRefers(m, i)'
      BY <2>1, <3>1, OthersRefer
    <3>3. CASE m = n
      BY <1>1, <1>2, <2>1, <2>2, <2>3, <3>2, <3>3
      DEF DriverRefers, RefersTo, OnlyPort, Connected, Exists, NetlistTypeOK
    <3>4. CASE m # n
      <4>1. driver'[m] = driver[m]
        BY <1>1, <2>1, <3>4 DEF NetlistTypeOK
      <4> QED BY <3>1, <3>2, <4>1, OthersRefer
    <3> QED BY <3>2, <3>3, <3>4
  <2>7. OutputsHaveNoIndex'
    BY <1>1, <2>2, <2>3 DEF OutputsHaveNoIndex, OnlyPort, SamePort, Exists
  <2> QED BY <2>4, <2>5, <2>6, <2>7 DEF IInv
<1>4. CASE pi.type # "PORT_OUT"
  <2>1. PICK i \in FreeIndices(n) :
          /\ users' = [users EXCEPT ![n][i] = <<c, p>>]
          /\ ports' = [ports EXCEPT ![c][p] = [pi EXCEPT !.net = n, !.user_idx = i]]
    BY <1>4 DEF Attach
  <2>2. driver' = driver /\ i \in Indices /\ users[n][i] = None /\ i # None
    BY <1>4 DEF Attach, FreeIndices
  <2> DEFINE po == [pi EXCEPT !.net = n, !.user_idx = i]
  <2>3. /\ po \in PortInfo /\ po # None
        /\ po.net = n /\ po.type # "PORT_OUT" /\ po.user_idx = i
    BY <1>1, <1>4, <2>2 DEF PortInfo
  <2>4. ports' = [ports EXCEPT ![c][p] = po]
    BY <2>1
  <2> HIDE DEF po
  <2>5. /\ ports' \in [Cells -> [PortNames -> PortInfo \cup {None}]]
        /\ OnlyPort(c, p, po)
    BY <1>1, <2>3, <2>4, WriteOnePort
  <2>6. /\ users' \in [Nets -> [Indices -> PortRefs \cup {None}]]
        /\ OnlyUser(n, i, <<c, p>>)
    BY <1>1, <1>2, <2>1, <2>2, WriteOneUser
  <2>7. NetlistTypeOK'
    BY <1>1, <2>2, <2>5, <2>6 DEF NetlistTypeOK
  <2>8. PortsAreKnown'
    <3> SUFFICES ASSUME NEW e \in Cells, NEW r \in PortNames, Connected(e, r)'
                 PROVE  IsKnown(e, r)'
      BY DEF PortsAreKnown
    <3>1. CASE e = c /\ r = p
      BY <1>1, <2>2, <2>3, <2>5, <2>6, <3>1 DEF IsKnown, OnlyPort, OnlyUser
    <3>2. CASE e # c \/ r # p
      <4>1. SamePort(e, r)
        BY <2>5, <3>2 DEF OnlyPort
      <4>2. Connected(e, r) /\ IsKnown(e, r) /\ ports[e][r] \in PortInfo
        BY <1>1, <4>1 DEF PortsAreKnown, SamePort, Connected, Exists, NetlistTypeOK
      <4>3. \A m \in Nets, j \in Indices : users[m][j] = <<e, r>> => users'[m][j] = <<e, r>>
        <5>1. users[n][i] # <<e, r>>
          BY <2>2 DEF PortRefs
        <5> QED BY <2>6, <5>1 DEF OnlyUser
      <4> QED BY <2>2, <4>1, <4>2, <4>3, StaysKnown DEF IsKnown
    <3> QED BY <3>1, <3>2
  <2>9. NetsRefer'
    <3>1. \A e \in Cells, r \in PortNames : Connected(e, r) => SamePort(e, r)
      BY <2>5 DEF OnlyPort
    <3>2. \A m \in Nets : DriverRefers(m)'
      BY <2>2, <3>1, OthersRefer
    <3>3. UserRefers(n, i)'
      BY <1>1, <1>2, <2>3, <2>5, <2>6
      DEF UserRefers, RefersTo, OnlyPort, OnlyUser, Connected, Exists
    <3>4. \A m \in Nets, j \in Indices : m # n \/ j # i => UserRefers(m, j)'
      BY <2>6, <3>1, OthersRefer DEF OnlyUser
    <3> QED BY <3>2, <3>3, <3>4 DEF NetsRefer
  <2>10. OutputsHaveNoIndex'
    BY <1>1, <2>3, <2>5 DEF OutputsHaveNoIndex, OnlyPort, SamePort, Exists
  <2> QED BY <2>7, <2>8, <2>9, <2>10 DEF IInv
<1> QED BY <1>3, <1>4

\* connectPort.
LEMMA ConnectPortKeeps ==
    ASSUME NEW c \in Cells, NEW p \in PortNames, NEW n \in Nets,
           IInv, ConnectPort(c, p, n)
    PROVE  IInv'
<1>1. n \in nets /\ Exists(c, p) /\ ~Connected(c, p) /\ Attach(c, p, ports[c][p], n)
      /\ nets' = nets
  BY DEF ConnectPort
<1>2. ports[c][p] \in PortInfo
      /\ (ports[c][p].type = "PORT_OUT" => ports[c][p].user_idx = None)
  BY <1>1 DEF IInv, NetlistTypeOK, OutputsHaveNoIndex, Exists
<1> QED BY <1>1, <1>2, AttachKeeps

\* copyPortTo: the port copied to is new, or of the same type already.
LEMMA CopyPortKeeps ==
    ASSUME NEW c \in Cells, NEW d \in Cells, NEW p \in PortNames, NEW q \in PortNames,
           Retype = FALSE, IInv, CopyPortTo(c, p, d, q)
    PROVE  IInv'
<1> DEFINE from == ports[c][p]
           copy == IF Exists(d, q) THEN [ports[d][q] EXCEPT !.type = from.type]
                   ELSE [type |-> from.type, net |-> None, user_idx |-> None]
<1>1. NetlistTypeOK /\ PortsAreKnown /\ OutputsHaveNoIndex
  BY DEF IInv
<1>2. /\ Exists(c, p) /\ ~Connected(d, q)
      /\ Exists(d, q) => ports[d][q].type = from.type
      /\ nets' = nets
  BY DEF CopyPortTo
<1>3. from \in PortInfo
  BY <1>1, <1>2 DEF NetlistTypeOK, Exists
<1>4. /\ copy \in PortInfo /\ copy.net = None
      /\ copy.type = "PORT_OUT" => copy.user_idx = None
  <2>1. CASE Exists(d, q)
    <3>1. ports[d][q] \in PortInfo
      BY <1>1, <2>1 DEF NetlistTypeOK, Exists
    <3>2. copy = ports[d][q]
      BY <1>2, <2>1, <3>1 DEF PortInfo
    <3> QED BY <1>1, <1>2, <2>1, <3>1, <3>2 DEF OutputsHaveNoIndex, Connected
  <2>2. CASE ~Exists(d, q)
    BY <1>3, <2>2 DEF PortInfo
  <2> QED BY <2>1, <2>2
<1>5. CASE from.net = None
  <2>1. ports' = [ports EXCEPT ![d][q] = copy] /\ UNCHANGED <<nets, driver, users>>
    BY <1>2, <1>5, NetlistAssumption DEF CopyPortTo
  <2> QED BY <1>2, <1>4, <2>1, WriteUnconnectedKeeps
<1>6. CASE from.net # None
  <2>1. Attach(d, q, copy, from.net)
    BY <1>6 DEF CopyPortTo
  <2>2. from.net \in nets
    BY <1>1, <1>2, <1>6 DEF PortsAreKnown, IsKnown, Connected
  <2> QED BY <1>2, <1>4, <2>1, <2>2, AttachKeeps
<1> QED BY <1>5, <1>6

\* disconnectPort: the one reference to the port goes with the connection.
LEMMA DisconnectPortKeeps ==
    ASSUME NEW c \in Cells, NEW p \in PortNames, IInv, DisconnectPort(c, p)
    PROVE  IInv'
<1> USE NetlistAssumption
<1> DEFINE pi == ports[c][p]
           n == pi.net
           po == [pi EXCEPT !.net = None]
<1>1. NetlistTypeOK /\ PortsAreKnown /\ NetsRefer /\ OutputsHaveNoIndex
  BY DEF IInv
<1>2. /\ Connected(c, p) /\ nets' = nets
      /\ ports' = [ports EXCEPT ![c][p].net = None]
      /\ driver' = [driver EXCEPT ![n] = IF @ = <<c, p>> THEN None ELSE @]
  BY DEF DisconnectPort
<1>3. IsKnown(c, p) /\ pi \in PortInfo /\ n \in Nets /\ <<c, p>> \in PortRefs
  <2>1. IsKnown(c, p) /\ pi \in PortInfo
    BY <1>1, <1>2 DEF PortsAreKnown, NetlistTypeOK, Connected, Exists
  <2> QED BY <1>1, <2>1 DEF IsKnown, NetlistTypeOK, PortRefs
<1>4. /\ po \in PortInfo /\ po # None /\ po.net = None
      /\ po.type = pi.type /\ po.user_idx = pi.user_idx
  BY <1>3 DEF PortInfo
<1>5. ports' = [ports EXCEPT ![c][p] = po]
  BY <1>1, <1>2 DEF NetlistTypeOK
<1>6. /\ ports' \in [Cells -> [PortNames -> PortInfo \cup {None}]]
      /\ OnlyPort(c, p, po)
  BY <1>1, <1>4, <1>5, WriteOnePort
<1>7. /\ driver' \in [Nets -> PortRefs \cup {None}]
      /\ \A m \in Nets : driver'[m] = IF driver[m] = <<c, p>> THEN None ELSE driver[m]
  <2>1. \A m \in Nets : driver[m] = <<c, p>> => m = n
    BY ReferredIsConnected
  <2> QED BY <1>1, <1>2, <1>3, <2>1 DEF NetlistTypeOK
<1>8. /\ users' \in [Nets -> [Indices -> PortRefs \cup {None}]]
      /\ \A m \in Nets, i \in Indices :
           users'[m][i] = IF users[m][i] = <<c, p>> THEN None ELSE users[m][i]
  <2>1. \A m \in Nets, i \in Indices : users[m][i] = <<c, p>> =>
          m = n /\ i = pi.user_idx /\ pi.type # "PORT_OUT"
    BY ReferredIsConnected
  <2>2. CASE pi.user_idx = None
    <3>1. users' = users
      BY <2>2 DEF DisconnectPort
    <3> QED BY <1>1, <2>1, <2>2, <3>1 DEF NetlistTypeOK
  <2>3. CASE pi.user_idx # None
    <3>1. users' = [users EXCEPT ![n][pi.user_idx] = None] /\ pi.user_idx \in Indices
      BY <1>3, <2>3 DEF DisconnectPort, PortInfo
    <3>2. pi.type # "PORT_OUT"
      BY <1>1, <1>2, <2>3 DEF OutputsHaveNoIndex, Connected
    <3>3. users[n][pi.user_idx] = <<c, p>>
      BY <1>3, <3>2 DEF IsKnown
    <3>4. /\ users' \in [Nets -> [Indices -> PortRefs \cup {None}]]
          /\ OnlyUser(n, pi.user_idx, None)
      BY <1>1, <1>3, <3>1, WriteOneUser
    <3> QED BY <2>1, <3>3, <3>4 DEF OnlyUser
  <2> QED BY <2>2, <2>3
<1> HIDE DEF pi, n, po
<1>9. NetlistTypeOK'
  BY <1>1, <1>2, <1>6, <1>7, <1>8 DEF NetlistTypeOK
<1>10. PortsAreKnown'
  <2> SUFFICES ASSUME NEW e \in Cells, NEW r \in PortNames, Connected(e, r)'
               PROVE  IsKnown(e, r)'
    BY DEF PortsAreKnown
  <2>1. (e # c \/ r # p) /\ SamePort(e, r)
    BY <1>4, <1>6 DEF OnlyPort, Connected, Exists
  <2>2. Connected(e, r) /\ IsKnown(e, r) /\ <<e, r>> # <<c, p>>
    BY <1>1, <2>1 DEF PortsAreKnown, SamePort, Connected, Exists
  <2>3. ports[e][r].net \in nets'
    BY <1>2, <2>2 DEF IsKnown
  <2>4. \A m \in Nets : driver[m] = <<e, r>> => driver'[m] = <<e, r>>
    BY <1>7, <2>2
  <2>5. \A m \in Nets, i \in Indices : users[m][i] = <<e, r>> => users'[m][i] = <<e, r>>
    BY <1>8, <2>2
  <2> QED BY <2>1, <2>2, <2>3, <2>4, <2>5, StaysKnown
<1>11. NetsRefer'
  <2>1. \A e \in Cells, r \in PortNames : <<e, r>> # <<c, p>> => SamePort(e, r)
    BY <1>6 DEF OnlyPort
  <2>2. ASSUME NEW m \in Nets
        PROVE  DriverRefers(m)'
    <3>1. CASE driver[m] = <<c, p>>
      BY <1>7, <3>1 DEF DriverRefers
    <3>2. CASE driver[m] # <<c, p>>
      <4>1. \A e \in Cells, r \in PortNames : driver[m] = <<e, r>> => SamePort(e, r)
        BY <2>1, <3>2
      <4> QED BY <1>7, <3>2, <4>1, DriverStays
    <3> QED BY <3>1, <3>2
  <2>3. ASSUME NEW m \in Nets, NEW i \in Indices
        PROVE  UserRefers(m, i)'
    <3>1. CASE users[m][i] = <<c, p>>
      BY <1>8, <3>1 DEF UserRefers
    <3>2. CASE users[m][i] # <<c, p>>
      <4>1. \A e \in Cells, r \in PortNames : users[m][i] = <<e, r>> => SamePort(e, r)
        BY <2>1, <3>2
      <4> QED BY <1>8, <3>2, <4>1, UserStays
    <3> QED BY <3>1, <3>2
  <2> QED BY <2>2, <2>3 DEF NetsRefer
<1>12. OutputsHaveNoIndex'
  BY <1>1, <1>2, <1>4, <1>6
  DEF OutputsHaveNoIndex, OnlyPort, SamePort, Exists, Connected, pi
<1> QED BY <1>9, <1>10, <1>11, <1>12 DEF IInv

\* Port <<d, q>> takes the place of <<c, p>>, in its net as well, and <<c, p>>
\* is left without a net or is gone.
LEMMA TransferKeeps ==
    ASSUME NEW c \in Cells, NEW d \in Cells, NEW p \in PortNames, NEW q \in PortNames,
           IInv, Exists(c, p), ~Connected(d, q), <<c, p>> # <<d, q>>,
           ports' \in [Cells -> [PortNames -> PortInfo \cup {None}]],
           ports'[d][q] = ports[c][p],
           ~Connected(c, p)',
           ports'[c][p] # None => /\ ports'[c][p].type = ports[c][p].type
                                  /\ ports'[c][p].user_idx = None,
           \A e \in Cells, r \in PortNames :
             <<e, r>> # <<c, p>> /\ <<e, r>> # <<d, q>> => SamePort(e, r),
           driver' = [n \in Nets |-> IF driver[n] = <<c, p>> THEN <<d, q>> ELSE driver[n]],
           users' = [n \in Nets |-> [i \in Indices |->
                       IF users[n][i] = <<c, p>> THEN <<d, q>> ELSE users[n][i]]],
           nets' = nets
    PROVE  IInv'
<1> USE NetlistAssumption
<1>1. NetlistTypeOK /\ PortsAreKnown /\ NetsRefer /\ OutputsHaveNoIndex
  BY DEF IInv
<1>2. /\ <<d, q>> \in PortRefs /\ <<d, q>> # None
      /\ ports[c][p] \in PortInfo /\ ports[c][p] # None
  BY <1>1 DEF PortRefs, NetlistTypeOK, Exists
<1>3. NetlistTypeOK'
  BY <1>1, <1>2 DEF NetlistTypeOK
<1>4. PortsAreKnown'
  <2> SUFFICES ASSUME NEW e \in Cells, NEW r \in PortNames, Connected(e, r)'
               PROVE  IsKnown(e, r)'
    BY DEF PortsAreKnown
  <2>1. <<e, r>> # <<c, p>>
    OBVIOUS
  <2>2. CASE <<e, r>> = <<d, q>>
    <3>1. Connected(c, p) /\ IsKnown(c, p)
      BY <1>1, <1>2, <2>2 DEF PortsAreKnown, Connected, Exists
    <3>2. /\ ports[c][p].net \in Nets
          /\ ports[c][p].user_idx # None => ports[c][p].user_idx \in Indices
      BY <1>1, <1>2, <3>1 DEF IsKnown, NetlistTypeOK, PortInfo
    <3> QED BY <2>2, <3>1, <3>2 DEF IsKnown
  <2>3. CASE <<e, r>> # <<d, q>>
    <3>1. SamePort(e, r)
      BY <2>1, <2>3
    <3>2. Connected(e, r) /\ IsKnown(e, r)
      BY <1>1, <3>1 DEF PortsAreKnown, SamePort, Connected, Exists
    <3>3. ports[e][r].net \in nets'
      BY <3>2 DEF IsKnown
    <3>4. \A n \in Nets : driver[n] = <<e, r>> => driver'[n] = <<e, r>>
      BY <2>1
    <3>5. \A n \in Nets, i \in Indices : users[n][i] = <<e, r>> => users'[n][i] = <<e, r>>
      BY <2>1
    <3> QED BY <3>1, <3>2, <3>3, <3>4, <3>5, StaysKnown
  <2> QED BY <2>2, <2>3
<1>5. NetsRefer'
  <2>1. ASSUME NEW n \in Nets
        PROVE  DriverRefers(n)'
    <3>1. CASE driver[n] = <<c, p>>
      <4>1. Connected(c, p) /\ ports[c][p].net = n /\ ports[c][p].type = "PORT_OUT"
        BY <3>1, ReferredIsConnected
      <4>2. driver'[n] = <<d, q>>
        BY <3>1
      <4>3. /\ Connected(d, q)' /\ ports'[d][q].net = n
            /\ ports'[d][q].type = "PORT_OUT"
        BY <4>1 DEF Connected, Exists
      <4> QED BY ONLY <4>2, <4>3, c \in Cells, d \in Cells, p \in PortNames, q \in PortNames
              DEF DriverRefers, RefersTo
    <3>2. CASE driver[n] # <<c, p>>
      <4>1. \A e \in Cells, r \in PortNames : driver[n] = <<e, r>> => SamePort(e, r)
        BY <3>2, ReferredIsConnected
      <4> QED BY <3>2, <4>1, DriverStays
    <3> QED BY <3>1, <3>2
  <2>2. ASSUME NEW n \in Nets, NEW i \in Indices
        PROVE  UserRefers(n, i)'
    <3>1. CASE users[n][i] = <<c, p>>
      <4>1. /\ Connected(c, p) /\ ports[c][p].net = n
            /\ ports[c][p].type # "PORT_OUT" /\ ports[c][p].user_idx = i
        BY <3>1, ReferredIsConnected
      <4>2. users'[n][i] = <<d, q>>
        BY <3>1
      <4>3. /\ Connected(d, q)' /\ ports'[d][q].net = n
            /\ ports'[d][q].type # "PORT_OUT" /\ ports'[d][q].user_idx = i
        BY <4>1 DEF Connected, Exists
      <4> QED BY <4>2, <4>3, UserGiven
    <3>2. CASE users[n][i] # <<c, p>>
      <4>1. \A e \in Cells, r \in PortNames : users[n][i] = <<e, r>> => SamePort(e, r)
        BY <3>2, ReferredIsConnected
      <4> QED BY <3>2, <4>1, UserStays
    <3> QED BY <3>1, <3>2
  <2> QED BY <2>1, <2>2 DEF NetsRefer
<1>6. OutputsHaveNoIndex'
  <2> SUFFICES ASSUME NEW e \in Cells, NEW r \in PortNames,
                      Exists(e, r)', ports'[e][r].type = "PORT_OUT"
               PROVE  ports'[e][r].user_idx = None
    BY DEF OutputsHaveNoIndex
  <2>1. CASE <<e, r>> = <<c, p>>
    BY <2>1 DEF Exists
  <2>2. CASE <<e, r>> = <<d, q>>
    BY <1>1, <2>2 DEF OutputsHaveNoIndex
  <2>3. CASE <<e, r>> # <<c, p>> /\ <<e, r>> # <<d, q>>
    BY <1>1, <2>3 DEF OutputsHaveNoIndex, SamePort, Exists
  <2> QED BY <2>1, <2>2, <2>3
<1> QED BY <1>3, <1>4, <1>5, <1>6 DEF IInv

\* The references to a port that exists and is connected, and to no other.
LEMMA ReferencesOfPort ==
    ASSUME IInv, NEW c \in Cells, NEW p \in PortNames, Exists(c, p)
    PROVE  LET pi == ports[c][p] IN
           /\ \A n \in Nets : driver[n] = <<c, p>> <=>
                pi.net # None /\ pi.type = "PORT_OUT" /\ n = pi.net
           /\ \A n \in Nets, i \in Indices : users[n][i] = <<c, p>> <=>
                /\ pi.net # None /\ pi.type # "PORT_OUT"
                /\ n = pi.net /\ i = pi.user_idx
<1> DEFINE pi == ports[c][p]
<1>1. Connected(c, p) <=> pi.net # None
  BY DEF Connected
<1>2. pi.net # None => IsKnown(c, p)
  BY <1>1 DEF IInv, PortsAreKnown
<1>3. \A n \in Nets : driver[n] = <<c, p>> <=>
        pi.net # None /\ pi.type = "PORT_OUT" /\ n = pi.net
  BY <1>1, <1>2, ReferredIsConnected DEF IsKnown
<1>4. \A n \in Nets, i \in Indices : users[n][i] = <<c, p>> <=>
        pi.net # None /\ pi.type # "PORT_OUT" /\ n = pi.net /\ i = pi.user_idx
  BY <1>1, <1>2, ReferredIsConnected DEF IsKnown
<1> QED BY <1>3, <1>4

\* movePortTo.
LEMMA MovePortKeeps ==
    ASSUME NEW c \in Cells, NEW d \in Cells, NEW p \in PortNames, NEW q \in PortNames,
           MoveWithin = FALSE, IInv, MovePortTo(c, p, d, q)
    PROVE  IInv'
<1> USE NetlistAssumption
<1> DEFINE old == ports[c][p]
           gone == [old EXCEPT !.net = None, !.user_idx = None]
<1>1. NetlistTypeOK
  BY DEF IInv
<1>2. /\ Exists(c, p) /\ <<c, p>> # <<d, q>> /\ ~Connected(d, q)
      /\ ports' = [ports EXCEPT ![d][q] = old, ![c][p] = gone]
      /\ nets' = nets
  BY DEF MovePortTo, MayMove, MovedTo
<1>3. old \in PortInfo /\ old # None
  BY <1>1, <1>2 DEF NetlistTypeOK, Exists
<1>4. /\ gone \in PortInfo /\ gone # None /\ gone.net = None
      /\ gone.type = old.type /\ gone.user_idx = None
  BY <1>3 DEF PortInfo
<1> HIDE DEF gone
<1>5. /\ ports' \in [Cells -> [PortNames -> PortInfo \cup {None}]]
      /\ ports'[d][q] = old /\ ports'[c][p] = gone
      /\ \A e \in Cells, r \in PortNames :
           <<e, r>> # <<c, p>> /\ <<e, r>> # <<d, q>> => SamePort(e, r)
  BY <1>1, <1>2, <1>3, <1>4 DEF NetlistTypeOK, SamePort
<1>6. ~Connected(c, p)'
  BY <1>4, <1>5 DEF Connected, Exists
<1>7. driver' = [n \in Nets |-> IF driver[n] = <<c, p>> THEN <<d, q>> ELSE driver[n]]
  <2>1. \A n \in Nets : driver[n] = <<c, p>> <=>
          old.net # None /\ old.type = "PORT_OUT" /\ n = old.net
    BY <1>2, ReferencesOfPort
  <2>2. CASE old.net # None /\ old.type = "PORT_OUT"
    <3>1. driver' = [driver EXCEPT ![old.net] = <<d, q>>]
      BY <2>2 DEF MovePortTo
    <3> QED BY <1>1, <2>1, <2>2, <3>1 DEF NetlistTypeOK
  <2>3. CASE ~(old.net # None /\ old.type = "PORT_OUT")
    <3>1. driver' = driver
      BY <2>3 DEF MovePortTo
    <3> QED BY <1>1, <2>1, <2>3, <3>1 DEF NetlistTypeOK
  <2> QED BY <2>2, <2>3
<1>8. users' = [n \in Nets |-> [i \in Indices |->
                  IF users[n][i] = <<c, p>> THEN <<d, q>> ELSE users[n][i]]]
  <2>1. \A n \in Nets, i \in Indices : users[n][i] = <<c, p>> <=>
          /\ old.net # None /\ old.type # "PORT_OUT"
          /\ n = old.net /\ i = old.user_idx
    BY <1>2, ReferencesOfPort
  <2>2. CASE old.net # None /\ old.type = "PORT_IN"
    <3>1. users' = [users EXCEPT ![old.net][old.user_idx] = <<d, q>>]
      BY <2>2 DEF MovePortTo
    <3>2. IsKnown(c, p)
      BY <1>2, <2>2 DEF IInv, PortsAreKnown, Connected
    <3>3. users[old.net][old.user_idx] = <<c, p>> /\ old.net \in Nets /\ old.user_idx # None
      BY <1>1, <2>2, <3>2 DEF IsKnown, NetlistTypeOK
    <3>4. old.user_idx \in Indices
      BY <1>3, <3>3 DEF PortInfo
    <3> HIDE DEF old
    <3>5. users' = [n \in Nets |-> [i \in Indices |->
                      IF n = old.net /\ i = old.user_idx THEN <<d, q>> ELSE users[n][i]]]
      BY <1>1, <3>1, <3>3, <3>4 DEF NetlistTypeOK
    <3>6. \A n \in Nets, i \in Indices :
             users[n][i] = <<c, p>> <=> n = old.net /\ i = old.user_idx
      BY <2>1, <2>2
    <3> QED BY <3>5, <3>6
  <2>3. CASE ~(old.net # None /\ old.type = "PORT_IN")
    <3>1. users' = users /\ (old.net = None \/ old.type = "PORT_OUT")
      BY <2>3 DEF MovePortTo
    <3> QED BY <1>1, <2>1, <3>1 DEF NetlistTypeOK
  <2> QED BY <2>2, <2>3
<1>9. /\ ports'[d][q] = ports[c][p]
      /\ ports'[c][p].type = ports[c][p].type /\ ports'[c][p].user_idx = None
  BY <1>4, <1>5
<1> HIDE DEF old
<1> QED BY <1>2, <1>5, <1>6, <1>7, <1>8, <1>9, TransferKeeps

\* renamePort.
LEMMA RenamePortKeeps ==
    ASSUME NEW c \in Cells, NEW p \in PortNames, NEW q \in PortNames,
           IInv, RenamePort(c, p, q)
    PROVE  IInv'
<1> USE NetlistAssumption
<1> DEFINE pi == ports[c][p]
<1>1. NetlistTypeOK /\ OutputsHaveNoIndex
  BY DEF IInv
<1>2. /\ Exists(c, p) /\ <<c, p>> # <<c, q>> /\ ~Connected(c, q)
      /\ ports' = [ports EXCEPT ![c] = [@ EXCEPT ![p] = None, ![q] = pi]]
      /\ driver' = [n \in Nets |-> IF pi.net = n /\ driver[n] = <<c, p>> THEN <<c, q>>
                                   ELSE driver[n]]
      /\ nets' = nets
  BY DEF RenamePort
<1>3. pi \in PortInfo /\ pi # None
  BY <1>1, <1>2 DEF NetlistTypeOK, Exists
<1>4. /\ ports' \in [Cells -> [PortNames -> PortInfo \cup {None}]]
      /\ ports'[c][q] = pi /\ ports'[c][p] = None
      /\ \A e \in Cells, r \in PortNames :
           <<e, r>> # <<c, p>> /\ <<e, r>> # <<c, q>> => SamePort(e, r)
  BY <1>1, <1>2, <1>3 DEF NetlistTypeOK, SamePort
<1>5. ~Connected(c, p)'
  BY <1>4 DEF Connected, Exists
<1>6. driver' = [n \in Nets |-> IF driver[n] = <<c, p>> THEN <<c, q>> ELSE driver[n]]
  <2>1. \A n \in Nets : driver[n] = <<c, p>> => pi.net = n
    BY ReferredIsConnected
  <2> QED BY <1>2, <2>1
<1>7. users' = [n \in Nets |-> [i \in Indices |->
                  IF users[n][i] = <<c, p>> THEN <<c, q>> ELSE users[n][i]]]
  <2>1. \A n \in Nets, i \in Indices : users[n][i] = <<c, p>> <=>
          /\ pi.net # None /\ pi.type # "PORT_OUT"
          /\ n = pi.net /\ i = pi.user_idx
    BY <1>2, ReferencesOfPort
  <2>2. CASE pi.net # None /\ pi.user_idx # None
    <3>1. pi.type # "PORT_OUT"
      BY <1>1, <1>2, <2>2 DEF OutputsHaveNoIndex
    <3>2. IsKnown(c, p)
      BY <1>2, <2>2 DEF IInv, PortsAreKnown, Connected
    <3>3. users[pi.net][pi.user_idx] = <<c, p>> /\ pi.net \in Nets
      BY <1>1, <3>1, <3>2 DEF IsKnown, NetlistTypeOK
    <3>4. users' = [users EXCEPT ![pi.net][pi.user_idx] =
                      <<users[pi.net][pi.user_idx][1], q>>]
      BY SMTT(20), <2>2 DEF RenamePort
    <3>5. users' = [users EXCEPT ![pi.net][pi.user_idx] = <<c, q>>]
      BY <3>3, <3>4
    <3>6. pi.net # None /\ users \in [Nets -> [Indices -> PortRefs \cup {None}]]
      BY <1>1, <2>2 DEF NetlistTypeOK
    <3>7. \A n \in Nets, i \in Indices :
            users[n][i] = <<c, p>> <=> n = pi.net /\ i = pi.user_idx
      BY <2>1, <3>1, <3>6
    <3> HIDE DEF pi
    <3>8. ASSUME NEW n \in Nets
          PROVE  users'[n] = [i \in Indices |->
                               IF users[n][i] = <<c, p>> THEN <<c, q>> ELSE users[n][i]]
      <4>1. users[n] \in [Indices -> PortRefs \cup {None}]
        BY ONLY <3>6
      <4>2. CASE n = pi.net
        <5>1. users'[n] = [users[n] EXCEPT ![pi.user_idx] = <<c, q>>]
          BY ONLY <3>3, <3>5, <3>6, <4>2
        <5> QED BY ONLY <3>7, <4>1, <4>2, <5>1
      <4>3. CASE n # pi.net
        <5>1. users'[n] = users[n]
          BY ONLY <3>5, <3>6, <4>3
        <5> QED BY ONLY <3>7, <4>1, <4>3, <5>1
      <4> QED BY <4>2, <4>3
    <3>9. users' = [n \in Nets |-> users'[n]]
      BY ONLY <3>5, <3>6
    <3> QED BY ONLY <3>8, <3>9
  <2>3. CASE pi.net = None \/ pi.user_idx = None
    <3>1. users' = users
      BY <2>3 DEF RenamePort
    <3> QED BY <1>1, <2>1, <2>3, <3>1 DEF NetlistTypeOK
  <2> QED BY <2>2, <2>3
<1> HIDE DEF pi
<1> QED BY <1>2, <1>4, <1>5, <1>6, <1>7, TransferKeeps DEF pi

\* A net that is yet to be made is not used.
LEMMA NewNetIsUnused ==
    ASSUME IInv, NEW n \in Nets \ nets
    PROVE  driver[n] = None /\ \A i \in Indices : users[n][i] = None
<1>1. \A c \in Cells, p \in PortNames : ~(Connected(c, p) /\ ports[c][p].net = n)
  BY DEF IInv, PortsAreKnown, IsKnown
<1>2. \A c \in Cells, p \in PortNames :
        driver[n] # <<c, p>> /\ \A i \in Indices : users[n][i] # <<c, p>>
  BY <1>1, ReferredIsConnected
<1>3. /\ driver[n] \in PortRefs \cup {None}
      /\ \A i \in Indices : users[n][i] \in PortRefs \cup {None}
  BY DEF IInv, NetlistTypeOK
<1> QED BY <1>2, <1>3 DEF PortRefs

\* Two ports that are not connected are written as one and two, both of them
\* connected to the new net n, which refers to them and to no other port.
LEMMA TwoOnNewNetKeeps ==
    ASSUME NEW c \in Cells, NEW d \in Cells, NEW p \in PortNames, NEW q \in PortNames,
           NEW n \in Nets \ nets, NEW i \in Indices, NEW j \in Indices, i # j,
           NEW one \in PortInfo, NEW two \in PortInfo,
           IInv, ~Connected(c, p), ~Connected(d, q), <<c, p>> # <<d, q>>,
           one.net = n, two.net = n,
           IF one.type = "PORT_OUT" THEN one.user_idx = None ELSE one.user_idx = i,
           IF two.type = "PORT_OUT" THEN two.user_idx = None ELSE two.user_idx = j,
           ~(one.type = "PORT_OUT" /\ two.type = "PORT_OUT"),
           ports' \in [Cells -> [PortNames -> PortInfo \cup {None}]],
           ports'[c][p] = one, ports'[d][q] = two,
           \A e \in Cells, r \in PortNames :
             <<e, r>> # <<c, p>> /\ <<e, r>> # <<d, q>> => SamePort(e, r),
           nets' = nets \cup {n},
           driver' \in [Nets -> PortRefs \cup {None}],
           \A m \in Nets : m # n => driver'[m] = driver[m],
           driver'[n] = IF one.type = "PORT_OUT" THEN <<c, p>>
                        ELSE IF two.type = "PORT_OUT" THEN <<d, q>> ELSE None,
           users' \in [Nets -> [Indices -> PortRefs \cup {None}]],
           \A m \in Nets, k \in Indices : m # n => users'[m][k] = users[m][k],
           \A k \in Indices :
             users'[n][k] = IF k = i /\ one.type # "PORT_OUT" THEN <<c, p>>
                            ELSE IF k = j /\ two.type # "PORT_OUT" THEN <<d, q>> ELSE None
    PROVE  IInv'
<1> USE NetlistAssumption
<1>1. NetlistTypeOK /\ PortsAreKnown /\ NetsRefer /\ OutputsHaveNoIndex
  BY DEF IInv
<1>2. driver[n] = None /\ \A k \in Indices : users[n][k] = None
  BY NewNetIsUnused
<1>3. /\ <<c, p>> \in PortRefs /\ <<d, q>> \in PortRefs
      /\ one # None /\ two # None /\ n # None /\ i # None /\ j # None
  BY DEF PortRefs
<1>4. /\ one.type = "PORT_OUT" => driver'[n] = <<c, p>>
      /\ two.type = "PORT_OUT" => driver'[n] = <<d, q>>
      /\ one.type # "PORT_OUT" /\ two.type # "PORT_OUT" => driver'[n] = None
  OBVIOUS
<1>5. /\ one.type # "PORT_OUT" => users'[n][i] = <<c, p>>
      /\ two.type # "PORT_OUT" => users'[n][j] = <<d, q>>
      /\ \A k \in Indices :
           \/ users'[n][k] = None
           \/ k = i /\ one.type # "PORT_OUT"
           \/ k = j /\ two.type # "PORT_OUT"
  <2>1. one.type # "PORT_OUT" => users'[n][i] = <<c, p>>
    OBVIOUS
  <2>2. two.type # "PORT_OUT" => users'[n][j] = <<d, q>>
    OBVIOUS
  <2>3. \A k \in Indices :
          \/ users'[n][k] = None
          \/ k = i /\ one.type # "PORT_OUT"
          \/ k = j /\ two.type # "PORT_OUT"
    OBVIOUS
  <2> QED BY <2>1, <2>2, <2>3
<1>6. \A e \in Cells, r \in PortNames : Connected(e, r) => SamePort(e, r)
  OBVIOUS
<1>7. Connected(c, p)' /\ Connected(d, q)'
  BY <1>3 DEF Connected, Exists
<1>8. NetlistTypeOK'
  BY <1>1 DEF NetlistTypeOK
<1>9. PortsAreKnown'
  <2> SUFFICES ASSUME NEW e \in Cells, NEW r \in PortNames, Connected(e, r)'
               PROVE  IsKnown(e, r)'
    BY DEF PortsAreKnown
  <2>1. CASE <<e, r>> = <<c, p>>
    BY <1>3, <1>4, <1>5, <2>1 DEF IsKnown
  <2>2. CASE <<e, r>> = <<d, q>>
    BY <1>3, <1>4, <1>5, <2>2 DEF IsKnown
  <2>3. CASE <<e, r>> # <<c, p>> /\ <<e, r>> # <<d, q>>
    <3>1. SamePort(e, r)
      BY <2>3
    <3>2. Connected(e, r) /\ IsKnown(e, r)
      BY <1>1, <3>1 DEF PortsAreKnown, SamePort, Connected, Exists
    <3>3. ports[e][r].net \in nets'
      BY <3>2 DEF IsKnown
    <3>4. <<e, r>> # None
      BY DEF PortRefs
    <3>5. \A m \in Nets : driver[m] = <<e, r>> => driver'[m] = <<e, r>>
      BY <1>2, <1>4, <3>4
    <3>6. ASSUME NEW m \in Nets, NEW k \in Indices, users[m][k] = <<e, r>>
          PROVE  users'[m][k] = <<e, r>>
      <4>1. m # n
        BY ONLY <1>2, <3>4, <3>6
      <4>2. users'[m][k] = users[m][k]
        BY <4>1
      <4> QED BY ONLY <3>6, <4>2
    <3> QED BY <3>1, <3>2, <3>3, <3>5, <3>6, StaysKnown
  <2> QED BY <2>1, <2>2, <2>3
<1>10. NetsRefer'
  <2>1. \A m \in Nets : m # n =>
          DriverRefers(m)' /\ \A k \in Indices : UserRefers(m, k)'
    BY <1>4, <1>5, <1>6, OthersRefer
  <2>2. DriverRefers(n)'
    <3>1. CASE one.type = "PORT_OUT"
      BY <1>4, <1>7, <3>1 DEF DriverRefers, RefersTo
    <3>2. CASE two.type = "PORT_OUT"
      BY <1>4, <1>7, <3>2 DEF DriverRefers, RefersTo
    <3>3. CASE one.type # "PORT_OUT" /\ two.type # "PORT_OUT"
      BY <1>4, <3>3 DEF DriverRefers
    <3> QED BY <3>1, <3>2, <3>3
  <2>3. ASSUME NEW k \in Indices
        PROVE  UserRefers(n, k)'
    <3>1. CASE users'[n][k] = None
      BY <3>1 DEF UserRefers
    <3>2. CASE k = i /\ one.type # "PORT_OUT"
      BY <1>5, <1>7, <3>2, UserGiven
    <3>3. CASE k = j /\ two.type # "PORT_OUT"
      BY <1>5, <1>7, <3>3, UserGiven
    <3> QED BY <1>5, <3>1, <3>2, <3>3
  <2> QED BY <2>1, <2>2, <2>3 DEF NetsRefer
<1>11. OutputsHaveNoIndex'
  <2> SUFFICES ASSUME NEW e \in Cells, NEW r \in PortNames,
                      Exists(e, r)', ports'[e][r].type = "PORT_OUT"
               PROVE  ports'[e][r].user_idx = None
    BY DEF OutputsHaveNoIndex
  <2>1. CASE <<e, r>> = <<c, p>>
    BY <2>1
  <2>2. CASE <<e, r>> = <<d, q>>
    BY <2>2
  <2>3. CASE <<e, r>> # <<c, p>> /\ <<e, r>> # <<d, q>>
    <3>1. SamePort(e, r)
      BY <2>3
    <3> QED BY <1>1, <3>1 DEF OutputsHaveNoIndex, SamePort, Exists
  <2> QED BY <2>1, <2>2, <2>3
<1> QED BY <1>8, <1>9, <1>10, <1>11 DEF IInv

\* connectPorts.
LEMMA ConnectPortsKeeps ==
    ASSUME NEW c \in Cells, NEW d \in Cells, NEW p \in PortNames, NEW q \in PortNames,
           IInv, ConnectPorts(c, p, d, q)
    PROVE  IInv'
<1> USE NetlistAssumption
<1> DEFINE from == ports[c][p]
           to == ports[d][q]
<1>1. NetlistTypeOK /\ PortsAreKnown /\ OutputsHaveNoIndex
  BY DEF IInv
<1>2. /\ Exists(c, p) /\ Exists(d, q) /\ <<c, p>> # <<d, q>> /\ ~Connected(d, q)
      /\ from \in PortInfo /\ to \in PortInfo
      /\ from.type = "PORT_OUT" => from.user_idx = None
      /\ to.type = "PORT_OUT" => to.user_idx = None
  <2>1. Exists(c, p) /\ Exists(d, q) /\ <<c, p>> # <<d, q>> /\ ~Connected(d, q)
    BY DEF ConnectPorts
  <2>2. from \in PortInfo /\ to \in PortInfo
    BY <1>1, <2>1 DEF NetlistTypeOK, Exists
  <2> QED BY <1>1, <2>1, <2>2 DEF OutputsHaveNoIndex
<1>3. CASE Connected(c, p)
  <2>1. Attach(d, q, to, from.net) /\ nets' = nets
    BY <1>3 DEF ConnectPorts
  <2>2. from.net \in nets
    BY <1>1, <1>3 DEF PortsAreKnown, IsKnown
  <2> QED BY <1>2, <2>1, <2>2, AttachKeeps
<1>4. CASE ~Connected(c, p)
  <2>1. PICK n \in Nets \ nets :
          /\ nets' = nets \cup {n}
          /\ ~(from.type = "PORT_OUT" /\ to.type = "PORT_OUT")
          /\ driver' = [driver EXCEPT ![n] =
                          IF from.type = "PORT_OUT" THEN <<c, p>>
                          ELSE IF to.type = "PORT_OUT" THEN <<d, q>> ELSE @]
          /\ \E i, j \in FreeIndices(n) :
               /\ i # j
               /\ users' = [users EXCEPT
                    ![n] = [k \in Indices |->
                              IF k = i /\ from.type # "PORT_OUT" THEN <<c, p>>
                              ELSE IF k = j /\ to.type # "PORT_OUT" THEN <<d, q>>
                              ELSE @[k]]]
               /\ ports' = [ports EXCEPT
                    ![c][p] = IF from.type = "PORT_OUT" THEN [from EXCEPT !.net = n]
                              ELSE [from EXCEPT !.net = n, !.user_idx = i],
                    ![d][q] = IF to.type = "PORT_OUT" THEN [to EXCEPT !.net = n]
                              ELSE [to EXCEPT !.net = n, !.user_idx = j]]
    BY <1>4 DEF ConnectPorts
  <2>2. PICK i \in Indices, j \in Indices :
               /\ i # j
               /\ users' = [users EXCEPT
                    ![n] = [k \in Indices |->
                              IF k = i /\ from.type # "PORT_OUT" THEN <<c, p>>
                              ELSE IF k = j /\ to.type # "PORT_OUT" THEN <<d, q>>
                              ELSE @[k]]]
               /\ ports' = [ports EXCEPT
                    ![c][p] = IF from.type = "PORT_OUT" THEN [from EXCEPT !.net = n]
                              ELSE [from EXCEPT !.net = n, !.user_idx = i],
                    ![d][q] = IF to.type = "PORT_OUT" THEN [to EXCEPT !.net = n]
                              ELSE [to EXCEPT !.net = n, !.user_idx = j]]
    BY <2>1 DEF FreeIndices
  <2> DEFINE one == IF from.type = "PORT_OUT" THEN [from EXCEPT !.net = n]
                    ELSE [from EXCEPT !.net = n, !.user_idx = i]
             two == IF to.type = "PORT_OUT" THEN [to EXCEPT !.net = n]
                    ELSE [to EXCEPT !.net = n, !.user_idx = j]
  <2>3. /\ one \in PortInfo /\ one.net = n /\ one.type = from.type
        /\ IF one.type = "PORT_OUT" THEN one.user_idx = None ELSE one.user_idx = i
    BY <1>2, <2>1 DEF PortInfo
  <2>4. /\ two \in PortInfo /\ two.net = n /\ two.type = to.type
        /\ IF two.type = "PORT_OUT" THEN two.user_idx = None ELSE two.user_idx = j
    BY <1>2, <2>1 DEF PortInfo
  <2>5. ports' = [ports EXCEPT ![c][p] = one, ![d][q] = two]
    BY <2>2
  <2> HIDE DEF one, two
  <2>6. ~(one.type = "PORT_OUT" /\ two.type = "PORT_OUT") /\ nets' = nets \cup {n} /\ i # j
    BY <2>1, <2>2, <2>3, <2>4
  <2>7. driver[n] = None /\ \A k \in Indices : users[n][k] = None
    BY NewNetIsUnused
  <2>8. <<c, p>> \in PortRefs /\ <<d, q>> \in PortRefs
    BY DEF PortRefs
  <2>9. /\ ports' \in [Cells -> [PortNames -> PortInfo \cup {None}]]
        /\ ports'[c][p] = one /\ ports'[d][q] = two
        /\ \A e \in Cells, r \in PortNames :
             <<e, r>> # <<c, p>> /\ <<e, r>> # <<d, q>> => SamePort(e, r)
    BY <1>1, <1>2, <2>3, <2>4, <2>5 DEF NetlistTypeOK, SamePort
  <2>10. /\ driver' \in [Nets -> PortRefs \cup {None}]
         /\ \A m \in Nets : m # n => driver'[m] = driver[m]
         /\ driver'[n] = IF one.type = "PORT_OUT" THEN <<c, p>>
                         ELSE IF two.type = "PORT_OUT" THEN <<d, q>> ELSE None
    BY <1>1, <2>1, <2>3, <2>4, <2>7, <2>8 DEF NetlistTypeOK
  <2> DEFINE row == [k \in Indices |->
                       IF k = i /\ from.type # "PORT_OUT" THEN <<c, p>>
                       ELSE IF k = j /\ to.type # "PORT_OUT" THEN <<d, q>>
                       ELSE users[n][k]]
  <2>11. users' = [users EXCEPT ![n] = row]
    BY <2>2
  <2>12. /\ row \in [Indices -> PortRefs \cup {None}]
         /\ \A k \in Indices :
              row[k] = IF k = i /\ one.type # "PORT_OUT" THEN <<c, p>>
                       ELSE IF k = j /\ two.type # "PORT_OUT" THEN <<d, q>> ELSE None
    BY <2>3, <2>4, <2>7, <2>8
  <2> HIDE DEF row
  <2>13. /\ users' \in [Nets -> [Indices -> PortRefs \cup {None}]]
         /\ users'[n] = row
         /\ \A m \in Nets, k \in Indices : m # n => users'[m][k] = users[m][k]
    BY <1>1, <2>11, <2>12 DEF NetlistTypeOK
  <2>14. \A k \in Indices :
           users'[n][k] = IF k = i /\ one.type # "PORT_OUT" THEN <<c, p>>
                          ELSE IF k = j /\ two.type # "PORT_OUT" THEN <<d, q>> ELSE None
    BY <2>12, <2>13
  <2> QED
    BY <1>2, <1>4, <2>3, <2>4, <2>6, <2>9, <2>10, <2>13, <2>14, TwoOnNewNetKeeps,
       SMTT(90)
<1> QED BY <1>3, <1>4

-----------------------------------------------------------------------------
(* The theorems *)

\* The design is empty at first.
LEMMA InitRefers == Init => IInv
<1> SUFFICES ASSUME Init PROVE IInv
  OBVIOUS
<1>1. NetlistTypeOK /\ PortsAreKnown /\ OutputsHaveNoIndex
  BY DEF Init, NetlistTypeOK, PortsAreKnown, OutputsHaveNoIndex, Connected, Exists
<1>2. NetsRefer
  BY DEF Init, NetsRefer, DriverRefers, UserRefers
<1> QED BY <1>1, <1>2 DEF IInv

\* Every operation keeps the references, when it does not change the type of a
\* port.
LEMMA NextRefers ==
    ASSUME Retype = FALSE, MoveWithin = FALSE, IInv, [Next]_netlistVars
    PROVE  IInv'
<1>1. ASSUME NEW n \in Nets, CreateNet(n) PROVE IInv'
  BY <1>1, CreateNetKeeps
<1>2. ASSUME NEW c \in Cells, NEW p \in PortNames, NEW t \in PortTypes, AddPort(c, p, t)
      PROVE  IInv'
  BY <1>2, AddPortKeeps
<1>3. ASSUME NEW c \in Cells, NEW p \in PortNames, NEW n \in Nets, ConnectPort(c, p, n)
      PROVE  IInv'
  BY <1>3, ConnectPortKeeps
<1>4. ASSUME NEW c \in Cells, NEW p \in PortNames, DisconnectPort(c, p)
      PROVE  IInv'
  BY <1>4, DisconnectPortKeeps
<1>5. ASSUME NEW c \in Cells, NEW d \in Cells, NEW p \in PortNames, NEW q \in PortNames,
             ConnectPorts(c, p, d, q)
      PROVE  IInv'
  BY <1>5, ConnectPortsKeeps
<1>6. ASSUME NEW c \in Cells, NEW d \in Cells, NEW p \in PortNames, NEW q \in PortNames,
             MovePortTo(c, p, d, q)
      PROVE  IInv'
  BY <1>6, MovePortKeeps
<1>7. ASSUME NEW c \in Cells, NEW p \in PortNames, NEW q \in PortNames, RenamePort(c, p, q)
      PROVE  IInv'
  BY <1>7, RenamePortKeeps
<1>8. ASSUME NEW c \in Cells, NEW d \in Cells, NEW p \in PortNames, NEW q \in PortNames,
             CopyPortTo(c, p, d, q)
      PROVE  IInv'
  BY <1>8, CopyPortKeeps
<1>9. CASE UNCHANGED netlistVars
  <2>1. ports' = ports /\ nets' = nets /\ driver' = driver /\ users' = users
    BY <1>9 DEF netlistVars
  <2>2. NetlistTypeOK' /\ OutputsHaveNoIndex'
    BY <2>1 DEF IInv, NetlistTypeOK, OutputsHaveNoIndex, Exists
  <2>3. PortsAreKnown'
    BY <2>1 DEF IInv, PortsAreKnown, IsKnown, Connected, Exists
  <2>4. NetsRefer'
    <3>1. \A c \in Cells, p \in PortNames : SamePort(c, p)
      BY <2>1 DEF SamePort
    <3> QED BY <2>1, <3>1, OthersRefer DEF NetsRefer
  <2> QED BY <2>2, <2>3, <2>4 DEF IInv
<1> QED BY <1>1, <1>2, <1>3, <1>4, <1>5, <1>6, <1>7, <1>8, <1>9 DEF Next

\* The invariant of the induction.
LEMMA ReferencesInvariant ==
    ASSUME Retype = FALSE, MoveWithin = FALSE
    PROVE  Spec => []IInv
<1>1. IInv /\ [Next]_netlistVars => IInv'
  BY NextRefers
<1> QED BY <1>1, InitRefers, PTL DEF Spec

\* Type correctness of the connections between cells and nets.
THEOREM NetlistTypeCorrect ==
    ASSUME Retype = FALSE, MoveWithin = FALSE
    PROVE  Spec => []NetlistTypeOK
<1>1. IInv => NetlistTypeOK
  BY DEF IInv
<1> QED BY <1>1, ReferencesInvariant, PTL

\* Whatever ports the packers connect, disconnect, move, rename and copy, the
\* net of a port refers to the port, as Context::check has it.
THEOREM PortsStayKnown ==
    ASSUME Retype = FALSE, MoveWithin = FALSE
    PROVE  Spec => []PortsAreKnown
<1>1. IInv => PortsAreKnown
  BY DEF IInv
<1> QED BY <1>1, ReferencesInvariant, PTL

\* And the driver and the users of a net are ports that refer to the net.
THEOREM NetsStayReferring ==
    ASSUME Retype = FALSE, MoveWithin = FALSE
    PROVE  Spec => []NetsRefer
<1>1. IInv => NetsRefer
  BY DEF IInv
<1> QED BY <1>1, ReferencesInvariant, PTL
=============================================================================
