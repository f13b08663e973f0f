------------------------ MODULE FrontendNets_proofs ------------------------
(***************************************************************************)
(* The nets of a flattened design, for any design in which no instance     *)
(* joins a net to itself.                                                  *)
(*                                                                         *)
(* net_flatindex never leads to a net that was merged away: the indices    *)
(* that lead to one net are its udata and the net_old_indices of its       *)
(* udata, which merging redirects and hands on, so none is forgotten.      *)
(*                                                                         *)
(* Two signals have one net exactly if the ports met so far join them.     *)
(* The net of a port that is bound but not yet met counts too: with it,    *)
(* nodes of one net are linked by the edges met (Sound), edges that meet   *)
(* have nodes of one net (Close), and a port that may be bound is in no    *)
(* edge (PortsUnmet).                                                      *)
(*                                                                         *)
(* Last, the names of a design without hierarchy.                          *)
(***************************************************************************)
EXTENDS FrontendNets, FiniteSetTheorems, WellFoundedInduction, TLAPS

\* Each index is known at the udata of its net.
OldIndicesComplete ==
    /\ \A i \in Indices :
         LET n == net_flatindex[i] IN
         /\ n \in nets
         /\ udata[n] \in Indices
         /\ net_flatindex[udata[n]] = n
         /\ i = udata[n] \/ i \in net_old_indices[udata[n]]
    /\ \A i \in Indices : \A j \in net_old_indices[i] :
         net_flatindex[j] = net_flatindex[i]

LEMMA UniqueNamesAreFree ==
    ASSUME NEW m \in Insts, NEW l \in Locals, NEW n \in UniqueNames(m, l)
    PROVE  n \in Names /\ n \notin nets
<1>1. PICK i \in 0..MaxUnique : n = <<m, l, i>> /\ ~Taken(<<m, l, i>>)
  BY DEF UniqueNames
<1>2. i \in 0..(MaxUnique + 1)
  BY FrontendAssumption
<1> QED BY <1>1, <1>2 DEF Names, Taken

LEMMA NewNetTypes ==
    ASSUME FrontendTypeOK, NEW n \in Names, NEW as \in SUBSET Names, NewNet(n, as)
    PROVE  /\ Len(net_flatindex) \in Nat
           /\ Len(net_flatindex') = Len(net_flatindex) + 1
           /\ net_flatindex' \in Seq(Names)
           /\ net_old_indices' \in [Indices' -> SUBSET (Indices')]
           /\ nets' \in SUBSET Names
           /\ net_aliases' \in [Names -> Names \cup {NoName}]
           /\ aliases' \in [Names -> SUBSET Names]
           /\ udata' \in [Names -> 0..Len(net_flatindex')]
           /\ \A i \in Indices : net_flatindex'[i] = net_flatindex[i]
                                 /\ net_old_indices'[i] = net_old_indices[i]
           /\ net_flatindex'[Len(net_flatindex')] = n
           /\ net_old_indices'[Len(net_flatindex')] = {}
<1> DEFINE k == Len(net_flatindex)
<1>1. k \in Nat /\ net_flatindex \in Seq(Names)
  BY DEF FrontendTypeOK
<1>2. net_flatindex' = Append(net_flatindex, n)
  BY DEF NewNet
<1>3. /\ net_flatindex' \in Seq(Names) /\ Len(net_flatindex') = k + 1
      /\ \A i \in 1..k : net_flatindex'[i] = net_flatindex[i]
      /\ net_flatindex'[k + 1] = n
  BY <1>1, <1>2
<1>4. net_old_indices \in Seq(SUBSET (1..k)) /\ Len(net_old_indices) = k
  <2>1. net_old_indices \in [1..k -> SUBSET (1..k)]
    BY DEF FrontendTypeOK, Indices
  <2> QED BY <1>1, <2>1
<1>5. net_old_indices' = Append(net_old_indices, {})
  BY DEF NewNet
<1>6. /\ net_old_indices' \in [1..(k + 1) -> SUBSET (1..k)]
      /\ \A i \in 1..k : net_old_indices'[i] = net_old_indices[i]
      /\ net_old_indices'[k + 1] = {}
  <2> DEFINE S == SUBSET (1..k)
  <2>1. {} \in S /\ net_old_indices \in Seq(S)
    BY <1>4
  <2> HIDE DEF S
  <2>2. net_old_indices' \in Seq(S) /\ Len(net_old_indices') = k + 1
    BY <1>1, <1>4, <1>5, <2>1
  <2>3. net_old_indices' \in [1..(k + 1) -> S]
    BY <2>2
  <2>4. /\ \A i \in 1..k : net_old_indices'[i] = net_old_indices[i]
        /\ net_old_indices'[k + 1] = {}
    BY <1>1, <1>4, <1>5, <2>1
  <2> QED BY <2>3, <2>4 DEF S
<1>7. Indices' = 1..(k + 1) /\ Indices = 1..k /\ 1..k \subseteq 1..(k + 1)
  BY <1>1, <1>3 DEF Indices
<1>8. net_old_indices' \in [Indices' -> SUBSET (Indices')]
  BY <1>6, <1>7
<1>9. udata' \in [Names -> 0..(k + 1)]
  BY <1>1 DEF NewNet, FrontendTypeOK
<1>10. /\ nets' \in SUBSET Names
       /\ net_aliases' \in [Names -> Names \cup {NoName}]
       /\ aliases' \in [Names -> SUBSET Names]
  BY DEF NewNet, FrontendTypeOK
<1> QED BY <1>1, <1>3, <1>6, <1>7, <1>8, <1>9, <1>10

LEMMA CreatedNet ==
    ASSUME FrontendTypeOK, NEW m \in Insts, NEW b \in Bits, CreateNet(m, b)
    PROVE  \E n \in Names : \E as \in SUBSET Names : n \notin nets /\ NewNet(n, as)
<1>1. CASE net_names[m][b] = {} /\ \E n \in UniqueNames(m, b) : NewNet(n, {n})
  <2>1. PICK n \in UniqueNames(m, b) : NewNet(n, {n})
    BY <1>1
  <2>2. n \in Names /\ n \notin nets
    BY UniqueNamesAreFree DEF Locals
  <2> QED BY <2>1, <2>2
<1>2. CASE \E l \in net_names[m][b] : \E n \in UniqueNames(m, l) :
             NewNet(n, {<<Top, k, 0>> : k \in net_names[m][b]})
  <2>5. PICK l \in net_names[m][b] : \E n \in UniqueNames(m, l) :
               NewNet(n, {<<Top, k, 0>> : k \in net_names[m][b]})
    BY <1>2
  <2>1. PICK n \in UniqueNames(m, l) :
               NewNet(n, {<<Top, k, 0>> : k \in net_names[m][b]})
    BY <2>5
  <2>2. net_names[m][b] \subseteq Labels
    BY DEF FrontendTypeOK
  <2>3. n \in Names /\ n \notin nets
    BY <2>2, UniqueNamesAreFree DEF Locals
  <2>4. {<<Top, k, 0>> : k \in net_names[m][b]} \in SUBSET Names
    BY <2>2, FrontendAssumption DEF Names, Locals
  <2> QED BY <2>1, <2>3, <2>4
<1> QED BY <1>1, <1>2 DEF CreateNet

LEMMA MergeTypes ==
    ASSUME FrontendTypeOK, OldIndicesComplete,
           NEW i \in Indices, NEW j \in Indices,
           MergeNets(net_flatindex[i], net_flatindex[j])
    PROVE  /\ Len(net_flatindex') = Len(net_flatindex) /\ Indices' = Indices
           /\ net_flatindex' \in Seq(Names)
           /\ net_old_indices' \in [Indices -> SUBSET Indices]
           /\ nets' \in SUBSET Names
           /\ net_aliases' \in [Names -> Names \cup {NoName}]
           /\ aliases' \in [Names -> SUBSET Names]
           /\ udata' = udata
<1> DEFINE base == net_flatindex[i]
           mergee == net_flatindex[j]
           from == udata[mergee]
           to == udata[base]
           stale == net_old_indices[from] \cup {from}
<1>1. net_flatindex \in Seq(Names) /\ Len(net_flatindex) \in Nat
      /\ base \in Names /\ mergee \in Names
  BY DEF FrontendTypeOK, Indices
<1>2. from \in Indices /\ to \in Indices
  BY DEF OldIndicesComplete
<1>3. net_flatindex' = [k \in Indices |-> IF k \in stale THEN base ELSE net_flatindex[k]]
  BY DEF MergeNets
<1>4. \A k \in Indices : net_flatindex[k] \in Names
  BY <1>1 DEF Indices
<1>5. net_flatindex' \in [1..Len(net_flatindex) -> Names]
  BY <1>1, <1>3, <1>4 DEF Indices
<1>6. net_flatindex' \in Seq(Names) /\ Len(net_flatindex') = Len(net_flatindex)
  BY <1>1, <1>5
<1>7. net_old_indices' \in [Indices -> SUBSET Indices]
  BY <1>2 DEF MergeNets, FrontendTypeOK
<1>8. /\ nets' \in SUBSET Names
      /\ net_aliases' \in [Names -> Names \cup {NoName}]
      /\ aliases' \in [Names -> SUBSET Names]
      /\ udata' = udata
  BY <1>1 DEF MergeNets, FrontendTypeOK
<1> QED BY <1>6, <1>7, <1>8 DEF Indices

LEMMA MergeKeepsComplete ==
    ASSUME FrontendTypeOK, OldIndicesComplete,
           NEW i \in Indices, NEW j \in Indices,
           net_flatindex[i] # net_flatindex[j],
           MergeNets(net_flatindex[i], net_flatindex[j])
    PROVE  OldIndicesComplete'
<1>0. PICK base, mergee, from, to :
        /\ base = net_flatindex[i] /\ mergee = net_flatindex[j]
        /\ from = udata[mergee] /\ to = udata[base]
  OBVIOUS
<1>1. PICK stale : stale = net_old_indices[from] \cup {from}
  OBVIOUS
<1>2. base \in nets /\ mergee \in nets /\ base # mergee
  BY <1>0 DEF OldIndicesComplete
<1>3. /\ from \in Indices /\ net_flatindex[from] = mergee
      /\ to \in Indices /\ net_flatindex[to] = base
      /\ from # to
  BY <1>0, <1>2 DEF OldIndicesComplete
<1>4. \A k \in Indices : k \in stale <=> net_flatindex[k] = mergee
  BY <1>0, <1>1, <1>3 DEF OldIndicesComplete
<1>5. /\ Indices' = Indices /\ udata' = udata
      /\ nets' = nets \ {mergee}
      /\ \A k \in Indices :
           net_flatindex'[k] = IF k \in stale THEN base ELSE net_flatindex[k]
  BY <1>0, <1>1, MergeTypes DEF MergeNets
<1>6. \A k \in Indices :
        net_old_indices'[k] = IF k = from THEN {}
                              ELSE IF k = to THEN net_old_indices[k] \cup stale
                              ELSE net_old_indices[k]
  <2>1. net_old_indices \in [Indices -> SUBSET Indices]
    BY DEF FrontendTypeOK
  <2>2. net_old_indices' =
          [net_old_indices EXCEPT ![to] = @ \cup stale, ![from] = {}]
    BY <1>0, <1>1 DEF MergeNets
  <2> QED BY <1>3, <2>1, <2>2
<1>7. ASSUME NEW k \in Indices
      PROVE  /\ net_flatindex'[k] \in nets'
             /\ udata'[net_flatindex'[k]] \in Indices
             /\ net_flatindex'[udata'[net_flatindex'[k]]] = net_flatindex'[k]
             /\ \/ k = udata'[net_flatindex'[k]]
                \/ k \in net_old_indices'[udata'[net_flatindex'[k]]]
  <2>1. CASE k \in stale
    <3>1. net_flatindex'[k] = base /\ base \in nets'
      BY <1>0, <1>2, <1>5, <2>1
    <3>2. udata'[base] = to /\ net_flatindex'[to] = base
      BY <1>0, <1>3, <1>4, <1>5
    <3>3. k \in net_old_indices'[to]
      BY <1>3, <1>6, <2>1
    <3> QED BY <1>3, <3>1, <3>2, <3>3
  <2>2. CASE k \notin stale
    <3>1. PICK n : n = net_flatindex[k]
      OBVIOUS
    <3>2. n # mergee /\ net_flatindex'[k] = n
      BY <1>4, <1>5, <2>2, <3>1
    <3>3. /\ n \in nets /\ udata[n] \in Indices /\ net_flatindex[udata[n]] = n
          /\ k = udata[n] \/ k \in net_old_indices[udata[n]]
      BY <3>1 DEF OldIndicesComplete
    <3>4. udata[n] \notin stale /\ udata[n] # from
      BY <1>3, <1>4, <3>2, <3>3
    <3>5. net_flatindex'[udata[n]] = n
      BY <1>5, <3>3, <3>4
    <3>6. net_old_indices[udata[n]] \subseteq net_old_indices'[udata[n]]
      BY <1>6, <3>3, <3>4
    <3> QED BY <1>5, <3>2, <3>3, <3>5, <3>6
  <2> QED BY <2>1, <2>2
<1>8. ASSUME NEW k \in Indices, NEW h \in net_old_indices'[k]
      PROVE  net_flatindex'[h] = net_flatindex'[k]
  <2>1. k # from
    BY <1>6, <1>8
  <2>2. net_old_indices[k] \subseteq Indices /\ stale \subseteq Indices
    BY <1>1, <1>3 DEF FrontendTypeOK
  <2>3. CASE k = to /\ h \in stale
    BY <1>3, <1>4, <1>2, <1>5, <2>2, <2>3
  <2>4. CASE h \in net_old_indices[k]
    <3>1. net_flatindex[h] = net_flatindex[k]
      BY <2>4 DEF OldIndicesComplete
    <3>2. h \in Indices /\ (h \in stale <=> k \in stale)
      BY <1>4, <2>2, <2>4, <3>1
    <3> QED BY <1>5, <3>1, <3>2
  <2> QED BY <1>6, <1>8, <2>1, <2>3, <2>4
<1> QED BY <1>5, <1>7, <1>8 DEF OldIndicesComplete

LEMMA NewNetKeepsComplete ==
    ASSUME FrontendTypeOK, OldIndicesComplete,
           NEW n \in Names, NEW as \in SUBSET Names, n \notin nets, NewNet(n, as)
    PROVE  OldIndicesComplete'
<1>1. PICK k : k = Len(net_flatindex)
  OBVIOUS
<1>2. /\ k \in Nat /\ Indices = 1..k /\ Indices' = 1..(k + 1)
      /\ \A i \in Indices : net_flatindex'[i] = net_flatindex[i]
                            /\ net_old_indices'[i] = net_old_indices[i]
      /\ net_flatindex'[k + 1] = n /\ net_old_indices'[k + 1] = {}
  BY <1>1, NewNetTypes DEF Indices
<1>3. /\ nets' = nets \cup {n}
      /\ udata'[n] = k + 1
      /\ \A a \in Names \ {n} : udata'[a] = udata[a]
  BY <1>1 DEF NewNet, FrontendTypeOK
<1>4. \A i \in Indices' : i \in Indices \/ i = k + 1
  BY <1>2
<1>5. \A i \in Indices : net_flatindex[i] \in Names \ {n}
  BY DEF OldIndicesComplete, FrontendTypeOK
<1>6. ASSUME NEW i \in Indices'
      PROVE  /\ net_flatindex'[i] \in nets'
             /\ udata'[net_flatindex'[i]] \in Indices'
             /\ net_flatindex'[udata'[net_flatindex'[i]]] = net_flatindex'[i]
             /\ \/ i = udata'[net_flatindex'[i]]
                \/ i \in net_old_indices'[udata'[net_flatindex'[i]]]
  <2>1. CASE i \in Indices
    BY <1>2, <1>3, <1>5, <2>1 DEF OldIndicesComplete
  <2>2. CASE i = k + 1
    BY <1>2, <1>3, <2>2
  <2> QED BY <1>4, <2>1, <2>2
<1>7. ASSUME NEW i \in Indices', NEW j \in net_old_indices'[i]
      PROVE  net_flatindex'[j] = net_flatindex'[i]
  <2>1. i \in Indices /\ j \in net_old_indices[i]
    BY <1>2, <1>4, <1>7
  <2>2. j \in Indices
    BY <2>1 DEF FrontendTypeOK
  <2> QED BY <1>2, <2>1, <2>2 DEF OldIndicesComplete
<1> QED BY <1>6, <1>7 DEF OldIndicesComplete

LEMMA PadKeepsComplete ==
    ASSUME FrontendTypeOK, OldIndicesComplete, NEW n \in nets, PadNet(n)
    PROVE  OldIndicesComplete'
<1>1. PICK new : new = <<n[1], n[2], MaxUnique + 1>>
  OBVIOUS
<1>2. n \in Names /\ new \in Names
  BY <1>1, FrontendAssumption DEF FrontendTypeOK, Names
<1>3. /\ new \notin nets /\ new # n /\ nets' = nets \cup {new}
      /\ udata'[new] = udata[n]
      /\ \A a \in Names \ {new} : udata'[a] = udata[a]
      /\ net_old_indices' = net_old_indices
  BY <1>1, <1>2 DEF PadNet, FrontendTypeOK
<1>4. PICK k \in Nat : k = Len(net_flatindex) /\ Indices = 1..k
  BY DEF FrontendTypeOK, Indices
<1>5. net_flatindex' =
        [i \in 1..k |-> IF net_flatindex[i] = n THEN new ELSE net_flatindex[i]]
  BY <1>1, <1>4 DEF PadNet
<1>6. \A i \in 1..k : net_flatindex[i] \in Names
  BY <1>4 DEF FrontendTypeOK
<1>7. net_flatindex' \in [1..k -> Names]
  BY <1>2, <1>5, <1>6
<1>8. Len(net_flatindex') = k /\ Indices' = Indices
  BY <1>4, <1>7 DEF Indices
<1>9. \A i \in Indices : net_flatindex[i] # new /\ net_flatindex[i] \in nets
  BY <1>3 DEF OldIndicesComplete
<1>10. ASSUME NEW i \in Indices
       PROVE  /\ net_flatindex'[i] \in nets'
              /\ udata'[net_flatindex'[i]] \in Indices
              /\ net_flatindex'[udata'[net_flatindex'[i]]] = net_flatindex'[i]
              /\ \/ i = udata'[net_flatindex'[i]]
                 \/ i \in net_old_indices'[udata'[net_flatindex'[i]]]
  <2>1. udata'[net_flatindex'[i]] = udata[net_flatindex[i]]
    BY <1>3, <1>4, <1>5, <1>6, <1>9
  <2>2. /\ udata[net_flatindex[i]] \in Indices
        /\ net_flatindex[udata[net_flatindex[i]]] = net_flatindex[i]
        /\ \/ i = udata[net_flatindex[i]]
           \/ i \in net_old_indices[udata[net_flatindex[i]]]
    BY DEF OldIndicesComplete
  <2>3. net_flatindex'[i] \in nets'
    BY <1>3, <1>4, <1>5, <1>9
  <2>4. net_flatindex'[udata[net_flatindex[i]]] = net_flatindex'[i]
    BY <1>4, <1>5, <2>2
  <2> QED BY <1>3, <2>1, <2>2, <2>3, <2>4
<1>11. ASSUME NEW i \in Indices, NEW j \in net_old_indices'[i]
       PROVE  net_flatindex'[j] = net_flatindex'[i]
  <2>1. j \in Indices /\ net_flatindex[j] = net_flatindex[i]
    BY <1>3, <1>11 DEF FrontendTypeOK, OldIndicesComplete
  <2> QED BY <1>4, <1>5, <2>1
<1> QED BY <1>8, <1>10, <1>11 DEF OldIndicesComplete

LEMMA StepKeepsComplete ==
    ASSUME Loops = FALSE, FrontendTypeOK, OldIndicesComplete, [Next]_frontendVars
    PROVE  OldIndicesComplete'
<1> DEFINE Same == UNCHANGED <<nets, flatVars>>
<1>1. ASSUME Same PROVE OldIndicesComplete'
  BY <1>1 DEF flatVars, OldIndicesComplete, Indices
<1>2. ASSUME NEW m \in Insts, NEW b \in Bits, UseSignal(m, b) PROVE OldIndicesComplete'
  BY <1>2, CreatedNet, NewNetKeepsComplete DEF UseSignal
<1>3. ASSUME NEW c \in Insts \ {Top}, EnterInstance(c) PROVE OldIndicesComplete'
  BY <1>1, <1>3 DEF EnterInstance, nameVars
<1>4. ASSUME NEW c \in Insts \ {Top}, NEW p \in Ports, NEW b \in Bits, BindPort(c, p, b)
      PROVE  OldIndicesComplete'
  <2>1. CASE CreateNet(Parent[c], b)
    BY <2>1, CreatedNet, NewNetKeepsComplete, FrontendAssumption
  <2>2. CASE UNCHANGED <<nameVars, flatVars>>
    BY <1>1, <2>2 DEF nameVars
  <2> QED BY <1>4, <2>1, <2>2 DEF BindPort
<1>5. ASSUME NEW c \in Insts \ {Top}, NEW p \in Ports, TiePort(c, p)
      PROVE  OldIndicesComplete'
  <2>1. PICK n \in UniqueNames(Parent[c], p) : NewNet(n, {})
    BY <1>5 DEF TiePort
  <2>2. n \in Names /\ n \notin nets
    BY UniqueNamesAreFree, FrontendAssumption DEF Locals
  <2> QED BY <2>1, <2>2, NewNetKeepsComplete
<1>6. ASSUME NEW m \in Insts, NEW p \in Ports, NEW b \in Bits, ImportPort(m, p, b)
      PROVE  OldIndicesComplete'
  <2>1. CASE UNCHANGED <<nameVars, flatVars>>
    BY <1>1, <2>1 DEF nameVars
  <2>2. CASE /\ GetIndex(m, b) # 0
             /\ Loops \/ net_flatindex[GetIndex(m, b)] # net_flatindex[port_to_bus[m][p]]
             /\ MergeNets(net_flatindex[GetIndex(m, b)], net_flatindex[port_to_bus[m][p]])
    <3>1. GetIndex(m, b) \in Indices /\ port_to_bus[m][p] \in Indices
      BY <1>6, <2>2 DEF ImportPort, GetIndex, FrontendTypeOK, Indices
    <3> QED BY <2>2, <3>1, MergeKeepsComplete
  <2> QED BY <1>6, <2>1, <2>2 DEF ImportPort
<1>7. ASSUME NEW m \in Insts, NEW p \in Ports, ImportTiedPort(m, p)
      PROVE  OldIndicesComplete'
  BY <1>1, <1>7 DEF ImportTiedPort, nameVars
<1>8. ASSUME NEW m \in Insts, NEW l \in Labels, NEW b \in Bits, ImportNetname(m, l, b)
      PROVE  OldIndicesComplete'
  BY <1>1, <1>8 DEF ImportNetname, nameVars
<1>9. ASSUME NEW m \in Insts, GoOn(m) PROVE OldIndicesComplete'
  BY <1>1, <1>9 DEF GoOn, nameVars
<1>10. ASSUME UNCHANGED frontendVars PROVE OldIndicesComplete'
  BY <1>1, <1>10 DEF frontendVars, nameVars
<1> QED BY <1>2, <1>3, <1>4, <1>5, <1>6, <1>7, <1>8, <1>9, <1>10, PadKeepsComplete DEF Next

\* The conjuncts of the type invariant about signals, for indices below k.
SignalTypes(k) ==
    /\ port_to_bus \in [Insts -> [Ports -> 0..k]]
    /\ index_to_net_flatindex \in [Insts -> [Bits -> 0..k]]

\* The conjuncts about nets and the index, and the other ones.
NetTypes ==
    /\ nets \in SUBSET Names
    /\ net_aliases \in [Names -> Names \cup {NoName}]
    /\ aliases \in [Names -> SUBSET Names]
    /\ udata \in [Names -> 0..Len(net_flatindex)]
    /\ net_flatindex \in Seq(Names)
    /\ net_old_indices \in [Indices -> SUBSET Indices]

ImportTypes ==
    /\ stage \in [Insts -> Stages]
    /\ net_names \in [Insts -> [Bits -> SUBSET Labels]]
    /\ named \in [Insts -> SUBSET Labels]
    /\ joined \in SUBSET (SUBSET Nodes)

LEMMA TypesSplit ==
    ASSUME NEW k \in Nat, k = Len(net_flatindex)
    PROVE  FrontendTypeOK <=> NetTypes /\ ImportTypes /\ SignalTypes(k)
BY DEF FrontendTypeOK, NetTypes, ImportTypes, SignalTypes

LEMMA NextTypesSplit ==
    ASSUME NEW k \in Nat, k = Len(net_flatindex'), NetTypes', ImportTypes', SignalTypes(k)'
    PROVE  FrontendTypeOK'
BY DEF FrontendTypeOK, NetTypes, ImportTypes, SignalTypes

LEMMA SignalTypesGrow ==
    ASSUME NEW k \in Nat, NEW h \in Nat, k <= h, SignalTypes(k)
    PROVE  SignalTypes(h)
<1>1. 0..k \subseteq 0..h
  OBVIOUS
<1>2. [Ports -> 0..k] \subseteq [Ports -> 0..h] /\ [Bits -> 0..k] \subseteq [Bits -> 0..h]
  BY <1>1
<1> QED BY <1>2 DEF SignalTypes

LEMMA StepTypes ==
    ASSUME FrontendTypeOK, OldIndicesComplete, [Next]_frontendVars
    PROVE  FrontendTypeOK'
<1>a. PICK k \in Nat : k = Len(net_flatindex)
  BY DEF FrontendTypeOK
<1>0. k \in Nat /\ k = Len(net_flatindex) /\ SignalTypes(k) /\ NetTypes /\ ImportTypes
  BY <1>a, TypesSplit
<1>2. ASSUME NEW n \in Names, NEW as \in SUBSET Names, NewNet(n, as)
      PROVE  NetTypes' /\ Len(net_flatindex') = k + 1 /\ SignalTypes(k + 1)
  <2>1. Len(net_flatindex') = k + 1
    BY <1>0, <1>2, NewNetTypes
  <2>2. NetTypes'
    BY <1>2, NewNetTypes DEF NetTypes
  <2>3. SignalTypes(k + 1)
    BY <1>0, SignalTypesGrow
  <2> QED BY <2>1, <2>2, <2>3
<1>3. ASSUME NEW m \in Insts, NEW b \in Bits, CreateNet(m, b)
      PROVE  NetTypes' /\ Len(net_flatindex') = k + 1 /\ SignalTypes(k + 1)
  BY <1>2, <1>3, CreatedNet
<1>4. ASSUME UNCHANGED <<nameVars, flatVars>>
      PROVE  NetTypes' /\ Len(net_flatindex') = k
  BY <1>0, <1>4 DEF nameVars, flatVars, Indices, NetTypes
<1>5. ASSUME NEW m \in Insts, NEW b \in Bits, UseSignal(m, b) PROVE FrontendTypeOK'
  <2>1. NetTypes' /\ Len(net_flatindex') = k + 1 /\ SignalTypes(k + 1)
    BY <1>3, <1>5 DEF UseSignal
  <2>2. SignalTypes(k + 1)'
    BY <1>0, <1>5, <2>1 DEF UseSignal, SignalTypes
  <2>3. ImportTypes'
    BY <1>0, <1>5 DEF ImportTypes, UseSignal, importVars
  <2> QED BY NextTypesSplit, <1>0, <2>1, <2>2, <2>3
<1>6. ASSUME NEW c \in Insts \ {Top}, EnterInstance(c) PROVE FrontendTypeOK'
  <2>1. ImportTypes'
    BY <1>0, <1>6 DEF ImportTypes, EnterInstance, Stages, signalVars
  <2>2. SignalTypes(k)'
    BY <1>0, <1>6 DEF EnterInstance, SignalTypes, signalVars
  <2> QED BY NextTypesSplit, <1>0, <1>4, <1>6, <2>1, <2>2 DEF EnterInstance
<1>7. ASSUME NEW c \in Insts \ {Top}, NEW p \in Ports, NEW b \in Bits, BindPort(c, p, b)
      PROVE  FrontendTypeOK'
  <2>1. Parent[c] \in Insts /\ {<<Parent[c], b>>, <<c, p>>} \in SUBSET Nodes
    BY FrontendAssumption DEF Nodes
  <2>2. ImportTypes'
    BY <1>0, <1>7, <2>1 DEF ImportTypes, BindPort, importVars
  <2>3. CASE UNCHANGED <<index_to_net_flatindex, nameVars, flatVars>>
             /\ GetIndex(Parent[c], b) # 0
             /\ port_to_bus' = [port_to_bus EXCEPT ![c][p] =
                                  udata[net_flatindex[GetIndex(Parent[c], b)]]]
    <3>1. GetIndex(Parent[c], b) \in Indices
      BY <1>0, <2>1, <2>3 DEF GetIndex, SignalTypes, Indices
    <3>2. net_flatindex[GetIndex(Parent[c], b)] \in Names
      BY <1>0, <3>1 DEF Indices, NetTypes
    <3>4. udata[net_flatindex[GetIndex(Parent[c], b)]] \in 0..k
      BY <1>0, <3>2 DEF NetTypes
    <3>3. SignalTypes(k)'
      BY <1>0, <2>3, <3>4 DEF SignalTypes
    <3> QED BY NextTypesSplit, <1>0, <1>4, <2>2, <2>3, <3>3
  <2>4. CASE /\ CreateNet(Parent[c], b)
             /\ port_to_bus' = [port_to_bus EXCEPT ![c][p] = k + 1]
             /\ index_to_net_flatindex' =
                  [index_to_net_flatindex EXCEPT ![Parent[c]][b] = k + 1]
    <3>1. NetTypes' /\ Len(net_flatindex') = k + 1 /\ SignalTypes(k + 1)
      BY <1>3, <2>1, <2>4
    <3>3. k + 1 \in Nat /\ k + 1 \in 0..(k + 1)
      BY <1>0
    <3>2. SignalTypes(k + 1)'
      BY <2>1, <2>4, <3>1, <3>3 DEF SignalTypes
    <3> QED BY NextTypesSplit, <2>2, <3>1, <3>2, <3>3
  <2> QED BY <1>0, <1>7, <2>3, <2>4 DEF BindPort
<1>8. ASSUME NEW c \in Insts \ {Top}, NEW p \in Ports, TiePort(c, p)
      PROVE  FrontendTypeOK'
  <2>1. PICK n \in UniqueNames(Parent[c], p) : NewNet(n, {})
    BY <1>8 DEF TiePort
  <2>2. n \in Names /\ n \notin nets
    BY UniqueNamesAreFree, FrontendAssumption DEF Locals
  <2>3. NetTypes' /\ Len(net_flatindex') = k + 1 /\ SignalTypes(k + 1)
    BY <1>2, <2>1, <2>2
  <2>4. SignalTypes(k + 1)'
    BY <1>0, <1>8, <2>3 DEF TiePort, SignalTypes
  <2>5. ImportTypes'
    BY <1>0, <1>8 DEF ImportTypes, TiePort, importVars
  <2> QED BY NextTypesSplit, <1>0, <2>3, <2>4, <2>5
<1>9. ASSUME NEW m \in Insts, NEW p \in Ports, NEW b \in Bits, ImportPort(m, p, b)
      PROVE  FrontendTypeOK'
  <2>1. {<<m, p>>, <<m, b>>} \in SUBSET Nodes
    BY DEF Nodes
  <2>2. ImportTypes'
    BY <1>0, <1>9, <2>1 DEF ImportTypes, ImportPort, importVars
  <2>3. port_to_bus[m][p] \in Indices
    BY <1>0, <1>9 DEF ImportPort, SignalTypes, Indices
  <2>7. port_to_bus[m][p] \in 0..k /\ 0 \in 0..k
    BY <1>0 DEF SignalTypes
  <2>8. port_to_bus' \in [Insts -> [Ports -> 0..k]]
    BY <1>0, <1>9, <2>7 DEF ImportPort, SignalTypes
  <2>9. index_to_net_flatindex' \in [Insts -> [Bits -> 0..k]]
    <3>1. \/ index_to_net_flatindex' = index_to_net_flatindex
          \/ index_to_net_flatindex' =
               [index_to_net_flatindex EXCEPT ![m][b] = port_to_bus[m][p]]
      BY <1>9 DEF ImportPort
    <3>2. index_to_net_flatindex \in [Insts -> [Bits -> 0..k]]
      BY <1>0 DEF SignalTypes
    <3>3. PICK i : i = port_to_bus[m][p] /\ i \in 0..k
      BY <2>7
    <3>4. [index_to_net_flatindex EXCEPT ![m][b] = i] \in [Insts -> [Bits -> 0..k]]
      BY <3>2, <3>3
    <3> QED BY <3>1, <3>2, <3>3, <3>4
  <2>4. SignalTypes(k)'
    BY <2>8, <2>9 DEF SignalTypes
  <2>5. CASE UNCHANGED <<nameVars, flatVars>>
    BY NextTypesSplit, <1>0, <1>4, <2>2, <2>4, <2>5
  <2>6. CASE /\ GetIndex(m, b) # 0
             /\ MergeNets(net_flatindex[GetIndex(m, b)], net_flatindex[port_to_bus[m][p]])
    <3>1. GetIndex(m, b) \in Indices
      BY <1>0, <2>6 DEF GetIndex, SignalTypes, Indices
    <3>2. NetTypes' /\ Len(net_flatindex') = k
      BY <1>0, <2>3, <2>6, <3>1, MergeTypes DEF NetTypes
    <3> QED BY NextTypesSplit, <1>0, <2>2, <2>4, <3>2
  <2> QED BY <1>9, <2>5, <2>6 DEF ImportPort
<1>10. ASSUME NEW m \in Insts, NEW p \in Ports, ImportTiedPort(m, p)
       PROVE  FrontendTypeOK'
  <2>1. ImportTypes'
    BY <1>0, <1>10 DEF ImportTypes, ImportTiedPort, importVars
  <2>2. SignalTypes(k)'
    BY <1>0, <1>10 DEF ImportTiedPort, SignalTypes
  <2> QED BY NextTypesSplit, <1>0, <1>4, <1>10, <2>1, <2>2 DEF ImportTiedPort
<1>11. ASSUME NEW m \in Insts, NEW l \in Labels, NEW b \in Bits, ImportNetname(m, l, b)
       PROVE  FrontendTypeOK'
  <2>1. ImportTypes'
    <3>1. named' \in [Insts -> SUBSET Labels] /\ UNCHANGED <<stage, joined>>
      BY <1>0, <1>11 DEF ImportTypes, ImportNetname
    <3>3. \/ net_names' = net_names
          \/ net_names' = [net_names EXCEPT ![m][b] = @ \cup {l}]
      BY <1>11 DEF ImportNetname
    <3>2. net_names' \in [Insts -> [Bits -> SUBSET Labels]]
      BY <1>0, <3>3 DEF ImportTypes
    <3> QED BY <1>0, <3>1, <3>2 DEF ImportTypes
  <2>2. SignalTypes(k)' /\ Len(net_flatindex') = k
    BY <1>0, <1>11 DEF ImportNetname, SignalTypes, flatVars
  <2>3. CASE UNCHANGED nameVars
    BY NextTypesSplit, <1>0, <1>4, <1>11, <2>1, <2>2, <2>3 DEF ImportNetname
  <2>4. CASE /\ GetIndex(m, b) # 0
             /\ net_aliases' = [net_aliases EXCEPT ![<<m, l, 0>>] =
                                  net_flatindex[GetIndex(m, b)]]
             /\ aliases' = [aliases EXCEPT ![net_flatindex[GetIndex(m, b)]] =
                              @ \cup {<<m, l, 0>>}]
             /\ UNCHANGED <<nets, net_names>>
    <3>1. GetIndex(m, b) \in Indices
      BY <1>0, <2>4 DEF GetIndex, SignalTypes, Indices
    <3>2. net_flatindex[GetIndex(m, b)] \in Names /\ <<m, l, 0>> \in Names
      BY <1>0, <3>1, FrontendAssumption DEF Indices, Names, Locals, NetTypes
    <3>3. /\ net_aliases' \in [Names -> Names \cup {NoName}]
          /\ aliases' \in [Names -> SUBSET Names]
          /\ nets' \in SUBSET Names
      BY <1>0, <2>4, <3>2 DEF NetTypes
    <3>4. UNCHANGED flatVars
      BY <1>11 DEF ImportNetname
    <3>5. NetTypes'
      BY <1>0, <3>3, <3>4 DEF flatVars, Indices, NetTypes
    <3> QED BY NextTypesSplit, <1>0, <2>1, <2>2, <3>5
  <2> QED BY <1>11, <2>3, <2>4 DEF ImportNetname
<1>12. ASSUME NEW m \in Insts, GoOn(m) PROVE FrontendTypeOK'
  <2>1. \A s \in {"bind", "ports", "netnames", "cells"} : NextStage(s) \in Stages
    BY DEF NextStage, Stages
  <2>2. ImportTypes'
    BY <1>0, <1>12, <2>1 DEF ImportTypes, GoOn, signalVars
  <2>3. SignalTypes(k)'
    BY <1>0, <1>12 DEF GoOn, SignalTypes, signalVars
  <2> QED BY NextTypesSplit, <1>0, <1>4, <1>12, <2>2, <2>3 DEF GoOn
<1>13. ASSUME NEW n \in nets, PadNet(n) PROVE FrontendTypeOK'
  <2>1. ImportTypes'
    BY <1>0, <1>13 DEF ImportTypes, PadNet, importVars, signalVars
  <2>2. n \in Names /\ <<n[1], n[2], MaxUnique + 1>> \in Names
    BY <1>0, FrontendAssumption DEF Names, NetTypes
  <2>3. \A i \in 1..k : net_flatindex[i] \in Names
    BY <1>0 DEF NetTypes
  <2>4. net_flatindex' \in [1..k -> Names]
    BY <1>0, <1>13, <2>2, <2>3 DEF PadNet, Indices
  <2>5. net_flatindex' \in Seq(Names) /\ Len(net_flatindex') = k
    BY <1>0, <2>4
  <2>6. SignalTypes(k)'
    BY <1>0, <1>13 DEF PadNet, SignalTypes, signalVars
  <2>7. /\ nets' \in SUBSET Names
        /\ net_aliases' \in [Names -> Names \cup {NoName}]
        /\ aliases' \in [Names -> SUBSET Names]
        /\ udata' \in [Names -> 0..k]
    BY <1>0, <1>13, <2>2 DEF PadNet, NetTypes
  <2>8. net_old_indices' \in [Indices' -> SUBSET (Indices')]
    BY <1>0, <1>13, <2>5 DEF PadNet, Indices, NetTypes
  <2>9. NetTypes'
    BY <2>5, <2>7, <2>8 DEF NetTypes
  <2> QED BY NextTypesSplit, <1>0, <2>1, <2>5, <2>6, <2>9
<1>14. ASSUME UNCHANGED frontendVars PROVE FrontendTypeOK'
  BY <1>0, <1>14 DEF frontendVars, importVars, signalVars, nameVars, flatVars,
                     FrontendTypeOK, Indices
<1> QED BY <1>5, <1>6, <1>7, <1>8, <1>9, <1>10, <1>11, <1>12, <1>13, <1>14 DEF Next

LEMMA InitComplete == Init => FrontendTypeOK /\ OldIndicesComplete
BY FrontendAssumption DEF Init, FrontendTypeOK, OldIndicesComplete, Indices, Stages

\* Type correctness of the import, for designs in which no instance joins a net
\* to itself.
THEOREM FrontendTypeCorrect ==
    ASSUME Loops = FALSE
    PROVE  Spec => [](FrontendTypeOK /\ OldIndicesComplete)
<1>1. FrontendTypeOK /\ OldIndicesComplete /\ [Next]_frontendVars
        => FrontendTypeOK' /\ OldIndicesComplete'
  BY StepTypes, StepKeepsComplete
<1> QED BY <1>1, InitComplete, PTL DEF Spec

\* However deep the hierarchy and however its ports join nets, as long as no
\* instance joins a net to itself, each index of net_flatindex leads to a net
\* of the context and the udata of that net leads back to it.
THEOREM FlatIndexStaysLive ==
    ASSUME Loops = FALSE
    PROVE  Spec => []FlatIndexLive
<1>1. FrontendTypeOK /\ OldIndicesComplete => FlatIndexLive
  BY DEF FrontendTypeOK, OldIndicesComplete, FlatIndexLive, Indices
<1> QED BY <1>1, FrontendTypeCorrect, PTL

-----------------------------------------------------------------------------
(* What edges E join to a node: the least set with the node that no edge   *)
(* leaves.  JoinedTo computes it.                                          *)

Whole(E, S) == \A e \in E : e \cap S # {} => e \subseteq S

LinkedSet(E, T) == {v \in Nodes : \A S \in SUBSET Nodes : (T \subseteq S /\ Whole(E, S)) => v \in S}

Linked(E, u) == {v \in Nodes : \A S \in SUBSET Nodes : (u \in S /\ Whole(E, S)) => v \in S}

Spread(E, S) == S \cup UNION {e \in E : e \cap S # {}}

LEMMA NodesFinite == IsFiniteSet(Nodes)
<1>1. IsFiniteSet(Bits \cup Ports)
  BY FrontendAssumption, FS_Union
<1> QED BY <1>1, FrontendAssumption, FS_Product DEF Nodes

LEMMA SpreadFacts ==
    ASSUME NEW E \in SUBSET (SUBSET Nodes), NEW S \in SUBSET Nodes
    PROVE  /\ S \subseteq Spread(E, S)
           /\ Spread(E, S) \in SUBSET Nodes
           /\ Spread(E, S) = S <=> Whole(E, S)
           /\ LinkedSet(E, Spread(E, S)) = LinkedSet(E, S)
<1>1. S \subseteq Spread(E, S) /\ Spread(E, S) \in SUBSET Nodes
  BY DEF Spread
<1>2. Spread(E, S) = S <=> Whole(E, S)
  BY DEF Spread, Whole
<1>3. ASSUME NEW C \in SUBSET Nodes, Whole(E, C)
      PROVE  S \subseteq C <=> Spread(E, S) \subseteq C
  <2>1. S \subseteq C => Spread(E, S) \subseteq C
    BY <1>3 DEF Spread, Whole
  <2> QED BY <1>1, <2>1
<1>4. LinkedSet(E, Spread(E, S)) = LinkedSet(E, S)
  BY <1>3 DEF LinkedSet
<1> QED BY <1>1, <1>2, <1>4

\* f spreads a set over the edges until none leaves it.
Spreads(f, E) ==
    f = [S \in SUBSET Nodes |-> IF Spread(E, S) = S THEN S ELSE f[Spread(E, S)]]

LEMMA SpreadIsLinked ==
    ASSUME NEW E \in SUBSET (SUBSET Nodes), NEW f, Spreads(f, E), NEW S \in SUBSET Nodes
    PROVE  f[S] = LinkedSet(E, S)
<1> DEFINE Bad == {T \in SUBSET Nodes : f[T] # LinkedSet(E, T)}
           Rest(T) == Nodes \ T
           Rests == {Rest(T) : T \in Bad}
<1> SUFFICES ASSUME Bad # {} PROVE FALSE
  OBVIOUS
<1>1. IsWellFoundedOn(StrictSubsetOrdering(Nodes), SUBSET Nodes)
  <2>1. FiniteSubsetsOf(Nodes) = SUBSET Nodes
    BY NodesFinite, FS_FiniteSubsetsOfFinite
  <2> QED BY NodesFinite, <2>1, FS_StrictSubsetOrderingWellFounded
<1>2. Rests \subseteq SUBSET Nodes /\ Rests # {}
  <2>1. PICK T \in Bad : TRUE
    OBVIOUS
  <2>2. Rest(T) \in Rests
    OBVIOUS
  <2>3. \A V \in Rests : V \in SUBSET Nodes
    <3> HIDE DEF Bad
    <3> QED OBVIOUS
  <2> HIDE DEF Rests
  <2> QED BY <2>2, <2>3
<1>3. PICK U \in Rests : \A V \in Rests : ~(<<V, U>> \in StrictSubsetOrdering(Nodes))
  <2> HIDE DEF Rests
  <2> QED BY <1>1, <1>2, WFMin
<1>4. PICK T \in Bad : U = Rest(T)
  OBVIOUS
<1>5. T \in SUBSET Nodes /\ f[T] # LinkedSet(E, T)
  OBVIOUS
<1>6. /\ T \subseteq Spread(E, T) /\ Spread(E, T) \in SUBSET Nodes
      /\ Spread(E, T) = T <=> Whole(E, T)
      /\ LinkedSet(E, Spread(E, T)) = LinkedSet(E, T)
  BY <1>5, SpreadFacts
<1>7. f[T] = IF Spread(E, T) = T THEN T ELSE f[Spread(E, T)]
  BY <1>5 DEF Spreads
<1>8. Spread(E, T) # T
  <2>1. Whole(E, T) => LinkedSet(E, T) = T
    BY <1>5 DEF LinkedSet
  <2> QED BY <1>5, <1>6, <1>7, <2>1
<1>9. Spread(E, T) \in Bad
  BY <1>5, <1>6, <1>7, <1>8
<1>10. <<Rest(Spread(E, T)), U>> \in StrictSubsetOrdering(Nodes)
  <2>1. Rest(Spread(E, T)) \subseteq Rest(T) /\ Rest(Spread(E, T)) # Rest(T)
    BY <1>5, <1>6, <1>8
  <2> HIDE DEF Bad
  <2> QED BY <1>4, <2>1 DEF StrictSubsetOrdering
<1>11. Rest(Spread(E, T)) \in Rests
  <2> HIDE DEF Bad, Rest
  <2> QED BY <1>9
<1> QED BY <1>3, <1>10, <1>11

LEMMA JoinedIsLinked ==
    ASSUME joined \in SUBSET (SUBSET Nodes), NEW u \in Nodes
    PROVE  JoinedTo(u) = Linked(joined, u)
<1> DEFINE Fits(f) == f = [S \in SUBSET Nodes |->
                             LET more == S \cup UNION {e \in joined : e \cap S # {}}
                             IN IF more = S THEN S ELSE f[more]]
           c == [S \in SUBSET Nodes |-> LinkedSet(joined, S)]
           within == CHOOSE f : Fits(f)
<1>1. \A f : Fits(f) <=> Spreads(f, joined)
  BY DEF Spreads, Spread
<1>2. Spreads(c, joined)
  <2>1. ASSUME NEW S \in SUBSET Nodes
        PROVE  LinkedSet(joined, S) = IF Spread(joined, S) = S THEN S ELSE c[Spread(joined, S)]
    <3>1. /\ Spread(joined, S) \in SUBSET Nodes
          /\ Spread(joined, S) = S <=> Whole(joined, S)
          /\ LinkedSet(joined, Spread(joined, S)) = LinkedSet(joined, S)
      BY SpreadFacts
    <3>2. Whole(joined, S) => LinkedSet(joined, S) = S
      BY DEF LinkedSet
    <3> QED BY <3>1, <3>2
  <2> HIDE DEF c
  <2>2. c = [S \in SUBSET Nodes |-> LinkedSet(joined, S)]
    BY DEF c
  <2> QED BY <2>1, <2>2 DEF Spreads
<1>3. Fits(within)
  <2> HIDE DEF Fits, c
  <2> QED BY <1>1, <1>2
<1>4. Spreads(within, joined)
  <2> HIDE DEF Fits, c, within
  <2> QED BY <1>1, <1>3
<1>5. JoinedTo(u) = within[{u}]
  BY DEF JoinedTo
<1>6. {u} \in SUBSET Nodes
  OBVIOUS
<1>7. LinkedSet(joined, {u}) = Linked(joined, u)
  BY DEF LinkedSet, Linked
<1> HIDE DEF within, Fits, c
<1>8. within[{u}] = LinkedSet(joined, {u})
  BY <1>4, <1>6, SpreadIsLinked
<1> QED BY <1>5, <1>7, <1>8

\* Being linked is an equivalence, and more edges link more.
LEMMA LinkedFacts ==
    ASSUME NEW E \in SUBSET (SUBSET Nodes), NEW u \in Nodes
    PROVE  /\ u \in Linked(E, u) /\ Linked(E, u) \in SUBSET Nodes
           /\ Whole(E, Linked(E, u))
           /\ \A S \in SUBSET Nodes : (u \in S /\ Whole(E, S)) => Linked(E, u) \subseteq S
<1>1. u \in Linked(E, u) /\ Linked(E, u) \in SUBSET Nodes
      /\ \A S \in SUBSET Nodes : (u \in S /\ Whole(E, S)) => Linked(E, u) \subseteq S
  BY DEF Linked
<1>2. ASSUME NEW e \in E, NEW v \in e, v \in Linked(E, u), NEW w \in e PROVE w \in Linked(E, u)
  <2>1. ASSUME NEW S \in SUBSET Nodes, u \in S, Whole(E, S) PROVE w \in S
    <3>1. v \in S
      BY <1>2, <2>1 DEF Linked
    <3> QED BY <2>1, <3>1 DEF Whole
  <2>2. w \in Nodes
    OBVIOUS
  <2> QED BY <2>1, <2>2 DEF Linked
<1>3. Whole(E, Linked(E, u))
  BY <1>2 DEF Whole
<1> QED BY <1>1, <1>3

LEMMA LinkedBack ==
    ASSUME NEW E \in SUBSET (SUBSET Nodes), NEW u \in Nodes, NEW v \in Linked(E, u)
    PROVE  u \in Linked(E, v)
<1> SUFFICES ASSUME u \notin Linked(E, v) PROVE FALSE
  OBVIOUS
<1>1. v \in Nodes
  BY LinkedFacts
<1>2. Whole(E, Linked(E, v)) /\ v \in Linked(E, v)
  BY <1>1, LinkedFacts
<1> DEFINE S == Nodes \ Linked(E, v)
<1>3. Whole(E, S)
  BY <1>2 DEF Whole
<1>4. u \in S /\ S \in SUBSET Nodes
  OBVIOUS
<1> HIDE DEF S
<1>5. v \in S
  BY <1>3, <1>4, LinkedFacts
<1> QED BY <1>2, <1>5 DEF S

LEMMA LinkedOn ==
    ASSUME NEW E \in SUBSET (SUBSET Nodes), NEW u \in Nodes, NEW v \in Linked(E, u),
           NEW w \in Linked(E, v)
    PROVE  w \in Linked(E, u)
<1>1. Linked(E, u) \in SUBSET Nodes /\ Whole(E, Linked(E, u)) /\ v \in Nodes
  BY LinkedFacts
<1>2. Linked(E, v) \subseteq Linked(E, u)
  BY <1>1, LinkedFacts
<1> QED BY <1>2

LEMMA LinkedGrows ==
    ASSUME NEW E \in SUBSET (SUBSET Nodes), NEW F \in SUBSET (SUBSET Nodes), E \subseteq F,
           NEW u \in Nodes, NEW v \in Linked(E, u)
    PROVE  v \in Linked(F, u)
<1>1. \A S \in SUBSET Nodes : Whole(F, S) => Whole(E, S)
  BY DEF Whole
<1> QED BY <1>1 DEF Linked

-----------------------------------------------------------------------------
(* Nodes with a net, N[u], and the edges E: nodes of one net are linked,    *)
(* and edges that meet have nodes of one net only.                          *)

SameNet(N, u, v) == u \in DOMAIN N /\ v \in DOMAIN N /\ N[u] = N[v]

Sound(E, N) == \A u, v \in DOMAIN N : N[u] = N[v] => v \in Linked(E, u)

Close(E, N) ==
    \A e, f \in E : e \cap f # {} =>
        \A u \in e \cap DOMAIN N, v \in f \cap DOMAIN N : N[u] = N[v]

\* In the net of a node already, or met by no edge so far.
Known(E, N, u) == u \in DOMAIN N \/ \A e \in E : u \notin e

\* No edge is added: nets are only told apart as before.
LEMMA NetsKept ==
    ASSUME NEW E \in SUBSET (SUBSET Nodes), NEW N, NEW M,
           DOMAIN M \subseteq Nodes, Sound(E, N), Close(E, N),
           \A w \in DOMAIN M : Known(E, N, w),
           \A w, z \in DOMAIN M : M[w] = M[z] <=> (w = z \/ SameNet(N, w, z))
    PROVE  Sound(E, M) /\ Close(E, M)
<1>1. ASSUME NEW u \in DOMAIN M, NEW v \in DOMAIN M, M[u] = M[v]
      PROVE  v \in Linked(E, u)
  <2>1. CASE u = v
    BY <2>1, LinkedFacts
  <2>2. CASE SameNet(N, u, v)
    BY <2>2 DEF SameNet, Sound
  <2> QED BY <1>1, <2>1, <2>2
<1>2. ASSUME NEW e \in E, NEW f \in E, e \cap f # {},
             NEW u \in e \cap DOMAIN M, NEW v \in f \cap DOMAIN M
      PROVE  M[u] = M[v]
  <2>1. u \in DOMAIN N /\ v \in DOMAIN N
    BY DEF Known
  <2>2. SameNet(N, u, v)
    BY <1>2, <2>1 DEF Close, SameNet
  <2> QED BY <2>2
<1> QED BY <1>1, <1>2 DEF Sound, Close

\* An edge joins a to b: their nets become one.
LEMMA NetsJoined ==
    ASSUME NEW E \in SUBSET (SUBSET Nodes), NEW N, NEW M, NEW a \in Nodes, NEW b \in Nodes,
           DOMAIN M \subseteq DOMAIN N \cup {a, b}, DOMAIN N \subseteq Nodes,
           Sound(E, N), Close(E, N), Known(E, N, a), Known(E, N, b),
           \A w, z \in DOMAIN M :
               M[w] = M[z] <=>
                   \/ w = z
                   \/ SameNet(N, w, z)
                   \/ /\ w \in {a, b} \/ SameNet(N, w, a) \/ SameNet(N, w, b)
                      /\ z \in {a, b} \/ SameNet(N, z, a) \/ SameNet(N, z, b)
    PROVE  Sound(E \cup {{a, b}}, M) /\ Close(E \cup {{a, b}}, M)
<1> DEFINE F == E \cup {{a, b}}
           Near(w) == w \in {a, b} \/ SameNet(N, w, a) \/ SameNet(N, w, b)
<1>1. F \in SUBSET (SUBSET Nodes) /\ E \subseteq F /\ {a, b} \in F
  OBVIOUS
<1>2. \A w \in DOMAIN M : w \in Nodes
  OBVIOUS
<1>3. \A w, z : SameNet(N, w, z) => (w \in Nodes /\ z \in Linked(E, w) /\ w \in Linked(E, z))
  BY DEF SameNet, Sound
<1>4. \A w, z : SameNet(N, w, z) => z \in Linked(F, w) /\ w \in Linked(F, z)
  <2> HIDE DEF F
  <2>1. ASSUME NEW w, NEW z, SameNet(N, w, z) PROVE z \in Linked(F, w)
    <3>1. w \in Nodes /\ z \in Linked(E, w)
      BY <1>3, <2>1
    <3> QED BY <1>1, <3>1, LinkedGrows
  <2>2. \A w, z : SameNet(N, w, z) => SameNet(N, z, w)
    BY DEF SameNet
  <2> QED BY <2>1, <2>2
<1>5. a \in Linked(F, b) /\ b \in Linked(F, a) /\ a \in Linked(F, a)
  <2> HIDE DEF F
  <2> QED BY <1>1, LinkedFacts DEF Whole
<1>6. ASSUME NEW w \in Nodes, Near(w) PROVE a \in Linked(F, w)
  <2> HIDE DEF F
  <2>1. CASE w \in {a, b}
    BY <1>5, <2>1
  <2>2. CASE SameNet(N, w, a)
    BY <1>4, <2>2
  <2>3. CASE SameNet(N, w, b)
    <3>1. b \in Linked(F, w)
      BY <1>4, <2>3
    <3> QED BY <1>1, <1>5, <3>1, LinkedOn
  <2> QED BY <1>6, <2>1, <2>2, <2>3
<1>7. ASSUME NEW w \in DOMAIN M, NEW z \in DOMAIN M, M[w] = M[z]
      PROVE  z \in Linked(F, w)
  <2> HIDE DEF F
  <2>1. w \in Nodes /\ z \in Nodes
    BY <1>2
  <2>2. CASE w = z
    BY <1>1, <2>1, <2>2, LinkedFacts
  <2>3. CASE SameNet(N, w, z)
    BY <1>4, <2>3
  <2>4. CASE Near(w) /\ Near(z)
    <3>1. a \in Linked(F, w) /\ a \in Linked(F, z)
      BY <1>6, <2>1, <2>4
    <3>2. z \in Linked(F, a)
      BY <1>1, <2>1, <3>1, LinkedBack
    <3> QED BY <1>1, <2>1, <3>1, <3>2, LinkedOn
  <2> QED BY <1>7, <2>2, <2>3, <2>4
<1>8. ASSUME NEW e \in E, NEW w \in e \cap DOMAIN M PROVE w \in DOMAIN N
  BY DEF Known
<1>9. ASSUME NEW e \in E, NEW w \in e \cap DOMAIN M, e \cap {a, b} # {} PROVE Near(w)
  <2>1. PICK x \in {a, b} : x \in e
    BY <1>9
  <2>2. x \in DOMAIN N /\ w \in DOMAIN N
    BY <1>8, <2>1 DEF Known
  <2>3. SameNet(N, w, x)
    BY <2>1, <2>2 DEF Close, SameNet
  <2> QED BY <2>1, <2>3
<1>10. ASSUME NEW e \in F, NEW f \in F, e \cap f # {},
              NEW w \in e \cap DOMAIN M, NEW z \in f \cap DOMAIN M
       PROVE  M[w] = M[z]
  <2>1. CASE e \in E /\ f \in E
    <3>1. SameNet(N, w, z)
      BY <1>8, <1>10, <2>1 DEF Close, SameNet
    <3> QED BY <3>1
  <2>2. CASE ~(e \in E /\ f \in E)
    <3>1. \A g \in {e, f} : g \in E \/ g = {a, b}
      OBVIOUS
    <3>2. e \in E => f = {a, b}
      BY <2>2, <3>1
    <3>3. f \in E => e = {a, b}
      BY <2>2, <3>1
    <3>4. Near(w)
      BY <1>9, <1>10, <3>1, <3>2
    <3>5. Near(z)
      BY <1>9, <1>10, <3>1, <3>3
    <3> QED BY <3>4, <3>5
  <2> QED BY <2>1, <2>2
<1> QED BY <1>7, <1>10 DEF Sound, Close

-----------------------------------------------------------------------------
(* The nets of the import. *)

IndexAt(u) == IF u[2] \in Bits THEN index_to_net_flatindex[u[1]][u[2]]
              ELSE port_to_bus[u[1]][u[2]]

NetMap == [u \in {v \in Nodes : IndexAt(v) # 0} |-> net_flatindex[IndexAt(u)]]

\* An edge is a port met so far at a signal that has a net.
EdgesMet ==
    \A e \in joined : \E s \in Insts \X Bits, v \in Insts \X Ports :
        e = {s, v} /\ IndexAt(s) # 0

PortsUnmet ==
    \A c \in Insts, p \in Ports :
        (stage[c] \in {"waiting", "bind"} /\ port_to_bus[c][p] = 0) =>
            \A e \in joined : <<c, p>> \notin e

Joining == Sound(joined, NetMap) /\ Close(joined, NetMap) /\ EdgesMet /\ PortsUnmet

LEMMA NodeKinds ==
    /\ \A m \in Insts, b \in Bits : <<m, b>> \in Nodes /\ b \notin Ports
    /\ \A m \in Insts, p \in Ports : <<m, p>> \in Nodes /\ p \notin Bits
    /\ \A w \in Nodes : w = <<w[1], w[2]>> /\ w[1] \in Insts /\ w[2] \in Bits \cup Ports
BY FrontendAssumption DEF Nodes

LEMMA NetMapFacts ==
    ASSUME FrontendTypeOK
    PROVE  /\ DOMAIN NetMap = {w \in Nodes : IndexAt(w) # 0}
           /\ \A w \in Nodes : IndexAt(w) \in 0..Len(net_flatindex)
           /\ \A w \in DOMAIN NetMap : /\ NetMap[w] = net_flatindex[IndexAt(w)]
                                       /\ IndexAt(w) \in Indices
<1>1. \A w \in Nodes : IndexAt(w) \in 0..Len(net_flatindex)
  BY NodeKinds DEF FrontendTypeOK, IndexAt
<1>2. Len(net_flatindex) \in Nat
  BY DEF FrontendTypeOK
<1> HIDE DEF IndexAt
<1> QED BY <1>1, <1>2 DEF NetMap, Indices

\* NetMap after a step, from the index of each node then.
LEMMA NextNetMap ==
    /\ DOMAIN NetMap' = {w \in Nodes : IndexAt(w)' # 0}
    /\ \A w \in DOMAIN NetMap' : NetMap'[w] = net_flatindex'[IndexAt(w)']
<1>1. NetMap' = [w \in {v \in Nodes : IndexAt(v)' # 0} |-> net_flatindex'[IndexAt(w)']]
  BY DEF NetMap, Nodes
<1> HIDE DEF IndexAt
<1> QED BY <1>1

LEMMA SignalSet ==
    ASSUME FrontendTypeOK, NEW m \in Insts, NEW b \in Bits, NEW k,
           index_to_net_flatindex' = [index_to_net_flatindex EXCEPT ![m][b] = k]
    PROVE  \A w \in Nodes : w[2] \in Bits =>
              IndexAt(w)' = IF w = <<m, b>> THEN k ELSE IndexAt(w)
<1> SUFFICES ASSUME NEW w \in Nodes, w[2] \in Bits
             PROVE  IndexAt(w)' = IF w = <<m, b>> THEN k ELSE IndexAt(w)
  OBVIOUS
<1>1. w = <<w[1], w[2]>> /\ w[1] \in Insts
  BY NodeKinds
<1>2. index_to_net_flatindex \in [Insts -> [Bits -> 0..Len(net_flatindex)]]
  BY DEF FrontendTypeOK
<1>3. index_to_net_flatindex'[w[1]][w[2]] =
        IF w[1] = m /\ w[2] = b THEN k ELSE index_to_net_flatindex[w[1]][w[2]]
  BY <1>1, <1>2
<1> QED BY <1>1, <1>3 DEF IndexAt

LEMMA PortSet ==
    ASSUME FrontendTypeOK, NEW c \in Insts, NEW p \in Ports, NEW k,
           port_to_bus' = [port_to_bus EXCEPT ![c][p] = k]
    PROVE  \A w \in Nodes : w[2] \notin Bits =>
              IndexAt(w)' = IF w = <<c, p>> THEN k ELSE IndexAt(w)
<1> SUFFICES ASSUME NEW w \in Nodes, w[2] \notin Bits
             PROVE  IndexAt(w)' = IF w = <<c, p>> THEN k ELSE IndexAt(w)
  OBVIOUS
<1>1. w = <<w[1], w[2]>> /\ w[1] \in Insts /\ w[2] \in Ports
  BY NodeKinds
<1>2. port_to_bus \in [Insts -> [Ports -> 0..Len(net_flatindex)]]
  BY DEF FrontendTypeOK
<1>3. port_to_bus'[w[1]][w[2]] =
        IF w[1] = c /\ w[2] = p THEN k ELSE port_to_bus[w[1]][w[2]]
  BY <1>1, <1>2
<1> QED BY <1>1, <1>3 DEF IndexAt

LEMMA SignalsStay ==
    ASSUME UNCHANGED index_to_net_flatindex
    PROVE  \A w : w[2] \in Bits => IndexAt(w)' = IndexAt(w)
BY DEF IndexAt

LEMMA PortsStay ==
    ASSUME UNCHANGED port_to_bus
    PROVE  \A w : w[2] \notin Bits => IndexAt(w)' = IndexAt(w)
BY DEF IndexAt

\* A signal without a net, or a port not yet bound, is in no edge.
LEMMA SignalUnmet ==
    ASSUME EdgesMet, NEW m \in Insts, NEW b \in Bits, IndexAt(<<m, b>>) = 0
    PROVE  \A e \in joined : <<m, b>> \notin e
<1> SUFFICES ASSUME NEW e \in joined, <<m, b>> \in e PROVE FALSE
  OBVIOUS
<1>1. PICK s \in Insts \X Bits, v \in Insts \X Ports : e = {s, v} /\ IndexAt(s) # 0
  BY DEF EdgesMet
<1>2. <<m, b>> # v
  BY NodeKinds
<1> QED BY <1>1, <1>2

\* The index of a new net, and that no other node has this net.
LEMMA FreshIndex ==
    ASSUME FrontendTypeOK, OldIndicesComplete, NEW n \in Names, NEW as \in SUBSET Names,
           n \notin nets, NewNet(n, as)
    PROVE  LET k == Len(net_flatindex) + 1 IN
           /\ k # 0 /\ k \notin Indices
           /\ net_flatindex'[k] = n
           /\ \A i \in Indices : net_flatindex'[i] = net_flatindex[i] /\ net_flatindex[i] # n
<1>1. Len(net_flatindex) \in Nat /\ Len(net_flatindex') = Len(net_flatindex) + 1
  BY NewNetTypes
<1>2. /\ net_flatindex'[Len(net_flatindex) + 1] = n
      /\ \A i \in Indices : net_flatindex'[i] = net_flatindex[i]
  BY <1>1, NewNetTypes
<1>3. \A i \in Indices : net_flatindex[i] # n
  BY DEF OldIndicesComplete
<1> QED BY <1>1, <1>2, <1>3 DEF Indices

LEMMA MergeRenames ==
    ASSUME FrontendTypeOK, OldIndicesComplete,
           NEW i \in Indices, NEW j \in Indices,
           MergeNets(net_flatindex[i], net_flatindex[j])
    PROVE  \A k \in Indices :
              net_flatindex'[k] = IF net_flatindex[k] = net_flatindex[j] THEN net_flatindex[i]
                                  ELSE net_flatindex[k]
<1> DEFINE from == udata[net_flatindex[j]]
           stale == net_old_indices[from] \cup {from}
<1>1. from \in Indices /\ net_flatindex[from] = net_flatindex[j]
  BY DEF OldIndicesComplete
<1>2. \A k \in Indices : k \in stale <=> net_flatindex[k] = net_flatindex[j]
  BY <1>1 DEF OldIndicesComplete
<1>3. net_flatindex' = [k \in Indices |-> IF k \in stale THEN net_flatindex[i]
                                          ELSE net_flatindex[k]]
  BY DEF MergeNets
<1> HIDE DEF stale
<1> QED BY <1>2, <1>3

\* The three conditions that hold the parts together.
Ready == FrontendTypeOK /\ OldIndicesComplete /\ Joining

LEMMA UseSignalJoins ==
    ASSUME Ready, NEW m \in Insts, NEW b \in Bits, UseSignal(m, b) PROVE Joining'
<1> DEFINE u == <<m, b>>
           k == Len(net_flatindex) + 1
<1>0. FrontendTypeOK /\ OldIndicesComplete /\ Joining
  BY DEF Ready
<1>1. PICK n \in Names, as \in SUBSET Names : n \notin nets /\ NewNet(n, as)
  BY <1>0, CreatedNet DEF UseSignal
<1>2. /\ k # 0 /\ k \notin Indices /\ net_flatindex'[k] = n
      /\ \A i \in Indices : net_flatindex'[i] = net_flatindex[i] /\ net_flatindex[i] # n
  BY <1>0, <1>1, FreshIndex
<1>3. \A w \in Nodes : IndexAt(w)' = IF w = u THEN k ELSE IndexAt(w)
  <2>1. index_to_net_flatindex' = [index_to_net_flatindex EXCEPT ![m][b] = k]
        /\ UNCHANGED port_to_bus
    BY DEF UseSignal
  <2>2. \A w \in Nodes : w[2] \in Bits => IndexAt(w)' = IF w = u THEN k ELSE IndexAt(w)
    BY <1>0, <2>1, SignalSet
  <2>3. \A w \in Nodes : w[2] \notin Bits => IndexAt(w)' = IndexAt(w) /\ w # u
    BY <2>1, PortsStay
  <2> QED BY <2>2, <2>3
<1>4. IndexAt(u) = 0 /\ u \in Nodes
  BY NodeKinds DEF UseSignal, GetIndex, IndexAt
<1>5. UNCHANGED <<joined, stage, port_to_bus>>
  BY DEF UseSignal, importVars
<1> HIDE DEF IndexAt, u, k
<1>6. DOMAIN NetMap' = DOMAIN NetMap \cup {u}
  BY <1>0, <1>2, <1>3, <1>4, NetMapFacts, NextNetMap
<1>7. /\ \A w \in DOMAIN NetMap : NetMap'[w] = NetMap[w] /\ NetMap[w] # n
      /\ NetMap'[u] = n
      /\ u \notin DOMAIN NetMap
  BY <1>0, <1>2, <1>3, <1>4, <1>6, NetMapFacts, NextNetMap
<1>8. Known(joined, NetMap, u)
  <2>1. \A e \in joined : u \notin e
    BY <1>0, <1>4, SignalUnmet DEF u, Joining
  <2> QED BY <2>1 DEF Known
<1>9. \A w, z \in DOMAIN NetMap' : NetMap'[w] = NetMap'[z] <=> (w = z \/ SameNet(NetMap, w, z))
  BY <1>6, <1>7 DEF SameNet
<1>10. /\ joined \in SUBSET (SUBSET Nodes) /\ DOMAIN NetMap' \subseteq Nodes
       /\ \A w \in DOMAIN NetMap' : Known(joined, NetMap, w)
  <2>1. \A w \in DOMAIN NetMap : Known(joined, NetMap, w)
    BY DEF Known
  <2> QED BY <1>0, <1>6, <1>8, <2>1, NextNetMap DEF FrontendTypeOK
<1>11. Sound(joined, NetMap') /\ Close(joined, NetMap')
  BY <1>0, <1>9, <1>10, NetsKept DEF Joining
<1>12. EdgesMet'
  <2>1. \A s \in Insts \X Bits : IndexAt(s) # 0 => IndexAt(s)' # 0
    <3>1. \A s \in Insts \X Bits : s \in Nodes
      BY DEF Nodes
    <3> QED BY <1>2, <1>3, <3>1
  <2> QED BY <1>0, <1>5, <2>1 DEF EdgesMet, Joining
<1>13. PortsUnmet'
  BY <1>0, <1>5 DEF PortsUnmet, Joining
<1>14. Sound(joined, NetMap)' /\ Close(joined, NetMap)'
  BY <1>5, <1>11 DEF Sound, Close, Linked, Nodes, Whole
<1> QED BY <1>12, <1>13, <1>14 DEF Joining

LEMMA TiePortJoins ==
    ASSUME Ready, NEW c \in Insts \ {Top}, NEW p \in Ports, TiePort(c, p) PROVE Joining'
<1> DEFINE u == <<c, p>>
           k == Len(net_flatindex) + 1
<1>0. FrontendTypeOK /\ OldIndicesComplete /\ Joining
  BY DEF Ready
<1>1. PICK n \in Names, as \in SUBSET Names : n \notin nets /\ NewNet(n, as)
  <2>1. PICK n \in UniqueNames(Parent[c], p) : NewNet(n, {})
    BY DEF TiePort
  <2>2. n \in Names /\ n \notin nets
    BY UniqueNamesAreFree, FrontendAssumption DEF Locals
  <2> QED BY <2>1, <2>2
<1>2. /\ k # 0 /\ k \notin Indices /\ net_flatindex'[k] = n
      /\ \A i \in Indices : net_flatindex'[i] = net_flatindex[i] /\ net_flatindex[i] # n
  BY <1>0, <1>1, FreshIndex
<1>3. /\ \A w \in Nodes : IndexAt(w)' = IF w = u THEN k ELSE IndexAt(w)
      /\ \A d \in Insts, q \in Ports :
            port_to_bus'[d][q] = IF d = c /\ q = p THEN k ELSE port_to_bus[d][q]
  <2>1. port_to_bus' = [port_to_bus EXCEPT ![c][p] = k] /\ UNCHANGED index_to_net_flatindex
    BY DEF TiePort
  <2>2. \A w \in Nodes : w[2] \notin Bits => IndexAt(w)' = IF w = u THEN k ELSE IndexAt(w)
    BY <1>0, <2>1, PortSet
  <2>4. \A d \in Insts, q \in Ports :
           port_to_bus'[d][q] = IF d = c /\ q = p THEN k ELSE port_to_bus[d][q]
    BY <1>0, <2>1 DEF FrontendTypeOK
  <2>3. \A w \in Nodes : w[2] \in Bits => IndexAt(w)' = IndexAt(w) /\ w # u
    BY <2>1, SignalsStay, NodeKinds
  <2> QED BY <2>2, <2>3, <2>4
<1>4. IndexAt(u) = 0 /\ u \in Nodes /\ stage[c] = "bind" /\ port_to_bus[c][p] = 0
  BY NodeKinds DEF TiePort, IndexAt, At
<1>5. UNCHANGED <<joined, stage>>
  BY DEF TiePort, importVars
<1>6. \A e \in joined : u \notin e
  BY <1>0, <1>4 DEF Joining, PortsUnmet
<1> HIDE DEF IndexAt, u, k
<1>7. DOMAIN NetMap' = DOMAIN NetMap \cup {u}
  BY <1>0, <1>2, <1>3, <1>4, NetMapFacts, NextNetMap
<1>8. /\ \A w \in DOMAIN NetMap : NetMap'[w] = NetMap[w] /\ NetMap[w] # n
      /\ NetMap'[u] = n
      /\ u \notin DOMAIN NetMap
  BY <1>0, <1>2, <1>3, <1>4, <1>7, NetMapFacts, NextNetMap
<1>9. \A w, z \in DOMAIN NetMap' : NetMap'[w] = NetMap'[z] <=> (w = z \/ SameNet(NetMap, w, z))
  BY <1>7, <1>8 DEF SameNet
<1>10. /\ joined \in SUBSET (SUBSET Nodes) /\ DOMAIN NetMap' \subseteq Nodes
       /\ \A w \in DOMAIN NetMap' : Known(joined, NetMap, w)
  <2>1. \A w \in DOMAIN NetMap' : Known(joined, NetMap, w)
    BY <1>6, <1>7 DEF Known
  <2> QED BY <1>0, <2>1, NextNetMap DEF FrontendTypeOK
<1>11. Sound(joined, NetMap') /\ Close(joined, NetMap')
  BY <1>0, <1>9, <1>10, NetsKept DEF Joining
<1>12. EdgesMet'
  <2>1. \A s \in Insts \X Bits : IndexAt(s) # 0 => IndexAt(s)' # 0
    <3>1. \A s \in Insts \X Bits : s \in Nodes
      BY DEF Nodes
    <3> QED BY <1>2, <1>3, <3>1
  <2> QED BY <1>0, <1>5, <2>1 DEF EdgesMet, Joining
<1>13. PortsUnmet'
  BY <1>0, <1>2, <1>3, <1>5 DEF PortsUnmet, Joining
<1>14. Sound(joined, NetMap)' /\ Close(joined, NetMap)'
  BY <1>5, <1>11 DEF Sound, Close, Linked, Nodes, Whole
<1> QED BY <1>12, <1>13, <1>14 DEF Joining

\* A port gets index k: that of the net of signal b of m, or of a new net of both.
BoundAt(m, b, k) ==
    \/ /\ IndexAt(<<m, b>>) # 0 /\ UNCHANGED <<index_to_net_flatindex, net_flatindex>>
       /\ net_flatindex[k] = net_flatindex[IndexAt(<<m, b>>)]
    \/ /\ IndexAt(<<m, b>>) = 0
       /\ index_to_net_flatindex' = [index_to_net_flatindex EXCEPT ![m][b] = k]
       /\ k \notin Indices
       /\ \A i \in Indices : net_flatindex'[i] = net_flatindex[i]
                             /\ net_flatindex[i] # net_flatindex'[k]

\* A port is bound to a signal: one edge more, whose ends have the same net.
LEMMA BoundPortJoins ==
    ASSUME Ready, NEW c \in Insts, NEW p \in Ports, NEW m \in Insts, NEW b \in Bits, NEW k,
           stage[c] = "bind", port_to_bus[c][p] = 0, UNCHANGED stage,
           joined' = joined \cup {{<<m, b>>, <<c, p>>}},
           k # 0,
           port_to_bus' = [port_to_bus EXCEPT ![c][p] = k],
           BoundAt(m, b, k)
    PROVE  Joining'
<1> DEFINE u == <<m, b>>
           v == <<c, p>>
<1>0. FrontendTypeOK /\ OldIndicesComplete /\ Joining
  BY DEF Ready
<1>1. u \in Nodes /\ v \in Nodes /\ u # v /\ IndexAt(v) = 0
      /\ v[2] \notin Bits /\ u[2] \in Bits
  BY NodeKinds DEF IndexAt
<1>2. /\ \A w \in Nodes : w[2] \notin Bits => IndexAt(w)' = IF w = v THEN k ELSE IndexAt(w)
      /\ \A d \in Insts, q \in Ports :
            port_to_bus'[d][q] = IF d = c /\ q = p THEN k ELSE port_to_bus[d][q]
  <2>1. \A w \in Nodes : w[2] \notin Bits => IndexAt(w)' = IF w = v THEN k ELSE IndexAt(w)
    BY <1>0, PortSet
  <2>2. \A d \in Insts, q \in Ports :
           port_to_bus'[d][q] = IF d = c /\ q = p THEN k ELSE port_to_bus[d][q]
    BY <1>0 DEF FrontendTypeOK
  <2> QED BY <2>1, <2>2
<1>3. \A e \in joined : v \notin e
  BY <1>0 DEF Joining, PortsUnmet
<1>4. Known(joined, NetMap, v)
  BY <1>3 DEF Known
<1>5. joined \in SUBSET (SUBSET Nodes)
  BY <1>0 DEF FrontendTypeOK
<1>6. /\ u \in DOMAIN NetMap' /\ NetMap'[u] = NetMap'[v]
      /\ DOMAIN NetMap' = DOMAIN NetMap \cup {u, v}
      /\ v \notin DOMAIN NetMap
      /\ \A w \in DOMAIN NetMap : NetMap'[w] = NetMap[w]
      /\ \A s \in Insts \X Bits : IndexAt(s) # 0 => IndexAt(s)' # 0
      /\ Known(joined, NetMap, u)
      /\ IndexAt(u)' # 0
      /\ u \in DOMAIN NetMap \/ \A w \in DOMAIN NetMap : NetMap[w] # NetMap'[u]
  <2>0. \A s \in Insts \X Bits : s \in Nodes /\ s[2] \in Bits
    BY DEF Nodes
  <2>1. CASE /\ IndexAt(u) # 0 /\ UNCHANGED <<index_to_net_flatindex, net_flatindex>>
             /\ net_flatindex[k] = net_flatindex[IndexAt(u)]
    <3>1. \A w \in Nodes : IndexAt(w)' = IF w = v THEN k ELSE IndexAt(w)
      BY <1>1, <1>2, <2>1, SignalsStay
    <3> HIDE DEF IndexAt, u, v
    <3>2. DOMAIN NetMap' = DOMAIN NetMap \cup {v} /\ u \in DOMAIN NetMap
      BY <1>0, <1>1, <2>1, <3>1, NetMapFacts, NextNetMap
    <3>3. /\ NetMap'[u] = net_flatindex[IndexAt(u)] /\ NetMap'[v] = net_flatindex[k]
          /\ \A w \in DOMAIN NetMap : NetMap'[w] = NetMap[w]
      BY <1>0, <1>1, <2>1, <3>1, <3>2, NetMapFacts, NextNetMap
    <3>4. v \notin DOMAIN NetMap
      BY <1>0, <1>1, NetMapFacts
    <3>5. \A s \in Insts \X Bits : IndexAt(s) # 0 => IndexAt(s)' # 0
      BY <2>0, <3>1
    <3> QED BY <2>1, <3>1, <3>2, <3>3, <3>4, <3>5, <1>1 DEF Known
  <2>2. CASE /\ IndexAt(u) = 0
             /\ index_to_net_flatindex' = [index_to_net_flatindex EXCEPT ![m][b] = k]
             /\ k \notin Indices
             /\ \A i \in Indices : net_flatindex'[i] = net_flatindex[i]
                                   /\ net_flatindex[i] # net_flatindex'[k]
    <3>1. \A w \in Nodes : IndexAt(w)' = IF w \in {u, v} THEN k ELSE IndexAt(w)
      <4>1. \A w \in Nodes : w[2] \in Bits => IndexAt(w)' = IF w = u THEN k ELSE IndexAt(w)
        BY <1>0, <2>2, SignalSet
      <4> QED BY <1>1, <1>2, <4>1
    <3>6. \A e \in joined : u \notin e
      BY <1>0, <2>2, SignalUnmet DEF Joining
    <3> HIDE DEF IndexAt, u, v
    <3>2. /\ DOMAIN NetMap' = DOMAIN NetMap \cup {u, v}
          /\ u \notin DOMAIN NetMap /\ v \notin DOMAIN NetMap
      BY <1>0, <1>1, <2>2, <3>1, NetMapFacts, NextNetMap
    <3>3. /\ NetMap'[u] = net_flatindex'[k] /\ NetMap'[v] = net_flatindex'[k]
      BY <1>1, <3>1, <3>2, NextNetMap
    <3>4. \A w \in DOMAIN NetMap : NetMap'[w] = NetMap[w] /\ NetMap[w] # net_flatindex'[k]
      BY <1>0, <2>2, <3>1, <3>2, NetMapFacts, NextNetMap
    <3>5. \A s \in Insts \X Bits : IndexAt(s) # 0 => IndexAt(s)' # 0
      BY <2>0, <3>1
    <3> QED BY <1>1, <3>1, <3>2, <3>3, <3>4, <3>5, <3>6 DEF Known
  <2> QED BY <2>1, <2>2 DEF BoundAt
<1>7. \A w, z \in DOMAIN NetMap' :
         NetMap'[w] = NetMap'[z] <=>
             \/ w = z
             \/ SameNet(NetMap, w, z)
             \/ /\ w \in {u, v} \/ SameNet(NetMap, w, u) \/ SameNet(NetMap, w, v)
                /\ z \in {u, v} \/ SameNet(NetMap, z, u) \/ SameNet(NetMap, z, v)
  <2> HIDE DEF u, v
  <2> QED BY <1>1, <1>6 DEF SameNet
<1>8. DOMAIN NetMap \subseteq Nodes
  BY <1>0, NetMapFacts
<1>9. Sound(joined', NetMap') /\ Close(joined', NetMap')
  <2> HIDE DEF u, v
  <2>1. Sound(joined \cup {{u, v}}, NetMap') /\ Close(joined \cup {{u, v}}, NetMap')
    BY <1>0, <1>1, <1>4, <1>5, <1>6, <1>7, <1>8, NetsJoined DEF Joining
  <2> QED BY <2>1 DEF u, v
<1>10. EdgesMet'
  <2>1. u \in Insts \X Bits /\ v \in Insts \X Ports
    OBVIOUS
  <2> QED BY <1>0, <1>6, <2>1 DEF EdgesMet, Joining
<1>11. PortsUnmet'
  <2>1. \A d \in Insts, q \in Ports : <<d, q>> # u
    BY NodeKinds
  <2> QED BY <1>0, <1>2, <2>1 DEF PortsUnmet, Joining
<1>12. Sound(joined, NetMap)' /\ Close(joined, NetMap)'
  BY <1>9 DEF Sound, Close, Linked, Nodes, Whole
<1> QED BY <1>10, <1>11, <1>12 DEF Joining

LEMMA BindPortJoins ==
    ASSUME Ready, NEW c \in Insts \ {Top}, NEW p \in Ports, NEW b \in Bits, BindPort(c, p, b)
    PROVE  Joining'
<1> DEFINE m == Parent[c]
           i == GetIndex(m, b)
<1>0. FrontendTypeOK /\ OldIndicesComplete /\ Joining
  BY DEF Ready
<1>1. m \in Insts /\ i = IndexAt(<<m, b>>)
  BY FrontendAssumption DEF GetIndex, IndexAt
<1>2. /\ stage[c] = "bind" /\ port_to_bus[c][p] = 0 /\ UNCHANGED stage
      /\ joined' = joined \cup {{<<m, b>>, <<c, p>>}}
  BY DEF BindPort, At, importVars
<1>3. CASE /\ i # 0
           /\ port_to_bus' = [port_to_bus EXCEPT ![c][p] = udata[net_flatindex[i]]]
           /\ UNCHANGED <<index_to_net_flatindex, nameVars, flatVars>>
  <2>1. i \in Indices
    <3>1. i \in 0..Len(net_flatindex) /\ Len(net_flatindex) \in Nat
      BY <1>0, <1>1 DEF FrontendTypeOK, GetIndex
    <3> QED BY <1>3, <3>1 DEF Indices
  <2>2. /\ udata[net_flatindex[i]] # 0
        /\ net_flatindex[udata[net_flatindex[i]]] = net_flatindex[i]
    BY <1>0, <2>1 DEF OldIndicesComplete, Indices
  <2>3. UNCHANGED <<index_to_net_flatindex, net_flatindex>>
    BY <1>3 DEF flatVars
  <2> HIDE DEF m, i
  <2>4. BoundAt(m, b, udata[net_flatindex[i]])
    BY <1>1, <1>3, <2>2, <2>3 DEF BoundAt
  <2> QED BY <1>1, <1>2, <1>3, <2>2, <2>4, BoundPortJoins
<1>4. CASE /\ i = 0
           /\ CreateNet(m, b)
           /\ port_to_bus' = [port_to_bus EXCEPT ![c][p] = Len(net_flatindex) + 1]
           /\ index_to_net_flatindex' =
                [index_to_net_flatindex EXCEPT ![m][b] = Len(net_flatindex) + 1]
  <2>1. PICK n \in Names, as \in SUBSET Names : n \notin nets /\ NewNet(n, as)
    BY <1>0, <1>1, <1>4, CreatedNet
  <2> DEFINE k == Len(net_flatindex) + 1
  <2>2. /\ k # 0 /\ k \notin Indices
        /\ \A j \in Indices : net_flatindex'[j] = net_flatindex[j]
                              /\ net_flatindex[j] # net_flatindex'[k]
    BY <1>0, <2>1, FreshIndex
  <2> HIDE DEF m, i, k
  <2>3. /\ port_to_bus' = [port_to_bus EXCEPT ![c][p] = k]
        /\ index_to_net_flatindex' = [index_to_net_flatindex EXCEPT ![m][b] = k]
    BY <1>4 DEF k
  <2>4. BoundAt(m, b, k)
    BY <1>1, <1>4, <2>2, <2>3 DEF BoundAt
  <2> QED BY <1>1, <1>2, <2>2, <2>3, <2>4, BoundPortJoins
<1> QED BY <1>3, <1>4 DEF BindPort

LEMMA ImportPortJoins ==
    ASSUME Ready, Loops = FALSE, NEW m \in Insts, NEW p \in Ports, NEW b \in Bits,
           ImportPort(m, p, b)
    PROVE  Joining'
<1> DEFINE v == <<m, p>>
           u == <<m, b>>
           conn == port_to_bus[m][p]
           i == GetIndex(m, b)
<1>0. FrontendTypeOK /\ OldIndicesComplete /\ Joining
  BY DEF Ready
<1>1. /\ u \in Nodes /\ v \in Nodes /\ u # v
      /\ v[2] \notin Bits /\ u[2] \in Bits
  BY NodeKinds
<1>2. IndexAt(v) = conn /\ IndexAt(u) = i /\ conn # 0
  BY <1>1 DEF IndexAt, GetIndex, ImportPort
<1>3. /\ stage[m] = "ports" /\ UNCHANGED stage
      /\ joined' = joined \cup {{v, u}}
  BY DEF ImportPort, At, importVars
<1>4. \A w \in Nodes : w[2] \notin Bits => IndexAt(w)' = IF w = v THEN 0 ELSE IndexAt(w)
  <2>1. port_to_bus' = [port_to_bus EXCEPT ![m][p] = 0]
    BY DEF ImportPort
  <2> QED BY <1>0, <2>1, PortSet
<1>5. \A d \in Insts, q \in Ports : d # m => port_to_bus'[d][q] = port_to_bus[d][q]
  BY <1>0 DEF ImportPort, FrontendTypeOK
<1>6. joined \in SUBSET (SUBSET Nodes) /\ DOMAIN NetMap \subseteq Nodes
  BY <1>0, NetMapFacts DEF FrontendTypeOK
<1>7. v \in DOMAIN NetMap /\ (i # 0 => u \in DOMAIN NetMap)
  <2> HIDE DEF IndexAt, u, v, conn, i
  <2> QED BY <1>0, <1>1, <1>2, NetMapFacts
<1>a. \A s \in Insts \X Bits : s \in Nodes /\ s[2] \in Bits
  BY DEF Nodes
<1>10. /\ Sound(joined \cup {{v, u}}, NetMap') /\ Close(joined \cup {{v, u}}, NetMap')
       /\ \A s \in Insts \X Bits : IndexAt(s) # 0 => IndexAt(s)' # 0
       /\ IndexAt(u)' # 0
  <2>1. CASE i = 0
    <3>1. /\ index_to_net_flatindex' = [index_to_net_flatindex EXCEPT ![m][b] = conn]
          /\ UNCHANGED <<nameVars, flatVars>>
      BY <2>1 DEF ImportPort
    <3>2. \A w \in Nodes : w[2] \in Bits => IndexAt(w)' = IF w = u THEN conn ELSE IndexAt(w)
      BY <1>0, <3>1, SignalSet
    <3>3. UNCHANGED net_flatindex
      BY <3>1 DEF flatVars
    <3>4. \A e \in joined : u \notin e
      BY <1>0, <1>2, <2>1, SignalUnmet DEF Joining
    <3>5. u \notin DOMAIN NetMap
      <4> HIDE DEF IndexAt, u, v, conn, i
      <4> QED BY <1>0, <1>2, <2>1, NetMapFacts
    <3> HIDE DEF IndexAt, u, v, conn, i
    <3>6. \A w \in Nodes : IndexAt(w)' = IF w = u THEN conn ELSE IF w = v THEN 0 ELSE IndexAt(w)
      BY <1>1, <1>4, <3>2
    <3>7. DOMAIN NetMap' = (DOMAIN NetMap \cup {u}) \ {v}
      BY <1>0, <1>1, <1>2, <3>6, NetMapFacts, NextNetMap
    <3>8. /\ NetMap'[u] = NetMap[v]
          /\ \A w \in DOMAIN NetMap \ {v} : NetMap'[w] = NetMap[w]
      BY <1>0, <1>1, <1>2, <1>7, <3>3, <3>5, <3>6, <3>7, NetMapFacts, NextNetMap
    <3>9. \A w, z \in DOMAIN NetMap' :
            NetMap'[w] = NetMap'[z] <=>
                \/ w = z
                \/ SameNet(NetMap, w, z)
                \/ /\ w \in {v, u} \/ SameNet(NetMap, w, v) \/ SameNet(NetMap, w, u)
                   /\ z \in {v, u} \/ SameNet(NetMap, z, v) \/ SameNet(NetMap, z, u)
      BY <1>7, <3>5, <3>7, <3>8 DEF SameNet
    <3>10. Known(joined, NetMap, u) /\ Known(joined, NetMap, v)
      BY <1>7, <3>4 DEF Known
    <3>11. Sound(joined \cup {{v, u}}, NetMap') /\ Close(joined \cup {{v, u}}, NetMap')
      BY <1>0, <1>1, <1>6, <3>7, <3>9, <3>10, NetsJoined DEF Joining
    <3>12. \A s \in Insts \X Bits : IndexAt(s) # 0 => IndexAt(s)' # 0
      BY <1>1, <1>2, <1>a, <3>6
    <3>13. IndexAt(u)' # 0
      BY <1>1, <1>2, <3>6
    <3> QED BY <3>11, <3>12, <3>13
  <2>2. CASE i # 0
    <3>1. /\ MergeNets(net_flatindex[i], net_flatindex[conn])
          /\ UNCHANGED index_to_net_flatindex
      BY <2>2 DEF ImportPort
    <3>2. i \in Indices /\ conn \in Indices
      <4> HIDE DEF IndexAt, u, v, conn, i
      <4> QED BY <1>0, <1>2, <1>7, <2>2, NetMapFacts
    <3>3. \A k \in Indices :
             net_flatindex'[k] = IF net_flatindex[k] = net_flatindex[conn] THEN net_flatindex[i]
                                 ELSE net_flatindex[k]
      BY <1>0, <3>1, <3>2, MergeRenames
    <3>4. \A w \in Nodes : w[2] \in Bits => IndexAt(w)' = IndexAt(w)
      BY <3>1, SignalsStay
    <3> HIDE DEF IndexAt, u, v, conn, i
    <3>6. \A w \in Nodes : IndexAt(w)' = IF w = v THEN 0 ELSE IndexAt(w)
      BY <1>1, <1>4, <3>4
    <3>7. DOMAIN NetMap' = DOMAIN NetMap \ {v}
      BY <1>0, <1>1, <3>6, NetMapFacts, NextNetMap
    <3>8. \A w \in DOMAIN NetMap' :
             NetMap'[w] = IF NetMap[w] = NetMap[v] THEN NetMap[u] ELSE NetMap[w]
      BY <1>0, <1>1, <1>2, <1>7, <2>2, <3>3, <3>6, <3>7, NetMapFacts, NextNetMap
    <3>9. \A w, z \in DOMAIN NetMap' :
            NetMap'[w] = NetMap'[z] <=>
                \/ w = z
                \/ SameNet(NetMap, w, z)
                \/ /\ w \in {v, u} \/ SameNet(NetMap, w, v) \/ SameNet(NetMap, w, u)
                   /\ z \in {v, u} \/ SameNet(NetMap, z, v) \/ SameNet(NetMap, z, u)
      BY <1>7, <2>2, <3>7, <3>8 DEF SameNet
    <3>10. Known(joined, NetMap, u) /\ Known(joined, NetMap, v)
      BY <1>7, <2>2 DEF Known
    <3>11. Sound(joined \cup {{v, u}}, NetMap') /\ Close(joined \cup {{v, u}}, NetMap')
      <4>1. DOMAIN NetMap' \subseteq DOMAIN NetMap \cup {v, u}
        BY <3>7
      <4> QED BY <1>0, <1>1, <1>6, <3>9, <3>10, <4>1, NetsJoined DEF Joining
    <3>12. \A s \in Insts \X Bits : IndexAt(s) # 0 => IndexAt(s)' # 0
      BY <1>1, <1>a, <3>6
    <3>13. IndexAt(u)' # 0
      BY <1>1, <1>2, <2>2, <3>6
    <3> QED BY <3>11, <3>12, <3>13
  <2> QED BY <2>1, <2>2
<1> HIDE DEF conn, i
<1>11. EdgesMet'
  <2>1. u \in Insts \X Bits /\ v \in Insts \X Ports
    OBVIOUS
  <2>2. {v, u} = {u, v}
    OBVIOUS
  <2> HIDE DEF u, v
  <2> QED BY <1>0, <1>3, <1>10, <2>1, <2>2 DEF EdgesMet, Joining
<1>12. PortsUnmet'
  <2> SUFFICES ASSUME NEW d \in Insts, NEW q \in Ports,
                      stage[d] \in {"waiting", "bind"}, port_to_bus'[d][q] = 0,
                      NEW e \in joined', <<d, q>> \in e
               PROVE  FALSE
    BY <1>3 DEF PortsUnmet
  <2>1. d # m
    BY <1>3
  <2>2. e \notin joined
    BY <1>0, <1>5, <2>1 DEF PortsUnmet, Joining
  <2>3. <<d, q>> \in {v, u}
    BY <1>3, <2>2
  <2> QED BY <2>1, <2>3
<1>13. Sound(joined, NetMap)' /\ Close(joined, NetMap)'
  <2>1. Sound(joined', NetMap') /\ Close(joined', NetMap')
    BY <1>3, <1>10
  <2> QED BY <2>1 DEF Sound, Close, Linked, Nodes, Whole
<1> QED BY <1>11, <1>12, <1>13 DEF Joining

LEMMA ImportTiedPortJoins ==
    ASSUME Ready, NEW m \in Insts, NEW p \in Ports, ImportTiedPort(m, p) PROVE Joining'
<1> DEFINE v == <<m, p>>
<1>0. FrontendTypeOK /\ OldIndicesComplete /\ Joining
  BY DEF Ready
<1>1. /\ stage[m] = "ports" /\ UNCHANGED <<stage, joined, net_flatindex>>
      /\ port_to_bus' = [port_to_bus EXCEPT ![m][p] = 0]
      /\ UNCHANGED index_to_net_flatindex
  BY DEF ImportTiedPort, At, importVars, flatVars
<1>2. \A d \in Insts, q \in Ports : d # m => port_to_bus'[d][q] = port_to_bus[d][q]
  BY <1>0, <1>1 DEF FrontendTypeOK
<1>3. \A w \in Nodes : IndexAt(w)' = IF w = v THEN 0 ELSE IndexAt(w)
  <2>1. \A w \in Nodes : w[2] \notin Bits => IndexAt(w)' = IF w = v THEN 0 ELSE IndexAt(w)
    BY <1>0, <1>1, PortSet
  <2>2. \A w \in Nodes : w[2] \in Bits => IndexAt(w)' = IndexAt(w) /\ w # v
    BY <1>1, SignalsStay, NodeKinds
  <2> QED BY <2>1, <2>2
<1>4. \A s \in Insts \X Bits : IndexAt(s)' = IndexAt(s)
  <2>1. \A s \in Insts \X Bits : s \in Nodes /\ s # v
    BY NodeKinds DEF Nodes
  <2> QED BY <1>3, <2>1
<1>5. EdgesMet'
  BY <1>0, <1>1, <1>4 DEF EdgesMet, Joining
<1>6. PortsUnmet'
  BY <1>0, <1>1, <1>2 DEF PortsUnmet, Joining
<1> HIDE DEF IndexAt, v
<1>7. DOMAIN NetMap' = DOMAIN NetMap \ {v}
  BY <1>0, <1>3, NetMapFacts, NextNetMap
<1>8. \A w \in DOMAIN NetMap' : NetMap'[w] = NetMap[w]
  BY <1>0, <1>1, <1>3, <1>7, NetMapFacts, NextNetMap
<1>9. /\ joined \in SUBSET (SUBSET Nodes) /\ DOMAIN NetMap' \subseteq Nodes
      /\ \A w \in DOMAIN NetMap' : Known(joined, NetMap, w)
  BY <1>0, <1>7, NextNetMap DEF FrontendTypeOK, Known
<1>10. \A w, z \in DOMAIN NetMap' : NetMap'[w] = NetMap'[z] <=> (w = z \/ SameNet(NetMap, w, z))
  BY <1>7, <1>8 DEF SameNet
<1>11. Sound(joined, NetMap') /\ Close(joined, NetMap')
  BY <1>0, <1>9, <1>10, NetsKept DEF Joining
<1>12. Sound(joined, NetMap)' /\ Close(joined, NetMap)'
  BY <1>1, <1>11 DEF Sound, Close, Linked, Nodes, Whole
<1> QED BY <1>5, <1>6, <1>12 DEF Joining

LEMMA PadNetJoins ==
    ASSUME Ready, NEW n \in nets, PadNet(n) PROVE Joining'
<1> DEFINE new == <<n[1], n[2], MaxUnique + 1>>
<1>0. FrontendTypeOK /\ OldIndicesComplete /\ Joining
  BY DEF Ready
<1>1. /\ new \notin nets
      /\ net_flatindex' = [i \in Indices |-> IF net_flatindex[i] = n THEN new
                                             ELSE net_flatindex[i]]
      /\ UNCHANGED <<stage, joined, port_to_bus, index_to_net_flatindex>>
  BY DEF PadNet, importVars, signalVars
<1>2. \A w : IndexAt(w)' = IndexAt(w)
  BY <1>1 DEF IndexAt
<1>3. EdgesMet' /\ PortsUnmet'
  BY <1>0, <1>1, <1>2 DEF EdgesMet, PortsUnmet, Joining
<1> HIDE DEF IndexAt, new
<1>4. DOMAIN NetMap' = DOMAIN NetMap
  BY <1>0, <1>2, NetMapFacts, NextNetMap
<1>5. \A w \in DOMAIN NetMap :
         /\ NetMap'[w] = IF NetMap[w] = n THEN new ELSE NetMap[w]
         /\ NetMap[w] # new
  BY <1>0, <1>1, <1>2, <1>4, NetMapFacts, NextNetMap DEF OldIndicesComplete
<1>6. \A w, z \in DOMAIN NetMap' : NetMap'[w] = NetMap'[z] <=> (w = z \/ SameNet(NetMap, w, z))
  BY <1>4, <1>5 DEF SameNet
<1>7. /\ joined \in SUBSET (SUBSET Nodes) /\ DOMAIN NetMap' \subseteq Nodes
      /\ \A w \in DOMAIN NetMap' : Known(joined, NetMap, w)
  BY <1>0, <1>4, NextNetMap DEF FrontendTypeOK, Known
<1>8. Sound(joined, NetMap') /\ Close(joined, NetMap')
  BY <1>0, <1>6, <1>7, NetsKept DEF Joining
<1>9. Sound(joined, NetMap)' /\ Close(joined, NetMap)'
  BY <1>1, <1>8 DEF Sound, Close, Linked, Nodes, Whole
<1> QED BY <1>3, <1>9 DEF Joining

\* The steps that leave nets, indices and edges as they are.
LEMMA QuietStepJoins ==
    ASSUME Ready, UNCHANGED <<joined, index_to_net_flatindex, port_to_bus, net_flatindex>>,
           \A c \in Insts : stage'[c] \in {"waiting", "bind"} => stage[c] \in {"waiting", "bind"}
    PROVE  Joining'
<1>1. Joining
  BY DEF Ready
<1>2. \A w : IndexAt(w)' = IndexAt(w)
  BY DEF IndexAt
<1>3. NetMap' = NetMap
  BY DEF NetMap, IndexAt, Nodes
<1>4. EdgesMet'
  BY <1>1, <1>2 DEF EdgesMet, Joining
<1>5. PortsUnmet'
  BY <1>1 DEF PortsUnmet, Joining
<1> HIDE DEF IndexAt, NetMap
<1>6. Sound(joined, NetMap)' /\ Close(joined, NetMap)'
  BY <1>1, <1>3 DEF Sound, Close, Linked, Nodes, Whole, Joining
<1> QED BY <1>4, <1>5, <1>6 DEF Joining

LEMMA EnterInstanceJoins ==
    ASSUME Ready, NEW c \in Insts \ {Top}, EnterInstance(c) PROVE Joining'
<1>1. UNCHANGED <<joined, index_to_net_flatindex, port_to_bus, net_flatindex>>
  BY DEF EnterInstance, signalVars, flatVars
<1>2. stage \in [Insts -> Stages] /\ stage[c] = "waiting" /\ stage' = [stage EXCEPT ![c] = "bind"]
  BY DEF EnterInstance, Ready, FrontendTypeOK
<1> QED BY <1>1, <1>2, QuietStepJoins

LEMMA GoOnJoins ==
    ASSUME Ready, NEW m \in Insts, GoOn(m) PROVE Joining'
<1>1. UNCHANGED <<joined, index_to_net_flatindex, port_to_bus, net_flatindex>>
  BY DEF GoOn, signalVars, flatVars
<1>2. PICK s \in {"bind", "ports", "netnames", "cells"} : stage' = [stage EXCEPT ![m] = NextStage(s)]
  BY DEF GoOn
<1>3. NextStage(s) \notin {"waiting", "bind"}
  BY DEF NextStage
<1>4. stage \in [Insts -> Stages]
  BY DEF Ready, FrontendTypeOK
<1>5. \A c \in Insts : stage'[c] \in {"waiting", "bind"} => stage[c] \in {"waiting", "bind"}
  BY <1>2, <1>3, <1>4
<1> QED BY <1>1, <1>5, QuietStepJoins

LEMMA StepJoins ==
    ASSUME Loops = FALSE, Ready, [Next]_frontendVars PROVE Joining'
<1>1. ASSUME NEW m \in Insts, NEW l \in Labels, NEW b \in Bits, ImportNetname(m, l, b)
      PROVE  Joining'
  BY <1>1, QuietStepJoins DEF ImportNetname, flatVars
<1>2. ASSUME UNCHANGED frontendVars PROVE Joining'
  BY <1>2, QuietStepJoins DEF frontendVars, importVars, signalVars, flatVars
<1> QED BY <1>1, <1>2, UseSignalJoins, EnterInstanceJoins, BindPortJoins, TiePortJoins,
           ImportPortJoins, ImportTiedPortJoins, GoOnJoins, PadNetJoins DEF Next

LEMMA InitJoins == Init => Joining
<1> SUFFICES ASSUME Init PROVE Joining
  OBVIOUS
<1>1. \A w \in Nodes : IndexAt(w) = 0
  BY NodeKinds DEF Init, IndexAt
<1>2. joined = {}
  BY DEF Init
<1> HIDE DEF IndexAt
<1>3. DOMAIN NetMap = {}
  BY <1>1 DEF NetMap
<1> QED BY <1>2, <1>3 DEF Joining, Sound, Close, EdgesMet, PortsUnmet

\* What is linked to a signal with a net and has a net has the same one.
LEMMA LinkedSameNet ==
    ASSUME Ready, NEW w \in DOMAIN NetMap, NEW z \in DOMAIN NetMap, z \in Linked(joined, w)
    PROVE  NetMap[w] = NetMap[z]
<1> DEFINE On(y) == y \in DOMAIN NetMap /\ NetMap[y] = NetMap[w]
           Near == {y \in Nodes : On(y) \/ \E e \in joined : y \in e /\ \E x \in e : On(x)}
<1>0. /\ joined \in SUBSET (SUBSET Nodes) /\ Close(joined, NetMap) /\ EdgesMet
      /\ w \in Nodes /\ z \in Nodes
  BY NetMapFacts DEF Ready, Joining, FrontendTypeOK
<1>1. \A e \in joined : \E s \in e : s \in DOMAIN NetMap
  <2> SUFFICES ASSUME NEW e \in joined PROVE \E s \in e : s \in DOMAIN NetMap
    OBVIOUS
  <2>1. PICK s \in Insts \X Bits, v \in Insts \X Ports : e = {s, v} /\ IndexAt(s) # 0
    BY <1>0 DEF EdgesMet
  <2>2. s \in Nodes
    BY DEF Nodes
  <2> HIDE DEF IndexAt
  <2> QED BY <2>1, <2>2, NetMapFacts DEF Ready
<1>2. ASSUME NEW e \in joined, NEW f \in joined, NEW y \in e, y \in f,
             NEW x \in f, On(x), NEW s \in e, s \in DOMAIN NetMap
      PROVE  On(s)
  <2>1. NetMap[s] = NetMap[x]
    BY <1>0, <1>2 DEF Close
  <2> QED BY <1>2, <2>1
<1>3. Whole(joined, Near)
  <2> SUFFICES ASSUME NEW e \in joined, NEW y \in e, y \in Near PROVE e \subseteq Near
    BY DEF Whole
  <2>1. \E x \in e : On(x)
    <3>1. CASE On(y)
      BY <3>1
    <3>2. CASE \E f \in joined : y \in f /\ \E x \in f : On(x)
      BY <1>1, <1>2, <3>2
    <3> QED BY <3>1, <3>2
  <2>2. e \subseteq Nodes
    BY <1>0
  <2> QED BY <2>1, <2>2
<1>4. w \in Near /\ Near \in SUBSET Nodes
  BY <1>0
<1>5. z \in Near
  <2> HIDE DEF Near
  <2> QED BY <1>0, <1>3, <1>4, LinkedFacts
<1>6. CASE \E e \in joined : z \in e /\ \E x \in e : On(x)
  BY <1>2, <1>6
<1> QED BY <1>5, <1>6

LEMMA JoiningTellsNets ==
    ASSUME Ready PROVE NetsAreTheJoinedSignals
<1> SUFFICES ASSUME NEW m \in Insts, NEW b \in Bits, GetIndex(m, b) # 0,
                    NEW k \in Insts, NEW d \in Bits, GetIndex(k, d) # 0
             PROVE  net_flatindex[GetIndex(m, b)] = net_flatindex[GetIndex(k, d)]
                      <=> <<k, d>> \in JoinedTo(<<m, b>>)
  BY DEF NetsAreTheJoinedSignals
<1> DEFINE w == <<m, b>>
           z == <<k, d>>
<1>1. w \in Nodes /\ z \in Nodes
  BY NodeKinds
<1>2. IndexAt(w) = GetIndex(m, b) /\ IndexAt(z) = GetIndex(k, d)
  BY DEF IndexAt, GetIndex
<1>3. FrontendTypeOK /\ Sound(joined, NetMap) /\ joined \in SUBSET (SUBSET Nodes)
  BY DEF Ready, Joining, FrontendTypeOK
<1> HIDE DEF IndexAt, w, z
<1>4. w \in DOMAIN NetMap /\ z \in DOMAIN NetMap
  BY <1>1, <1>2, <1>3, NetMapFacts
<1>5. NetMap[w] = net_flatindex[GetIndex(m, b)] /\ NetMap[z] = net_flatindex[GetIndex(k, d)]
  BY <1>2, <1>3, <1>4, NetMapFacts
<1>6. NetMap[w] = NetMap[z] <=> z \in Linked(joined, w)
  BY <1>3, <1>4, LinkedSameNet DEF Sound
<1>7. JoinedTo(w) = Linked(joined, w)
  BY <1>1, <1>3, JoinedIsLinked
<1> QED BY <1>5, <1>6, <1>7 DEF w, z

\* Flattening neither shorts two signals nor splits one, in every design in
\* which no instance joins a net to itself and at every moment of the import:
\* import_port_connections and import_submodule_cell give two signals one net
\* exactly if the ports met so far join them.
THEOREM NetsStayTheJoinedSignals ==
    ASSUME Loops = FALSE
    PROVE  Spec => []NetsAreTheJoinedSignals
<1>1. Init => Joining
  BY InitJoins
<1>2. FrontendTypeOK /\ OldIndicesComplete /\ Joining /\ [Next]_frontendVars => Joining'
  BY StepJoins DEF Ready
<1>3. FrontendTypeOK /\ OldIndicesComplete /\ Joining => NetsAreTheJoinedSignals
  BY JoiningTellsNets DEF Ready
<1> QED BY <1>1, <1>2, <1>3, FrontendTypeCorrect, PTL DEF Spec

-----------------------------------------------------------------------------
(* The names of a design without hierarchy. *)

\* While the netnames are read there are no nets; a label names one signal, and
\* the labels of a signal without a net are free.
LabelsFree ==
    /\ stage[Top] \in {"netnames", "cells", "done"}
    /\ stage[Top] = "netnames" =>
         /\ nets = {}
         /\ \A a \in Names : net_aliases[a] = NoName
         /\ \A b \in Bits : index_to_net_flatindex[Top][b] = 0
    /\ \A b \in Bits : net_names[Top][b] \subseteq named[Top]
    /\ \A b, d \in Bits : b # d => net_names[Top][b] \cap net_names[Top][d] = {}
    /\ \A b \in Bits : index_to_net_flatindex[Top][b] = 0 =>
         \A l \in net_names[Top][b] : ~Taken(<<Top, l, 0>>)

AliasesLead ==
    /\ \A a \in Names : net_aliases[a] \in nets \cup {NoName}
    /\ \A n \in nets : n[3] <= MaxUnique =>
         net_aliases[n] = n /\ \A a \in aliases[n] : net_aliases[a] = n

FlatNames == FrontendTypeOK /\ OldIndicesComplete /\ LabelsFree /\ AliasesLead

\* The net of a signal, in a design without hierarchy.
LEMMA FlatCreates ==
    ASSUME Labels \cap Bits = {}, FlatNames, NEW b \in Bits, CreateNet(Top, b),
           index_to_net_flatindex[Top][b] = 0
    PROVE  \E n \in Names : \E as \in SUBSET Names :
              /\ NewNet(n, as) /\ n \notin nets
              /\ \A a \in as \cup {n} : net_aliases[a] = NoName
              /\ \A d \in Bits \ {b} : \A l \in net_names[Top][d] :
                    <<Top, l, 0>> \notin as \cup {n}
<1>0. /\ Top \in Insts /\ 0 \in 0..(MaxUnique + 1) /\ Labels \subseteq Locals /\ Bits \subseteq Locals
      /\ \A d \in Bits : net_names[Top][d] \subseteq Labels
      /\ \A d \in Bits \ {b} : net_names[Top][b] \cap net_names[Top][d] = {}
  BY FrontendAssumption DEF FlatNames, FrontendTypeOK, LabelsFree, Locals
<1>1. CASE \E l \in net_names[Top][b] : \E n \in UniqueNames(Top, l) :
             NewNet(n, {<<Top, k, 0>> : k \in net_names[Top][b]})
  <2>1. PICK l \in net_names[Top][b] : \E n \in UniqueNames(Top, l) :
             NewNet(n, {<<Top, k, 0>> : k \in net_names[Top][b]})
    BY <1>1
  <2>2. PICK n \in UniqueNames(Top, l) : NewNet(n, {<<Top, k, 0>> : k \in net_names[Top][b]})
    BY <2>1
  <2>3. \A k \in net_names[Top][b] : ~Taken(<<Top, k, 0>>)
    BY DEF FlatNames, LabelsFree
  <2>4. n = <<Top, l, 0>>
    <3>1. PICK i \in 0..MaxUnique : /\ n = <<Top, l, i>>
                                    /\ \A k \in 0..(i - 1) : Taken(<<Top, l, k>>)
      BY DEF UniqueNames
    <3>2. i = 0
      <4> SUFFICES ASSUME i # 0 PROVE FALSE
        OBVIOUS
      <4>1. 0 \in 0..(i - 1)
        BY FrontendAssumption
      <4> QED BY <2>3, <3>1, <4>1
    <3> QED BY <3>1, <3>2
  <2> DEFINE as == {<<Top, k, 0>> : k \in net_names[Top][b]}
  <2>5. n \in as /\ as \in SUBSET Names /\ n \in Names
    BY <1>0, <2>4 DEF Names
  <2>6. \A a \in as \cup {n} : ~Taken(a)
    BY <2>3, <2>4
  <2>7. \A a \in as \cup {n} : net_aliases[a] = NoName /\ a \notin nets
    BY <2>6 DEF Taken
  <2>8. \A d \in Bits \ {b} : \A k \in net_names[Top][d] : <<Top, k, 0>> \notin as \cup {n}
    BY <1>0, <2>4
  <2>9. NewNet(n, as)
    BY <2>2
  <2> HIDE DEF as
  <2> QED BY <2>5, <2>7, <2>8, <2>9
<1>2. CASE net_names[Top][b] = {} /\ \E n \in UniqueNames(Top, b) : NewNet(n, {n})
  <2>1. PICK n \in UniqueNames(Top, b) : NewNet(n, {n})
    BY <1>2
  <2>2. n \in Names /\ n \notin nets
    BY <1>0, UniqueNamesAreFree
  <2>3. net_aliases[n] = NoName /\ n[2] = b
    <3>1. PICK i \in 0..MaxUnique : n = <<Top, b, i>> /\ ~Taken(<<Top, b, i>>)
      BY DEF UniqueNames
    <3> QED BY <3>1 DEF Taken
  <2>4. \A d \in Bits \ {b} : \A k \in net_names[Top][d] : <<Top, k, 0>> # n
    BY <1>0, <2>3
  <2> QED BY <2>1, <2>2, <2>3, <2>4
<1> QED BY <1>1, <1>2 DEF CreateNet

LEMMA UseSignalFlat ==
    ASSUME Labels \cap Bits = {}, FlatNames, NEW b \in Bits, UseSignal(Top, b)
    PROVE  LabelsFree' /\ AliasesLead'
<1>0. /\ stage[Top] = "cells" /\ index_to_net_flatindex[Top][b] = 0 /\ CreateNet(Top, b)
      /\ index_to_net_flatindex' =
           [index_to_net_flatindex EXCEPT ![Top][b] = Len(net_flatindex) + 1]
      /\ UNCHANGED <<stage, named, net_names>>
  BY DEF UseSignal, At, GetIndex, importVars
<1>1. PICK n \in Names, as \in SUBSET Names :
              /\ NewNet(n, as) /\ n \notin nets
              /\ \A a \in as \cup {n} : net_aliases[a] = NoName
              /\ \A d \in Bits \ {b} : \A l \in net_names[Top][d] :
                    <<Top, l, 0>> \notin as \cup {n}
  BY <1>0, FlatCreates
<1>2. /\ nets' = nets \cup {n}
      /\ \A a \in Names : net_aliases'[a] = IF a \in as \cup {n} THEN n ELSE net_aliases[a]
      /\ aliases'[n] = as /\ \A h \in Names : h # n => aliases'[h] = aliases[h]
  BY <1>1 DEF NewNet, FlatNames, FrontendTypeOK
<1>3. /\ nets \subseteq Names /\ \A h \in Names : aliases[h] \subseteq Names
      /\ NoName \notin Names /\ Len(net_flatindex) \in Nat
  BY NoNameAssumption DEF FlatNames, FrontendTypeOK
<1>4. /\ \A a \in Names : net_aliases[a] \in nets \cup {NoName}
      /\ \A h \in nets : h[3] <= MaxUnique =>
           net_aliases[h] = h /\ \A a \in aliases[h] : net_aliases[a] = h
  BY DEF FlatNames, AliasesLead
<1>5. AliasesLead'
  <2>1. \A a \in Names : net_aliases'[a] \in nets' \cup {NoName}
    BY <1>2, <1>4
  <2>2. ASSUME NEW h \in nets', h[3] <= MaxUnique
        PROVE  net_aliases'[h] = h /\ \A a \in aliases'[h] : net_aliases'[a] = h
    <3>1. CASE h = n
      BY <1>2, <3>1
    <3>2. CASE h # n
      <4>1. h \in nets /\ h \in Names /\ aliases'[h] = aliases[h] /\ aliases[h] \subseteq Names
        BY <1>2, <1>3, <3>2
      <4>2. net_aliases[h] = h /\ \A a \in aliases[h] : net_aliases[a] = h
        BY <1>4, <2>2, <4>1
      <4>3. h # NoName
        BY <1>3, <4>1
      <4>4. h \notin as \cup {n} /\ \A a \in aliases[h] : a \notin as \cup {n}
        BY <1>1, <4>2, <4>3
      <4> QED BY <1>2, <4>1, <4>2, <4>4
    <3> QED BY <3>1, <3>2
  <2> QED BY <2>1, <2>2 DEF AliasesLead
<1>6. \A d \in Bits : index_to_net_flatindex'[Top][d] = 0 =>
         d # b /\ index_to_net_flatindex[Top][d] = 0
  BY <1>0, <1>3, FrontendAssumption DEF FlatNames, FrontendTypeOK
<1>7. ASSUME NEW d \in Bits, index_to_net_flatindex'[Top][d] = 0, NEW l \in net_names'[Top][d]
      PROVE  ~Taken(<<Top, l, 0>>)'
  <2>1. d \in Bits \ {b} /\ index_to_net_flatindex[Top][d] = 0 /\ l \in net_names[Top][d]
    BY <1>0, <1>6, <1>7
  <2>2. ~Taken(<<Top, l, 0>>)
    BY <2>1 DEF FlatNames, LabelsFree
  <2>3. <<Top, l, 0>> \in Names
    BY <2>1, FrontendAssumption DEF FlatNames, FrontendTypeOK, Names, Locals
  <2> QED BY <1>1, <1>2, <2>1, <2>2, <2>3 DEF Taken
<1>8. LabelsFree'
  <2>1. /\ stage[Top] = "cells"
        /\ \A d \in Bits : net_names[Top][d] \subseteq named[Top]
        /\ \A d, e \in Bits : d # e => net_names[Top][d] \cap net_names[Top][e] = {}
    BY <1>0 DEF FlatNames, LabelsFree
  <2>2. /\ stage'[Top] = "cells"
        /\ \A d \in Bits : net_names'[Top][d] \subseteq named'[Top]
        /\ \A d, e \in Bits : d # e => net_names'[Top][d] \cap net_names'[Top][e] = {}
    BY <1>0, <2>1
  <2> QED BY <1>7, <2>2 DEF LabelsFree
<1> QED BY <1>5, <1>8

LEMMA ImportNetnameFlat ==
    ASSUME FlatNames, NEW l \in Labels, NEW b \in Bits, ImportNetname(Top, l, b)
    PROVE  LabelsFree' /\ AliasesLead'
<1>0. LabelsFree /\ AliasesLead /\ FrontendTypeOK
  BY DEF FlatNames
<1>1. /\ stage[Top] = "netnames" /\ l \notin named[Top]
      /\ named' = [named EXCEPT ![Top] = @ \cup {l}]
      /\ UNCHANGED <<stage, index_to_net_flatindex>>
  BY DEF ImportNetname, At
<1>2. GetIndex(Top, b) = 0
  BY <1>0, <1>1 DEF LabelsFree, GetIndex
<1>3. net_names' = [net_names EXCEPT ![Top][b] = @ \cup {l}] /\ UNCHANGED <<nets, net_aliases, aliases>>
  BY <1>2 DEF ImportNetname, nameVars
<1>4. AliasesLead'
  BY <1>0, <1>3 DEF AliasesLead
<1>5. \A d \in Bits : net_names'[Top][d] = IF d = b THEN net_names[Top][d] \cup {l}
                                           ELSE net_names[Top][d]
  BY <1>0, <1>3, FrontendAssumption DEF FrontendTypeOK
<1>6. named'[Top] = named[Top] \cup {l}
  BY <1>0, <1>1, FrontendAssumption DEF FrontendTypeOK
<1>7. \A d \in Bits : net_names'[Top][d] \subseteq named'[Top]
  BY <1>0, <1>5, <1>6 DEF LabelsFree
<1>8. \A d, e \in Bits : d # e => net_names'[Top][d] \cap net_names'[Top][e] = {}
  BY <1>0, <1>1, <1>5 DEF LabelsFree
<1>9. ASSUME NEW d \in Bits, NEW k \in net_names'[Top][d] PROVE ~Taken(<<Top, k, 0>>)'
  <2>1. k \in Labels
    <3>1. net_names[Top][d] \subseteq Labels
      BY <1>0, FrontendAssumption DEF FrontendTypeOK
    <3> QED BY <1>5, <3>1
  <2>2. <<Top, k, 0>> \in Names
    BY <2>1, FrontendAssumption DEF Names, Locals
  <2>3. nets = {} /\ net_aliases[<<Top, k, 0>>] = NoName
    BY <1>0, <1>1, <2>2 DEF LabelsFree
  <2> QED BY <1>3, <2>3 DEF Taken
<1>10. /\ stage[Top] = "netnames" => /\ nets = {}
                                     /\ \A a \in Names : net_aliases[a] = NoName
                                     /\ \A d \in Bits : index_to_net_flatindex[Top][d] = 0
       /\ stage[Top] \in {"netnames", "cells", "done"}
  BY <1>0 DEF LabelsFree
<1>11. LabelsFree'
  <2>1. \A d \in Bits : index_to_net_flatindex'[Top][d] = 0 =>
          \A k \in net_names'[Top][d] : ~Taken(<<Top, k, 0>>)'
    BY <1>9
  <2>2. /\ stage' = stage /\ nets' = nets /\ net_aliases' = net_aliases
        /\ index_to_net_flatindex' = index_to_net_flatindex
    BY <1>1, <1>3
  <2> QED BY <1>7, <1>8, <1>10, <2>1, <2>2 DEF LabelsFree
<1> QED BY <1>4, <1>11

LEMMA GoOnFlat ==
    ASSUME FlatNames, GoOn(Top) PROVE LabelsFree' /\ AliasesLead'
<1>0. LabelsFree /\ AliasesLead /\ FrontendTypeOK
  BY DEF FlatNames
<1>1. UNCHANGED <<named, index_to_net_flatindex, net_names, nets, net_aliases, aliases>>
  BY DEF GoOn, signalVars, nameVars
<1>2. PICK s \in {"bind", "ports", "netnames", "cells"} :
        stage[Top] = s /\ stage' = [stage EXCEPT ![Top] = NextStage(s)]
  BY DEF GoOn, At
<1>3. s \in {"netnames", "cells"}
  BY <1>0, <1>2 DEF LabelsFree
<1>4. NextStage(s) \in {"cells", "done"}
  BY <1>3 DEF NextStage
<1>5. stage'[Top] \in {"cells", "done"}
  BY <1>0, <1>2, <1>4, FrontendAssumption DEF FrontendTypeOK
<1>6. AliasesLead'
  BY <1>0, <1>1 DEF AliasesLead
<1>7. LabelsFree'
  BY <1>0, <1>1, <1>5 DEF LabelsFree, Taken
<1> QED BY <1>6, <1>7

LEMMA PadNetFlat ==
    ASSUME FlatNames, NEW n \in nets, PadNet(n) PROVE LabelsFree' /\ AliasesLead'
<1> DEFINE new == <<n[1], n[2], MaxUnique + 1>>
<1>0. LabelsFree /\ AliasesLead /\ FrontendTypeOK /\ n \in Names /\ new \in Names
  BY FrontendAssumption DEF FlatNames, FrontendTypeOK, Names
<1>1. /\ n[3] = 0 /\ new \notin nets
      /\ nets' = nets \cup {new}
      /\ net_aliases' = [net_aliases EXCEPT ![n] = n]
      /\ aliases' = [aliases EXCEPT ![n] = {}, ![new] = aliases[n]]
      /\ UNCHANGED <<stage, named, index_to_net_flatindex, net_names>>
  BY DEF PadNet, importVars, signalVars
<1>2. MaxUnique \in Nat /\ new[3] = MaxUnique + 1 /\ new # n
  BY <1>1, FrontendAssumption
<1>3. net_aliases[n] = n
  BY <1>0, <1>1, <1>2 DEF AliasesLead
<1>4. \A a \in Names : net_aliases'[a] = net_aliases[a]
  BY <1>0, <1>1, <1>3 DEF FrontendTypeOK
<1>5. \A h \in Names : h # new => aliases'[h] = IF h = n THEN {} ELSE aliases[h]
  BY <1>0, <1>1, <1>2 DEF FrontendTypeOK
<1>6. nets \subseteq Names /\ \A h \in Names : aliases[h] \subseteq Names
  BY <1>0 DEF FrontendTypeOK
<1> HIDE DEF new
<1>7. ASSUME NEW h \in nets', h[3] <= MaxUnique
      PROVE  net_aliases'[h] = h /\ \A a \in aliases'[h] : net_aliases'[a] = h
  <2>1. h # new
    BY <1>2, <1>7
  <2>2. h \in nets /\ h \in Names
    BY <1>1, <1>6, <2>1
  <2>3. net_aliases[h] = h /\ \A a \in aliases[h] : net_aliases[a] = h
    BY <1>0, <1>7, <2>2 DEF AliasesLead
  <2>4. aliases'[h] \subseteq aliases[h] /\ aliases[h] \subseteq Names
    BY <1>5, <1>6, <2>1, <2>2
  <2> QED BY <1>4, <2>2, <2>3, <2>4
<1>8. AliasesLead'
  <2>1. \A a \in Names : net_aliases'[a] \in nets' \cup {NoName}
    BY <1>0, <1>1, <1>4 DEF AliasesLead
  <2> QED BY <1>7, <2>1 DEF AliasesLead
<1>9. \A k \in Labels : Taken(<<Top, k, 0>>)' = Taken(<<Top, k, 0>>)
  <2> SUFFICES ASSUME NEW k \in Labels PROVE Taken(<<Top, k, 0>>)' = Taken(<<Top, k, 0>>)
    OBVIOUS
  <2>1. <<Top, k, 0>> \in Names
    BY FrontendAssumption DEF Names, Locals
  <2>2. <<Top, k, 0>> # new
    BY <1>2
  <2> QED BY <1>1, <1>4, <2>1, <2>2 DEF Taken
<1>10. stage[Top] # "netnames"
  BY <1>0 DEF LabelsFree
<1>11. \A b \in Bits : net_names[Top][b] \subseteq Labels
  BY <1>0, FrontendAssumption DEF FrontendTypeOK
<1>12. LabelsFree'
  <2>1. \A b \in Bits : index_to_net_flatindex'[Top][b] = 0 =>
          \A l \in net_names'[Top][b] : ~Taken(<<Top, l, 0>>)'
    BY <1>0, <1>1, <1>9, <1>11 DEF LabelsFree
  <2>2. /\ stage[Top] \in {"netnames", "cells", "done"}
        /\ \A b \in Bits : net_names[Top][b] \subseteq named[Top]
        /\ \A b, d \in Bits : b # d => net_names[Top][b] \cap net_names[Top][d] = {}
    BY <1>0 DEF LabelsFree
  <2> QED BY <1>1, <1>10, <2>1, <2>2 DEF LabelsFree
<1> QED BY <1>8, <1>12

\* A design without hierarchy now had none before.
LEMMA StaysFlat ==
    ASSUME stage \in [Insts -> Stages], [Next]_frontendVars, Flat' PROVE Flat
<1>1. ASSUME UNCHANGED stage PROVE Flat
  BY <1>1 DEF Flat
<1>2. ASSUME NEW c \in Insts \ {Top}, EnterInstance(c) PROVE FALSE
  BY <1>2 DEF EnterInstance, Flat
<1>3. ASSUME NEW m \in Insts, GoOn(m) PROVE Flat
  <2>1. PICK s \in {"bind", "ports", "netnames", "cells"} : stage' = [stage EXCEPT ![m] = NextStage(s)]
    BY <1>3 DEF GoOn
  <2>2. NextStage(s) # "waiting"
    BY DEF NextStage
  <2>3. m = Top
    BY <2>1, <2>2 DEF Flat
  <2> QED BY <2>1, <2>3 DEF Flat
<1> QED BY <1>1, <1>2, <1>3 DEF Next, UseSignal, BindPort, TiePort, ImportPort, ImportTiedPort,
             ImportNetname, PadNet, frontendVars, importVars

\* The steps of a design without hierarchy are those of its top level module.
LEMMA FlatStep ==
    ASSUME Labels \cap Bits = {}, Flat, FlatNames, [Next]_frontendVars, Flat'
    PROVE  FlatNames'
<1>0. FrontendTypeOK /\ OldIndicesComplete /\ LabelsFree /\ AliasesLead
      /\ \A c \in Insts \ {Top} : stage[c] = "waiting"
  BY DEF Flat, FlatNames
<1>1. FrontendTypeOK'
  BY <1>0, StepTypes
<1>2. ASSUME NEW m \in Insts, NEW s \in {"bind", "ports", "netnames", "cells"}, At(m, s)
      PROVE  m = Top /\ s \in {"netnames", "cells"}
  BY <1>0, <1>2 DEF At, LabelsFree
<1> DEFINE Good == OldIndicesComplete' /\ LabelsFree' /\ AliasesLead'
<1>3. ASSUME NEW m \in Insts, NEW b \in Bits, UseSignal(m, b) PROVE Good
  <2>1. m = Top
    BY <1>2, <1>3 DEF UseSignal
  <2>2. OldIndicesComplete'
    BY <1>0, <1>3, CreatedNet, NewNetKeepsComplete DEF UseSignal
  <2> QED BY <1>3, <2>1, <2>2, UseSignalFlat
<1>4. ASSUME NEW c \in Insts \ {Top}, EnterInstance(c) PROVE FALSE
  BY <1>0, <1>4 DEF EnterInstance, Flat, FrontendTypeOK
<1>5. ASSUME NEW c \in Insts \ {Top}, NEW p \in Ports,
             \/ \E b \in Bits : BindPort(c, p, b)
             \/ TiePort(c, p)
      PROVE  FALSE
  BY <1>2, <1>5 DEF BindPort, TiePort
<1>6. ASSUME NEW m \in Insts, NEW p \in Ports,
             \/ \E b \in Bits : ImportPort(m, p, b)
             \/ ImportTiedPort(m, p)
      PROVE  FALSE
  BY <1>2, <1>6 DEF ImportPort, ImportTiedPort
<1>7. ASSUME NEW m \in Insts, NEW l \in Labels, NEW b \in Bits, ImportNetname(m, l, b) PROVE Good
  <2>1. m = Top
    BY <1>2, <1>7 DEF ImportNetname
  <2>2. UNCHANGED nets
    BY <1>7 DEF ImportNetname, nameVars
  <2>3. UNCHANGED flatVars
    BY <1>7 DEF ImportNetname
  <2>4. OldIndicesComplete'
    BY <1>0, <2>2, <2>3 DEF flatVars, OldIndicesComplete, Indices
  <2> QED BY <1>7, <2>1, <2>4, ImportNetnameFlat
<1>8. ASSUME NEW m \in Insts, GoOn(m) PROVE Good
  <2>1. m = Top
    BY <1>2, <1>8 DEF GoOn
  <2>2. OldIndicesComplete'
    BY <1>0, <1>8 DEF GoOn, nameVars, flatVars, OldIndicesComplete, Indices
  <2> QED BY <1>8, <2>1, <2>2, GoOnFlat
<1>9. ASSUME NEW n \in nets, PadNet(n) PROVE Good
  BY <1>0, <1>9, PadKeepsComplete, PadNetFlat
<1>10. ASSUME UNCHANGED frontendVars PROVE Good
  <2>1. OldIndicesComplete'
    BY <1>0, <1>10 DEF frontendVars, nameVars, flatVars, OldIndicesComplete, Indices
  <2>2. LabelsFree' /\ AliasesLead'
    BY <1>0, <1>10 DEF frontendVars, importVars, signalVars, nameVars, LabelsFree, AliasesLead, Taken
  <2> QED BY <2>1, <2>2
<1>11. Good
  BY <1>3, <1>4, <1>5, <1>6, <1>7, <1>8, <1>9, <1>10 DEF Next
<1> QED BY <1>1, <1>11 DEF FlatNames

FlatInvariant == stage \in [Insts -> Stages] /\ (Flat => FlatNames)

LEMMA StageTypes ==
    ASSUME stage \in [Insts -> Stages], [Next]_frontendVars PROVE stage' \in [Insts -> Stages]
<1>1. ASSUME NEW c \in Insts \ {Top}, EnterInstance(c) PROVE stage' \in [Insts -> Stages]
  BY <1>1 DEF EnterInstance, Stages
<1>2. ASSUME NEW m \in Insts, GoOn(m) PROVE stage' \in [Insts -> Stages]
  <2>1. PICK s \in {"bind", "ports", "netnames", "cells"} : stage' = [stage EXCEPT ![m] = NextStage(s)]
    BY <1>2 DEF GoOn
  <2>2. NextStage(s) \in Stages
    BY DEF NextStage, Stages
  <2> QED BY <2>1, <2>2
<1> QED BY <1>1, <1>2 DEF Next, UseSignal, BindPort, TiePort, ImportPort, ImportTiedPort,
             ImportNetname, PadNet, frontendVars, importVars

LEMMA InitFlat == Init => FlatInvariant
<1> SUFFICES ASSUME Init PROVE FlatInvariant
  OBVIOUS
<1>1. FrontendTypeOK /\ OldIndicesComplete
  BY InitComplete
<1>2. LabelsFree /\ AliasesLead
  BY FrontendAssumption DEF Init, LabelsFree, AliasesLead
<1> QED BY <1>1, <1>2 DEF FlatInvariant, FlatNames, FrontendTypeOK

\* In a design without hierarchy every name leads to a net and every alias of a
\* net back to it, whatever netnames its signals have, as long as none of them is
\* the name of an anonymous net ("$frontend$<idx>").  create_or_get_net writes
\* net_aliases without looking: what makes it right is that import_module reads
\* the netnames before the cells, and each only once.
THEOREM FlatAliasesResolve ==
    ASSUME Labels \cap Bits = {}
    PROVE  Spec => []AliasesResolve
<1>1. FlatInvariant /\ [Next]_frontendVars => FlatInvariant'
  <2> SUFFICES ASSUME FlatInvariant, [Next]_frontendVars PROVE FlatInvariant'
    OBVIOUS
  <2>1. stage' \in [Insts -> Stages]
    BY StageTypes DEF FlatInvariant
  <2>2. ASSUME Flat' PROVE FlatNames'
    BY <2>2, StaysFlat, FlatStep DEF FlatInvariant
  <2> QED BY <2>1, <2>2 DEF FlatInvariant
<1>2. FlatInvariant => AliasesResolve
  BY DEF FlatInvariant, FlatNames, AliasesLead, AliasesResolve
<1> QED BY <1>1, <1>2, InitFlat, PTL DEF Spec
=============================================================================
