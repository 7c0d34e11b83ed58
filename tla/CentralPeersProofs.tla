------------------------- MODULE CentralPeersProofs -------------------------
(***************************************************************************)
(* Central's manual peers, for any machines, addresses, files and numbers  *)
(* of edits, crashes and failed saves: between operations the runtime has  *)
(* the peers of the configuration, what a request was told has been done   *)
(* is in the file, and a reload loses no peer that was added by request.   *)
(***************************************************************************)
EXTENDS CentralPeers, ListsProofs

-----------------------------------------------------------------------------
(* What the variables hold.                                                *)

Manual == [port : Ports \cup {0}, fromConfig : BOOLEAN]

Requests == [kind : {"add", "remove"}, address : Addresses,
             at : {"save", "apply", "commit", "rollback"}, next : Config]
Reloads == [kind : {"reload"}, at : {"port", "peers"}]

IsListing(list) ==
    /\ DOMAIN list.nodes \subseteq Nodes
    /\ \A n \in DOMAIN list.nodes :
        list.nodes[n] \in [address : Nodes \cup Addresses, port : Ports]
    /\ DOMAIN list.others \subseteq Addresses
    /\ \A a \in DOMAIN list.others : list.others[a] \in Ports

RefreshInv ==
    \/ refresh = NoRefresh
    \/ /\ refresh.at \in {"discovered", "merge"}
       /\ refresh.nodes \subseteq Nodes /\ refresh.port \in Ports
       /\ refresh.at = "merge" => refresh.before \in Ports
    \/ refresh.at = "publish" /\ IsListing(refresh.list)

\* A request to add a peer has it in what it is about to write.
AddInv == op.kind = "add" => op.address \in AddressesIn(op.next.peers)

TypeInv ==
    /\ TypeOK
    /\ manual \in [DOMAIN manual -> Manual]
    /\ op \in {NoOp} \cup Requests \cup Reloads
    /\ RefreshInv /\ AddInv
    /\ phase = "down" => op = NoOp

-----------------------------------------------------------------------------
(* The runtime and the configuration.                                      *)

\* The runtime has what c has, and of what it has beside nothing from a file.
Holds(c) ==
    /\ \A a \in AddressesIn(c.peers) :
        a \in DOMAIN manual /\ manual[a].port = PortOf(c.peers, a)
    /\ \A a \in DOMAIN manual \ AddressesIn(c.peers) : ~manual[a].fromConfig

\* What a request is about to make of the configuration.
Asked ==
    /\ op.next.agentPort = cfg.agentPort
    /\ op.kind = "add" =>
        \E p \in Ports \cup {0} :
            op.next.peers = Append(cfg.peers, [address |-> op.address, port |-> p])
    /\ op.kind = "remove" => op.next.peers = Filtered(cfg.peers, op.address)

RequestInv ==
    op \in Requests =>
        /\ Asked
        /\ op.at # "save" => file = op.next
        /\ op.at = "rollback" => op.kind = "remove" /\ op.next = cfg
        /\ op.at = "commit" => Holds(op.next)
        /\ op.at # "commit" => Holds(cfg)

PeersInv ==
    /\ phase = "up" /\ op = NoOp => Holds(cfg)
    /\ RequestInv

-----------------------------------------------------------------------------
(* The answers and the file.                                               *)

\* What was said of the address a is so in the configuration c.
AsSaid(c, a) ==
    /\ acked[a] = NoPeer <=> a \notin AddressesIn(c.peers)
    /\ acked[a] # NoPeer => PortOf(c.peers, a) = acked[a]

\* Once something was said, the file and the configuration differ only while
\* a request is carried out.
FileInv ==
    \A a \in Addresses : acked[a] # Unknown =>
        /\ phase = "up" => AsSaid(cfg, a)
        /\ phase = "up" /\ (op \in Requests => op.at = "save") => file = cfg
        /\ phase = "down" => file \in Config /\ AsSaid(file, a)

-----------------------------------------------------------------------------
(* Lists of peers.                                                         *)

LEMMA PeerLists ==
    ASSUME NEW list \in Seq(Peer)
    PROVE  /\ Len(list) \in Nat /\ DOMAIN list = 1..Len(list)
           /\ \A i \in DOMAIN list :
                /\ i \in Nat /\ list[i] \in Peer /\ list[i].address \in Addresses
                /\ list[i].port \in Ports \cup {0} /\ list[i].address \in AddressesIn(list)
           /\ \A a : a \in AddressesIn(list) <=> \E i \in DOMAIN list : list[i].address = a
           /\ AddressesIn(list) \subseteq Addresses
<1>1. Len(list) \in Nat /\ DOMAIN list = 1..Len(list) /\ \A i \in DOMAIN list : list[i] \in Peer
    OBVIOUS
<1>2. \A a : a \in AddressesIn(list) <=> \E i \in DOMAIN list : list[i].address = a
    <2>1. ASSUME NEW a, a \in AddressesIn(list) PROVE \E i \in DOMAIN list : list[i].address = a
        <3>1. PICK p \in Range(list) : a = p.address
            BY <2>1 DEF AddressesIn
        <3> QED
            BY <3>1 DEF Range
    <2>2. ASSUME NEW i \in DOMAIN list PROVE list[i].address \in AddressesIn(list)
        BY DEF AddressesIn, Range
    <2> QED
        BY <2>1, <2>2
<1>3. \A i \in DOMAIN list : list[i].address \in Addresses /\ list[i].port \in Ports \cup {0}
    BY <1>1 DEF Peer
<1> QED
    BY <1>1, <1>2, <1>3

\* The last entry of an address is there, and is the only last one.
LEMMA LastEntryIs ==
    ASSUME NEW list \in Seq(Peer), NEW a \in AddressesIn(list)
    PROVE  /\ LastEntry(list, a) \in DOMAIN list
           /\ list[LastEntry(list, a)].address = a
           /\ \A j \in DOMAIN list : list[j].address = a => j <= LastEntry(list, a)
           /\ PortOf(list, a) \in Ports \cup {0}
<1> DEFINE K == {i \in DOMAIN list : list[i].address = a}
<1>1. Len(list) \in Nat /\ K \in SUBSET (1..Len(list)) /\ K # {}
    BY PeerLists
<1>2. PICK k \in K : \A j \in K : j <= k
    BY <1>1, LastPosition
<1>3. \E i \in DOMAIN list :
        list[i].address = a /\ \A j \in DOMAIN list : list[j].address = a => j <= i
    BY <1>2
<1>4. /\ LastEntry(list, a) \in DOMAIN list
      /\ list[LastEntry(list, a)].address = a
      /\ \A j \in DOMAIN list : list[j].address = a => j <= LastEntry(list, a)
    BY <1>3 DEF LastEntry
<1> QED
    BY <1>4, PeerLists DEF PortOf

LEMMA LastEntryOnly ==
    ASSUME NEW list \in Seq(Peer), NEW i \in DOMAIN list,
           \A j \in DOMAIN list : list[j].address = list[i].address => j <= i
    PROVE  PortOf(list, list[i].address) = list[i].port
<1> DEFINE a == list[i].address
           k == LastEntry(list, a)
<1>1. a \in AddressesIn(list)
    BY PeerLists
<1>2. k \in DOMAIN list /\ list[k].address = a /\ i <= k
    BY <1>1, LastEntryIs
<1>3. k <= i /\ k \in Nat /\ i \in Nat
    BY <1>2, PeerLists
<1>4. k = i
    <2> HIDE DEF k, a
    <2> QED
        BY <1>2, <1>3
<1> QED
    BY <1>4 DEF PortOf

\* What a request to add appends has the last word on its address, and leaves
\* the others as they are.
THEOREM AppendedPeer ==
    ASSUME NEW list \in Seq(Peer), NEW e \in Peer
    PROVE  /\ Append(list, e) \in Seq(Peer)
           /\ \A a : a \in AddressesIn(Append(list, e)) <=> a \in AddressesIn(list) \/ a = e.address
           /\ PortOf(Append(list, e), e.address) = e.port
           /\ \A a \in AddressesIn(list) :
                a # e.address => PortOf(Append(list, e), a) = PortOf(list, a)
<1> DEFINE N == Len(list)
<1>1. PICK m : m = Append(list, e)
    OBVIOUS
<1>2. /\ N \in Nat /\ DOMAIN list = 1..N /\ m \in Seq(Peer) /\ DOMAIN m = 1..(N + 1)
      /\ m[N + 1] = e /\ \A i \in 1..N : m[i] = list[i]
    BY <1>1
<1> HIDE DEF N
<1>3. /\ N + 1 \in DOMAIN m /\ \A i \in DOMAIN m : i = N + 1 \/ i \in 1..N
      /\ \A i \in 1..N : i \in DOMAIN m
    BY <1>2
<1>4. \A a : a \in AddressesIn(m) <=> a \in AddressesIn(list) \/ a = e.address
    <2>1. ASSUME NEW a, a \in AddressesIn(m) PROVE a \in AddressesIn(list) \/ a = e.address
        <3>1. PICK i \in DOMAIN m : m[i].address = a
            BY <1>2, <2>1, PeerLists
        <3> QED
            BY <1>2, <1>3, <3>1, PeerLists
    <2>2. ASSUME NEW a, a \in AddressesIn(list) PROVE a \in AddressesIn(m)
        <3>1. PICK i \in DOMAIN list : list[i].address = a
            BY <2>2, PeerLists
        <3> QED
            BY <1>2, <1>3, <3>1, PeerLists
    <2>3. e.address \in AddressesIn(m)
        BY <1>2, <1>3, PeerLists
    <2> QED
        BY <2>1, <2>2, <2>3
<1>5. PortOf(m, e.address) = e.port
    <2>1. \A j \in DOMAIN m : j <= N + 1
        BY <1>2
    <2> QED
        BY <1>2, <1>3, <2>1, LastEntryOnly
<1>6. ASSUME NEW a \in AddressesIn(list), a # e.address PROVE PortOf(m, a) = PortOf(list, a)
    <2>1. PICK k : k = LastEntry(list, a)
        OBVIOUS
    <2>2. /\ k \in DOMAIN list /\ list[k].address = a
          /\ \A j \in DOMAIN list : list[j].address = a => j <= k
        BY <2>1, LastEntryIs
    <2>3. k \in DOMAIN m /\ m[k].address = a /\ m[k] = list[k]
        BY <1>2, <1>3, <2>2
    <2>4. ASSUME NEW j \in DOMAIN m, m[j].address = a PROVE j <= k
        <3>1. j \in 1..N
            BY <1>2, <1>3, <1>6, <2>4
        <3> QED
            BY <1>2, <2>2, <2>4, <3>1
    <2>5. PortOf(m, a) = m[k].port
        BY <1>2, <2>3, <2>4, LastEntryOnly
    <2> QED
        BY <2>1, <2>3, <2>5 DEF PortOf
<1> QED
    BY <1>1, <1>2, <1>4, <1>5, <1>6

\* What a request to remove filters out is gone, however often it was there,
\* and the last word on every other address is what it was.
THEOREM FilteredPeers ==
    ASSUME NEW list \in Seq(Peer), NEW a
    PROVE  /\ Filtered(list, a) \in Seq(Peer)
           /\ \A b : b \in AddressesIn(Filtered(list, a)) <=> b \in AddressesIn(list) /\ b # a
           /\ \A b \in AddressesIn(list) :
                b # a => PortOf(Filtered(list, a), b) = PortOf(list, b)
           /\ a \notin AddressesIn(list) => Filtered(list, a) = list
<1> DEFINE kept == {i \in DOMAIN list : list[i].address # a}
           C == Cardinality(kept)
<1>1. PICK m : m = Filtered(list, a)
    OBVIOUS
<1>2. m = Kept(list, kept) /\ kept \in SUBSET DOMAIN list
    BY <1>1 DEF Filtered
<1> HIDE DEF kept
<1>3. m \in Seq(Peer)
    BY <1>2, KeptEntries
<1>4. PICK at \in [1..C -> kept] :
        /\ m = [i \in 1..C |-> list[at[i]]]
        /\ \A i, j \in 1..C : i < j => at[i] < at[j]
        /\ \A k \in kept : \E i \in 1..C : at[i] = k
    BY <1>2, KeptInOrder
<1>5. DOMAIN m = 1..C /\ \A i \in 1..C : m[i] = list[at[i]] /\ at[i] \in kept
    BY <1>4
<1>6. DOMAIN m = 1..Len(m) /\ Len(m) \in Nat /\ \A i \in DOMAIN m : i \in Nat
    BY <1>3
<1>7. \A b : b \in AddressesIn(m) <=> b \in AddressesIn(list) /\ b # a
    <2>1. ASSUME NEW b, b \in AddressesIn(m) PROVE b \in AddressesIn(list) /\ b # a
        <3>1. PICK i \in DOMAIN m : m[i].address = b
            BY <1>3, <2>1, PeerLists
        <3>2. at[i] \in DOMAIN list /\ list[at[i]].address = b /\ b # a
            BY <1>5, <3>1 DEF kept
        <3> QED
            BY <3>2, PeerLists
    <2>2. ASSUME NEW b, b \in AddressesIn(list), b # a PROVE b \in AddressesIn(m)
        <3>1. PICK k \in DOMAIN list : list[k].address = b
            BY <2>2, PeerLists
        <3>2. k \in kept
            BY <2>2, <3>1 DEF kept
        <3>3. PICK i \in 1..C : at[i] = k
            BY <1>4, <3>2
        <3>4. i \in DOMAIN m /\ m[i].address = b
            BY <1>5, <3>1, <3>3
        <3> QED
            BY <1>3, <3>4, PeerLists
    <2> QED
        BY <2>1, <2>2
<1>8. ASSUME NEW b \in AddressesIn(list), b # a PROVE PortOf(m, b) = PortOf(list, b)
    <2>1. PICK k : k = LastEntry(list, b)
        OBVIOUS
    <2>2. /\ k \in DOMAIN list /\ list[k].address = b /\ k \in Nat
          /\ \A j \in DOMAIN list : list[j].address = b => j <= k
        BY <2>1, LastEntryIs, PeerLists
    <2>3. k \in kept
        BY <1>8, <2>2 DEF kept
    <2>4. PICK i \in 1..C : at[i] = k
        BY <1>4, <2>3
    <2>5. i \in DOMAIN m /\ i \in Nat /\ m[i] = list[k] /\ m[i].address = b
        BY <1>5, <1>6, <2>2, <2>4
    <2>6. ASSUME NEW j \in DOMAIN m, m[j].address = b PROVE j <= i
        <3>1. j \in 1..C /\ j \in Nat /\ at[j] \in DOMAIN list /\ list[at[j]].address = b
            BY <1>5, <1>6, <2>6 DEF kept
        <3>2. at[j] <= k /\ at[j] \in Nat
            BY <2>2, <3>1, PeerLists
        <3>3. ~(i < j)
            BY <1>4, <2>2, <2>4, <3>1, <3>2
        <3> QED
            BY <2>5, <3>1, <3>3
    <2>7. PortOf(m, b) = m[i].port
        BY <1>3, <2>5, <2>6, LastEntryOnly
    <2> QED
        BY <2>1, <2>5, <2>7 DEF PortOf
<1>9. ASSUME a \notin AddressesIn(list) PROVE m = list
    <2>1. kept = DOMAIN list
        BY <1>9, PeerLists DEF kept
    <2> QED
        BY <1>2, <2>1, KeptAll
<1> QED
    BY <1>1, <1>3, <1>7, <1>8, <1>9

-----------------------------------------------------------------------------
(* Types.                                                                  *)

LEMMA ConfigFields ==
    ASSUME NEW c \in Config
    PROVE  /\ c.agentPort \in Ports /\ c.peers \in Seq(Peer)
           /\ \A list \in Seq(Peer) :
                LET d == [c EXCEPT !.peers = list]
                IN  d \in Config /\ d.peers = list /\ d.agentPort = c.agentPort
BY DEF Config

\* Two configurations that agree on the port and the peers are one.
LEMMA SameConfig ==
    ASSUME NEW c \in Config, NEW d \in Config, c.agentPort = d.agentPort, c.peers = d.peers
    PROVE  c = d
BY DEF Config

LEMMA OpKinds ==
    ASSUME NEW o \in {NoOp} \cup Requests \cup Reloads
    PROVE  /\ o.kind \in {"none", "add", "remove", "reload"}
           /\ o = NoOp <=> o.kind = "none"
           /\ o \in Requests <=> o.kind \in {"add", "remove"}
           /\ o \in Reloads <=> o.kind = "reload"
           /\ o \in Requests =>
                /\ o.address \in Addresses /\ o.next \in Config
                /\ o.at \in {"save", "apply", "commit", "rollback"}
<1>1. NoOp.kind = "none"
    BY DEF NoOp
<1>2. \A r \in Requests :
        /\ r.kind \in {"add", "remove"} /\ r.address \in Addresses /\ r.next \in Config
        /\ r.at \in {"save", "apply", "commit", "rollback"}
    BY DEF Requests
<1>3. \A r \in Reloads : r.kind = "reload"
    BY DEF Reloads
<1> QED
    BY <1>1, <1>2, <1>3

\* A request that goes on keeps all but where it is.
LEMMA RequestMoves ==
    ASSUME NEW r \in Requests, NEW at \in {"save", "apply", "commit", "rollback"}
    PROVE  LET m == [r EXCEPT !.at = at]
           IN  /\ m \in Requests /\ m.kind = r.kind /\ m.address = r.address
               /\ m.next = r.next /\ m.at = at
BY DEF Requests

\* The type invariant, of each variable.
LEMMA TypeFacts ==
    ASSUME TypeInv
    PROVE  /\ file \in Config \cup {Corrupt, Missing}
           /\ budget \in [edit : Nat, crash : Nat, save : Nat]
           /\ online \subseteq Nodes /\ phase \in {"up", "down"}
           /\ cfg \in Config /\ port \in Ports
           /\ DOMAIN manual \subseteq Addresses /\ manual \in [DOMAIN manual -> Manual]
           /\ op \in {NoOp} \cup Requests \cup Reloads
           /\ RefreshInv /\ AddInv /\ IsListing(peers)
           /\ acked \in [Addresses -> Ports \cup {0, NoPeer, Unknown}]
           /\ phase = "down" => op = NoOp
BY DEF TypeInv, TypeOK, IsListing

LEMMA TypesFrom ==
    ASSUME (file \in Config \cup {Corrupt, Missing})',
           (budget \in [edit : Nat, crash : Nat, save : Nat])',
           (online \subseteq Nodes)', (phase \in {"up", "down"})',
           (cfg \in Config)', (port \in Ports)',
           (DOMAIN manual \subseteq Addresses)', (manual \in [DOMAIN manual -> Manual])',
           (op \in {NoOp} \cup Requests \cup Reloads)',
           RefreshInv', AddInv', IsListing(peers)',
           (acked \in [Addresses -> Ports \cup {0, NoPeer, Unknown}])',
           (phase = "down" => op = NoOp)'
    PROVE  TypeInv'
<1>1. op'.kind \in {"none", "add", "remove", "reload"}
      /\ (op'.kind \in {"add", "remove"} => op'.next \in Config /\ op'.address \in Addresses)
    BY OpKinds
<1>2. refresh'.at \in {"idle", "discovered", "merge", "publish"}
    BY DEF RefreshInv, NoRefresh
<1>3. \A a \in DOMAIN manual' : manual'[a] \in [port : Ports \cup {0}, fromConfig : BOOLEAN]
    BY DEF Manual
<1> QED
    BY <1>1, <1>2, <1>3 DEF TypeInv, TypeOK, IsListing

LEMMA NoneListed == IsListing(NothingListed)
<1>1. DOMAIN <<>> = {}
    OBVIOUS
<1> QED
    BY <1>1 DEF IsListing, NothingListed

LEMMA LoadTypes ==
    ASSUME TypeInv, Load
    PROVE  /\ file' \in Config \cup {Corrupt, Missing} /\ cfg' \in Config
           /\ file \in Config => file' = file /\ cfg' = file
<1>1. Default \in Config /\ Missing \notin Config
    BY Constants
<1> QED
    BY <1>1, TypeFacts DEF Load, Loaded, Created

LEMMA FromFileTypes ==
    ASSUME NEW list \in Seq(Peer)
    PROVE  /\ DOMAIN FromFile(list) = AddressesIn(list)
           /\ FromFile(list) \in [AddressesIn(list) -> Manual]
           /\ \A a \in AddressesIn(list) :
                FromFile(list)[a].port = PortOf(list, a) /\ FromFile(list)[a].fromConfig = TRUE
<1>1. ASSUME NEW a \in AddressesIn(list)
      PROVE [port |-> PortOf(list, a), fromConfig |-> TRUE] \in Manual
    BY LastEntryIs DEF Manual
<1> QED
    BY <1>1 DEF FromFile

LEMMA MergedIsListing ==
    ASSUME NEW nodes \in SUBSET Nodes, NEW discovered \in Ports, NEW m,
           DOMAIN m \subseteq Addresses, m \in [DOMAIN m -> Manual],
           NEW common \in [DOMAIN m -> Ports], NEW list \in Merges(nodes, discovered, m, common)
    PROVE  IsListing(list)
<1> DEFINE Named(a) == {n \in nodes : a \in Known[n]}
           Aliases == {a \in DOMAIN m : Named(a) # {}}
           Values == {[address |-> n, port |-> discovered] : n \in nodes}
                        \cup {[address |-> a, port |-> EffectivePort(m, a, common)] : a \in Aliases}
<1>1. \A a \in DOMAIN m : EffectivePort(m, a, common) \in Ports
    BY DEF EffectivePort, Manual
<1>2. \E f \in [nodes -> Values] :
        list = [nodes |-> f, others |-> [a \in DOMAIN m \ Aliases |-> EffectivePort(m, a, common)]]
    BY DEF Merges
<1>3. PICK f \in [nodes -> Values] :
        list = [nodes |-> f, others |-> [a \in DOMAIN m \ Aliases |-> EffectivePort(m, a, common)]]
    BY <1>2
<1>4. ASSUME NEW v \in Values PROVE v \in [address : Nodes \cup Addresses, port : Ports]
    BY <1>1
<1>5. Aliases \subseteq DOMAIN m
    OBVIOUS
<1> HIDE DEF Aliases, Values
<1>6. list.nodes = f /\ list.others = [a \in DOMAIN m \ Aliases |-> EffectivePort(m, a, common)]
    BY <1>3
<1> QED
    BY <1>1, <1>4, <1>6 DEF IsListing

LEMMA TypesInit == Init => TypeInv
<1> SUFFICES ASSUME Init PROVE TypeInv
    OBVIOUS
<1>1. /\ file \in Config \cup {Missing} /\ Default \in Config /\ cfg = Default
      /\ port = Default.agentPort /\ port \in Ports
      /\ {MaxEdits, MaxCrashes, MaxSaveFailures} \subseteq Nat
    BY Constants, ConfigFields DEF Init
<1>2. budget \in [edit : Nat, crash : Nat, save : Nat]
    BY <1>1 DEF Init
<1>3. op.kind = "none" /\ refresh.at = "idle" /\ DOMAIN manual = {} /\ manual \in [{} -> Manual]
    BY DEF Init, NoOp, NoRefresh, NoManual
<1>4. acked \in [Addresses -> Ports \cup {0, NoPeer, Unknown}]
    BY DEF Init, Forgotten
<1>5. IsListing(peers)
    BY NoneListed DEF Init
<1>6. TypeOK
    BY <1>1, <1>2, <1>3, <1>4, <1>5 DEF Init, TypeOK, IsListing
<1> QED
    BY <1>3, <1>6 DEF Init, TypeInv, RefreshInv, AddInv

LEMMA BeginAddMakes ==
    ASSUME TypeInv, NEW a \in Addresses, NEW p \in Wanted, BeginAdd(a, p)
    PROVE  /\ op = NoOp /\ phase = "up"
           /\ op' \in Requests /\ op'.kind = "add" /\ op'.address = a /\ op'.at = "save"
           /\ p \in Ports \cup {0} /\ op'.next.agentPort = cfg.agentPort
           /\ op'.next.peers = Append(cfg.peers, [address |-> a, port |-> p])
           /\ UNCHANGED <<disk, online, phase, runtime, refresh, peers, acked>>
<1>1. cfg \in Config /\ cfg.peers \in Seq(Peer) /\ p \in Ports \cup {0}
    BY TypeFacts, ConfigFields, Constants
<1> DEFINE l == Append(cfg.peers, [address |-> a, port |-> p])
           next == [cfg EXCEPT !.peers = l]
<1>2. [address |-> a, port |-> p] \in Peer
    BY <1>1 DEF Peer
<1>3. l \in Seq(Peer)
    BY <1>1, <1>2, AppendedPeer
<1>4. op' = [kind |-> "add", address |-> a, at |-> "save", next |-> next]
      /\ UNCHANGED <<disk, online, phase, runtime, refresh, peers, acked>>
      /\ op = NoOp /\ phase = "up"
    BY DEF BeginAdd, Begin, Ready
<1> HIDE DEF l
<1>5. next \in Config /\ next.peers = l /\ next.agentPort = cfg.agentPort
    BY <1>1, <1>3, ConfigFields
<1> HIDE DEF next
<1> QED
    BY <1>1, <1>4, <1>5 DEF Requests, l

LEMMA BeginRemoveMakes ==
    ASSUME TypeInv, NEW a \in Addresses, BeginRemove(a)
    PROVE  /\ op = NoOp /\ phase = "up"
           /\ op' \in Requests /\ op'.kind = "remove" /\ op'.address = a /\ op'.at = "save"
           /\ op'.next.agentPort = cfg.agentPort
           /\ op'.next.peers = Filtered(cfg.peers, a)
           /\ UNCHANGED <<disk, online, phase, runtime, refresh, peers, acked>>
<1>1. cfg \in Config /\ cfg.peers \in Seq(Peer)
    BY TypeFacts, ConfigFields
<1> DEFINE l == Filtered(cfg.peers, a)
           next == [cfg EXCEPT !.peers = l]
<1>3. l \in Seq(Peer)
    BY <1>1, FilteredPeers
<1>4. op' = [kind |-> "remove", address |-> a, at |-> "save", next |-> next]
      /\ UNCHANGED <<disk, online, phase, runtime, refresh, peers, acked>>
      /\ op = NoOp /\ phase = "up"
    BY DEF BeginRemove, Begin, Ready
<1> HIDE DEF l
<1>5. next \in Config /\ next.peers = l /\ next.agentPort = cfg.agentPort
    BY <1>1, <1>3, ConfigFields
<1> HIDE DEF next
<1> QED
    BY <1>1, <1>4, <1>5 DEF Requests, l

LEMMA TypesBegin ==
    ASSUME TypeInv, Request
    PROVE  TypeInv'
<1>1. CASE \/ \E a \in Addresses, p \in Wanted : BeginAdd(a, p)
           \/ \E a \in Addresses : BeginRemove(a)
    <2>1. op' \in Requests /\ phase = "up"
          /\ UNCHANGED <<disk, online, phase, runtime, refresh, peers, acked>>
        BY <1>1, BeginAddMakes, BeginRemoveMakes
    <2>2. UNCHANGED <<file, budget, online, phase, cfg, port, manual, refresh, peers, acked>>
        BY <2>1 DEF disk, runtime
    <2>3. RefreshInv' /\ IsListing(peers)'
        BY <2>2, TypeFacts DEF RefreshInv, IsListing
    <2>4. AddInv'
        <3>1. CASE \E a \in Addresses, p \in Wanted : BeginAdd(a, p)
            <4>1. PICK a \in Addresses, p \in Wanted : BeginAdd(a, p)
                BY <3>1
            <4>2. cfg.peers \in Seq(Peer) /\ [address |-> a, port |-> p] \in Peer
                BY <4>1, BeginAddMakes, TypeFacts, ConfigFields DEF Peer
            <4>3. PICK e \in Peer : e = [address |-> a, port |-> p]
                BY <4>2
            <4>4. e.address = a /\ op'.address = a /\ op'.next.peers = Append(cfg.peers, e)
                BY <4>1, <4>3, BeginAddMakes
            <4>5. e.address \in AddressesIn(Append(cfg.peers, e))
                BY <4>2, AppendedPeer
            <4> QED
                BY <4>4, <4>5 DEF AddInv
        <3>2. CASE \E a \in Addresses : BeginRemove(a)
            BY <3>2, BeginRemoveMakes DEF AddInv
        <3> QED
            BY <1>1, <3>1, <3>2
    <2> QED
        BY <2>1, <2>2, <2>3, <2>4, TypeFacts, TypesFrom
<1>2. CASE Reload
    <2>1. UNCHANGED <<budget, online, phase, port, manual, refresh, peers, acked>>
          /\ op' = [kind |-> "reload", at |-> "port"] /\ phase = "up" /\ Load
        BY <1>2 DEF Reload, Ready
    <2>2. op' \in Reloads /\ AddInv'
        BY <2>1 DEF Reloads, AddInv
    <2>3. RefreshInv' /\ IsListing(peers)'
        BY <2>1, TypeFacts DEF RefreshInv, IsListing
    <2>4. (file \in Config \cup {Corrupt, Missing})' /\ (cfg \in Config)'
        BY <2>1, LoadTypes
    <2> QED
        BY <2>1, <2>2, <2>3, <2>4, TypeFacts, TypesFrom
<1> QED
    BY <1>1, <1>2 DEF Request

LEMMA TypesOp ==
    ASSUME TypeInv, OpStep
    PROVE  TypeInv'
<1>1. UNCHANGED <<online, phase, refresh, peers>>
    BY DEF OpStep, Save, SaveFails, ApplyAdd, ApplyRemove, Rollback, Commit, ReloadPort, ReloadPeers
<1>2. RefreshInv' /\ IsListing(peers)'
    BY <1>1, TypeFacts DEF RefreshInv, IsListing
<1>3. phase = "up"
    <2>1. op.kind \in {"add", "remove", "reload"}
        BY DEF OpStep, Save, SaveFails, ApplyAdd, ApplyRemove, Rollback, Commit, ReloadPort,
               ReloadPeers
    <2> QED
        BY <2>1, TypeFacts, OpKinds
<1>4. op.kind \in {"add", "remove"} => op \in Requests /\ op.next \in Config /\ op.address \in Addresses
    BY TypeFacts, OpKinds
\* What remains to be shown, of each step.
<1> DEFINE Good == /\ AddInv'
                   /\ (file \in Config \cup {Corrupt, Missing})'
                   /\ (budget \in [edit : Nat, crash : Nat, save : Nat])'
                   /\ (cfg \in Config)' /\ (port \in Ports)'
                   /\ (DOMAIN manual \subseteq Addresses)' /\ (manual \in [DOMAIN manual -> Manual])'
                   /\ (op \in {NoOp} \cup Requests \cup Reloads)'
                   /\ (acked \in [Addresses -> Ports \cup {0, NoPeer, Unknown}])'
<1>5. ASSUME Good PROVE TypeInv'
    BY <1>1, <1>2, <1>3, <1>5, TypeFacts, TypesFrom
<1>6. CASE Save
    <2>1. op' \in Requests /\ AddInv'
        BY <1>4, <1>6, RequestMoves, TypeFacts DEF Save, AddInv
    <2> QED
        BY <1>4, <1>5, <1>6, <2>1, TypeFacts DEF Save, runtime
<1>7. CASE SaveFails
    <2>1. budget.save > 0 /\ budget' = [budget EXCEPT !.save = @ - 1] /\ op' = NoOp
          /\ UNCHANGED <<file, cfg, port, manual, acked>>
        BY <1>7 DEF SaveFails, runtime
    <2>2. (budget \in [edit : Nat, crash : Nat, save : Nat])'
        BY <2>1, TypeFacts
    <2>3. AddInv'
        BY <2>1 DEF AddInv, NoOp
    <2> QED
        BY <1>5, <2>1, <2>2, <2>3, TypeFacts
<1>8. CASE ApplyAdd
    <2> DEFINE e == [port |-> PortOf(op.next.peers, op.address), fromConfig |-> FALSE]
    <2>1. /\ op \in Requests /\ op' = [op EXCEPT !.at = "commit"]
          /\ manual' = WithPeer(manual, op.address, e)
          /\ UNCHANGED <<file, budget, cfg, port, acked>>
        BY <1>4, <1>8 DEF ApplyAdd, disk
    <2>2. op' \in Requests /\ AddInv'
        BY <2>1, RequestMoves, TypeFacts DEF AddInv
    <2>3. e \in Manual
        <3>1. op.next.peers \in Seq(Peer) /\ op.address \in AddressesIn(op.next.peers)
            BY <1>4, <1>8, <2>1, ConfigFields, TypeFacts DEF AddInv, ApplyAdd
        <3> QED
            BY <3>1, LastEntryIs DEF Manual
    <2> HIDE DEF e
    <2>4. DOMAIN manual' \subseteq Addresses /\ manual' \in [DOMAIN manual' -> Manual]
        BY <1>4, <2>1, <2>3, OpKinds, TypeFacts DEF WithPeer
    <2> QED
        BY <1>5, <2>1, <2>2, <2>4, TypeFacts
<1>9. CASE ApplyRemove
    <2>1. /\ op \in Requests /\ manual' = WithoutPeer(manual, op.address)
          /\ \E at \in {"commit", "rollback"} : op' = [op EXCEPT !.at = at]
          /\ UNCHANGED <<file, budget, cfg, port, acked>>
        BY <1>4, <1>9 DEF ApplyRemove, disk
    <2>2. PICK at \in {"save", "apply", "commit", "rollback"} : op' = [op EXCEPT !.at = at]
        BY <2>1
    <2>3. op' \in Requests /\ op'.kind = op.kind
        BY <2>1, <2>2, RequestMoves
    <2>4. AddInv'
        BY <1>9, <2>3 DEF AddInv, ApplyRemove
    <2>5. DOMAIN manual' \subseteq Addresses /\ manual' \in [DOMAIN manual' -> Manual]
        BY <2>1, TypeFacts DEF WithoutPeer
    <2> QED
        BY <1>5, <2>1, <2>3, <2>4, <2>5, TypeFacts
<1>10. CASE Rollback
    <2>1. op' = NoOp /\ file' = cfg /\ UNCHANGED <<budget, cfg, port, manual, acked>>
        BY <1>10 DEF Rollback, runtime
    <2>2. AddInv'
        BY <2>1 DEF AddInv, NoOp
    <2> QED
        BY <1>5, <2>1, <2>2, TypeFacts
<1>11. CASE Commit
    <2>1. /\ op \in Requests /\ op.kind \in {"add", "remove"} /\ op' = NoOp /\ cfg' = op.next
          /\ acked' = [acked EXCEPT ![op.address] =
                IF op.kind = "add" THEN PortOf(op.next.peers, op.address) ELSE NoPeer]
          /\ UNCHANGED <<file, budget, port, manual>>
        BY <1>4, <1>11 DEF Commit, disk
    <2>2. op.kind = "add" => PortOf(op.next.peers, op.address) \in Ports \cup {0}
        BY <1>4, <2>1, LastEntryIs, ConfigFields, TypeFacts DEF AddInv
    <2>3. acked' \in [Addresses -> Ports \cup {0, NoPeer, Unknown}]
        BY <2>1, <2>2, TypeFacts
    <2>4. AddInv'
        BY <2>1 DEF AddInv, NoOp
    <2> QED
        BY <1>4, <1>5, <2>1, <2>3, <2>4, TypeFacts
<1>12. CASE ReloadPort
    <2>1. /\ op \in Reloads /\ op' = [op EXCEPT !.at = "peers"] /\ port' = cfg.agentPort
          /\ UNCHANGED <<file, budget, cfg, manual, acked>>
        BY <1>12, TypeFacts, OpKinds DEF ReloadPort, disk
    <2>2. op' \in Reloads /\ AddInv'
        BY <2>1 DEF Reloads, AddInv
    <2>3. port' \in Ports
        BY <2>1, TypeFacts, ConfigFields
    <2> QED
        BY <1>5, <2>1, <2>2, <2>3, TypeFacts
<1>13. CASE ReloadPeers
    <2>1. /\ op' = NoOp /\ manual' = Replaced(cfg.peers)
          /\ UNCHANGED <<file, budget, cfg, port, acked>>
        BY <1>13 DEF ReloadPeers, disk
    <2>2. cfg.peers \in Seq(Peer)
        BY TypeFacts, ConfigFields
    <2>3. FromFile(cfg.peers) \in [AddressesIn(cfg.peers) -> Manual]
          /\ AddressesIn(cfg.peers) \subseteq Addresses
        BY <2>2, FromFileTypes, PeerLists
    <2>4. DOMAIN manual' \subseteq Addresses /\ manual' \in [DOMAIN manual' -> Manual]
        BY <2>1, <2>3, TypeFacts DEF Replaced
    <2>5. AddInv'
        BY <2>1 DEF AddInv, NoOp
    <2> QED
        BY <1>5, <2>1, <2>4, <2>5, TypeFacts
<1> HIDE DEF Good
<1> QED
    BY <1>6, <1>7, <1>8, <1>9, <1>10, <1>11, <1>12, <1>13 DEF OpStep

LEMMA TypesRefresh ==
    ASSUME TypeInv, Refresh
    PROVE  TypeInv'
<1>1. UNCHANGED <<file, budget, online, phase, cfg, port, manual, op, acked>>
    BY DEF Refresh, Discover, LockManual, MergePeers, Publish, disk, runtime
<1>2. AddInv'
    BY <1>1, TypeFacts DEF AddInv
<1>3. RefreshInv' /\ IsListing(peers)'
    <2>1. CASE Discover
        <3>1. refresh' = [at |-> "discovered", nodes |-> online, port |-> port]
              /\ peers' = peers
            BY <2>1 DEF Discover
        <3> QED
            BY <3>1, TypeFacts DEF RefreshInv, IsListing
    <2>2. CASE LockManual
        <3>1. refresh.nodes \subseteq Nodes /\ refresh.port \in Ports
            BY <2>2, TypeFacts DEF LockManual, RefreshInv, NoRefresh
        <3>2. /\ refresh'.at = "merge" /\ refresh'.nodes = refresh.nodes
              /\ refresh'.port = refresh.port /\ refresh'.before = port /\ peers' = peers
            BY <2>2 DEF LockManual
        <3> QED
            BY <3>1, <3>2, TypeFacts DEF RefreshInv, IsListing
    <2>3. CASE MergePeers
        <3>1. PICK common \in [DOMAIN manual -> {refresh.before, port}] :
                \E list \in Merges(refresh.nodes, refresh.port, manual, common) :
                    refresh' = [at |-> "publish", list |-> list] /\ peers' = peers
            BY <2>3 DEF MergePeers
        <3>2. refresh.nodes \subseteq Nodes /\ refresh.port \in Ports /\ refresh.before \in Ports
            BY <2>3, TypeFacts DEF MergePeers, Merging, RefreshInv, NoRefresh
        <3>3. common \in [DOMAIN manual -> Ports]
            BY <3>1, <3>2, TypeFacts
        <3>4. PICK list \in Merges(refresh.nodes, refresh.port, manual, common) :
                refresh' = [at |-> "publish", list |-> list] /\ peers' = peers
            BY <3>1
        <3>5. IsListing(list)
            BY <3>2, <3>3, TypeFacts, MergedIsListing
        <3>6. refresh'.at = "publish" /\ refresh'.list = list
            BY <3>4
        <3>7. RefreshInv'
            BY <3>5, <3>6 DEF RefreshInv, IsListing
        <3> QED
            BY <3>4, <3>7, TypeFacts DEF IsListing
    <2>4. CASE Publish
        <3>1. refresh' = NoRefresh /\ peers' = refresh.list
            BY <2>4 DEF Publish
        <3>2. IsListing(refresh.list)
            BY <2>4, TypeFacts DEF Publish, RefreshInv, NoRefresh
        <3> QED
            BY <3>1, <3>2 DEF RefreshInv, IsListing
    <2> QED
        BY <2>1, <2>2, <2>3, <2>4 DEF Refresh
<1> QED
    BY <1>1, <1>2, <1>3, TypeFacts, TypesFrom

LEMMA TypesAccident ==
    ASSUME TypeInv, Boot \/ Accident
    PROVE  TypeInv'
<1>1. CASE Boot
    <2>1. /\ phase = "down" /\ phase' = "up" /\ Load /\ port' = cfg'.agentPort
          /\ manual' = FromFile(cfg'.peers)
          /\ UNCHANGED <<budget, online, op, refresh, peers, acked>>
        BY <1>1 DEF Boot
    <2>2. file' \in Config \cup {Corrupt, Missing} /\ cfg' \in Config
        BY <2>1, LoadTypes
    <2>3. PICK c \in Config : c = cfg'
        BY <2>2
    <2>4. c.peers \in Seq(Peer) /\ c.agentPort \in Ports
        BY ConfigFields
    <2>5. DOMAIN manual' \subseteq Addresses /\ manual' \in [DOMAIN manual' -> Manual]
        <3>1. PICK list \in Seq(Peer) : manual' = FromFile(list)
            BY <2>1, <2>3, <2>4
        <3>2. DOMAIN manual' = AddressesIn(list) /\ manual' \in [AddressesIn(list) -> Manual]
            BY <3>1, FromFileTypes
        <3> QED
            BY <3>2, PeerLists
    <2>6. RefreshInv' /\ IsListing(peers)' /\ AddInv'
        BY <2>1, TypeFacts DEF RefreshInv, IsListing, AddInv
    <2> QED
        BY <2>1, <2>2, <2>3, <2>4, <2>5, <2>6, TypeFacts, TypesFrom
<1>2. CASE NetmapChanges
    <2>1. online' \subseteq Nodes
          /\ UNCHANGED <<file, budget, phase, cfg, port, manual, op, refresh, peers, acked>>
        BY <1>2 DEF NetmapChanges, disk, runtime
    <2>2. RefreshInv' /\ IsListing(peers)' /\ AddInv'
        BY <2>1, TypeFacts DEF RefreshInv, IsListing, AddInv
    <2> QED
        BY <2>1, <2>2, TypeFacts, TypesFrom
<1>3. CASE \E f \in Edits : EditFile(f)
    <2>1. /\ file' \in Edits /\ budget.edit > 0 /\ budget' = [budget EXCEPT !.edit = @ - 1]
          /\ acked' = Forgotten
          /\ UNCHANGED <<online, phase, cfg, port, manual, op, refresh, peers>>
        BY <1>3 DEF EditFile, runtime
    <2>2. RefreshInv' /\ IsListing(peers)' /\ AddInv'
        BY <2>1, TypeFacts DEF RefreshInv, IsListing, AddInv
    <2>3. budget' \in [edit : Nat, crash : Nat, save : Nat]
        BY <2>1, TypeFacts
    <2>4. file' \in Config \cup {Corrupt, Missing}
          /\ acked' \in [Addresses -> Ports \cup {0, NoPeer, Unknown}]
        BY <2>1, Constants DEF Forgotten
    <2> QED
        BY <2>1, <2>2, <2>3, <2>4, TypeFacts, TypesFrom
<1>4. CASE Crash
    <2>1. /\ budget.crash > 0 /\ budget' = [budget EXCEPT !.crash = @ - 1]
          /\ phase' = "down" /\ manual' = NoManual /\ op' = NoOp /\ refresh' = NoRefresh
          /\ peers' = NothingListed
          /\ acked' = IF op.kind \in {"add", "remove"}
                      THEN [acked EXCEPT ![op.address] = Unknown] ELSE acked
          /\ UNCHANGED <<file, online, cfg, port>>
        BY <1>4 DEF Crash
    <2>2. budget' \in [edit : Nat, crash : Nat, save : Nat]
        BY <2>1, TypeFacts
    <2>3. RefreshInv' /\ AddInv' /\ IsListing(peers)'
        BY <2>1, NoneListed DEF RefreshInv, AddInv, NoOp
    <2>4. DOMAIN manual' \subseteq Addresses /\ manual' \in [DOMAIN manual' -> Manual]
        BY <2>1 DEF NoManual
    <2>5. acked' \in [Addresses -> Ports \cup {0, NoPeer, Unknown}]
        BY <2>1, TypeFacts
    <2> QED
        BY <2>1, <2>2, <2>3, <2>4, <2>5, TypeFacts, TypesFrom
<1> QED
    BY <1>1, <1>2, <1>3, <1>4 DEF Accident

LEMMA TypesStutter ==
    ASSUME TypeInv, UNCHANGED vars
    PROVE  TypeInv'
BY DEF vars, disk, runtime, TypeInv, TypeOK, RefreshInv, AddInv, IsListing

LEMMA TypesStep ==
    ASSUME TypeInv, [Next]_vars
    PROVE  TypeInv'
BY TypesBegin, TypesOp, TypesRefresh, TypesAccident, TypesStutter DEF Next

\* Every variable holds a value of its kind, whatever is asked for, edited,
\* discovered, or fails; in particular every published port is a real one.
THEOREM TypeCorrect == Spec => []TypeOK
<1>1. Spec => []TypeInv
    BY TypesInit, TypesStep, PTL DEF Spec
<1>2. TypeInv => TypeOK
    BY DEF TypeInv
<1> QED
    BY <1>1, <1>2, PTL

-----------------------------------------------------------------------------
(* The peers of the configuration in the runtime.                          *)

\* What the next configuration says of the addresses the request is not about.
LEMMA AskedFor ==
    ASSUME TypeInv, op \in Requests, Asked
    PROVE  /\ \A a : a # op.address =>
                (a \in AddressesIn(op.next.peers) <=> a \in AddressesIn(cfg.peers))
           /\ \A a \in AddressesIn(cfg.peers) :
                a # op.address => PortOf(op.next.peers, a) = PortOf(cfg.peers, a)
           /\ op.kind = "add" => op.address \in AddressesIn(op.next.peers)
           /\ op.kind = "remove" => op.address \notin AddressesIn(op.next.peers)
           /\ op.kind = "remove" /\ op.address \notin AddressesIn(cfg.peers) => op.next = cfg
<1>1. op.kind \in {"add", "remove"} /\ op.next \in Config /\ op.address \in Addresses
      /\ cfg \in Config
    BY TypeFacts, OpKinds
<1>2. PICK list \in Seq(Peer) : list = cfg.peers
    BY <1>1, ConfigFields
<1>3. CASE op.kind = "add"
    <2>1. PICK p \in Ports \cup {0} :
            op.next.peers = Append(cfg.peers, [address |-> op.address, port |-> p])
        BY <1>3 DEF Asked
    <2>2. PICK e \in Peer : e = [address |-> op.address, port |-> p]
        BY <1>1 DEF Peer
    <2>3. e.address = op.address /\ op.next.peers = Append(list, e)
        BY <1>2, <2>1, <2>2
    <2>4. /\ \A a : a \in AddressesIn(Append(list, e)) <=> a \in AddressesIn(list) \/ a = e.address
          /\ \A a \in AddressesIn(list) :
                a # e.address => PortOf(Append(list, e), a) = PortOf(list, a)
        BY AppendedPeer
    <2> QED
        BY <1>2, <1>3, <2>3, <2>4
<1>4. CASE op.kind = "remove"
    <2>1. PICK a : a = op.address
        OBVIOUS
    <2>2. op.next.peers = Filtered(list, a) /\ op.next.agentPort = cfg.agentPort
        BY <1>2, <1>4, <2>1 DEF Asked
    <2>3. /\ \A b : b \in AddressesIn(Filtered(list, a)) <=> b \in AddressesIn(list) /\ b # a
          /\ \A b \in AddressesIn(list) :
                b # a => PortOf(Filtered(list, a), b) = PortOf(list, b)
          /\ a \notin AddressesIn(list) => Filtered(list, a) = list
        BY FilteredPeers
    <2>4. a \notin AddressesIn(list) => op.next = cfg
        BY <1>1, <1>2, <2>2, <2>3, SameConfig
    <2> QED
        BY <1>2, <1>4, <2>1, <2>2, <2>3, <2>4
<1> QED
    BY <1>1, <1>3, <1>4

\* A state with the same runtime and configuration, in which no request is
\* further than before.
LEMMA PeersStill ==
    ASSUME TypeInv, PeersInv, UNCHANGED <<cfg, manual>>,
           (phase = "up" /\ op = NoOp)' =>
                \/ phase = "up" /\ op = NoOp
                \/ op \in Requests /\ op.at # "commit",
           op' \in Requests => op' = op /\ file' = file
    PROVE  PeersInv'
<1>1. \A c : Holds(c)' <=> Holds(c)
    BY DEF Holds
<1>2. (phase = "up" /\ op = NoOp)' => Holds(cfg)'
    BY <1>1 DEF PeersInv, RequestInv
<1>3. ASSUME op' \in Requests PROVE RequestInv'
    <2>1. op' = op /\ file' = file /\ cfg' = cfg
        BY <1>3
    <2>2. Holds(op.next)' <=> Holds(op.next)
        <3>1. PICK c : c = op.next
            OBVIOUS
        <3> QED
            BY <1>1, <2>1, <3>1
    <2>3. Holds(cfg)' <=> Holds(cfg)
        BY <1>1
    <2> QED
        BY <1>3, <2>1, <2>2, <2>3 DEF PeersInv, RequestInv, Asked
<1> QED
    BY <1>2, <1>3 DEF PeersInv, RequestInv

LEMMA PeersBegin ==
    ASSUME TypeInv, PeersInv, Request
    PROVE  PeersInv'
<1>1. CASE Reload
    <2>1. op' = [kind |-> "reload", at |-> "port"]
        BY <1>1 DEF Reload
    <2>2. op' \in Reloads
        BY <2>1 DEF Reloads
    <2>3. op' \notin Requests /\ op' # NoOp
        BY <2>2, OpKinds
    <2> QED
        BY <2>3 DEF PeersInv, RequestInv
<1>2. CASE \/ \E a \in Addresses, p \in Wanted : BeginAdd(a, p)
           \/ \E a \in Addresses : BeginRemove(a)
    <2>1. /\ op = NoOp /\ phase = "up" /\ op' \in Requests /\ op'.at = "save"
          /\ UNCHANGED <<cfg, manual>>
        BY <1>2, BeginAddMakes, BeginRemoveMakes DEF runtime
    <2>2. Asked'
        <3>1. CASE \E a \in Addresses, p \in Wanted : BeginAdd(a, p)
            <4>1. PICK a \in Addresses, p \in Wanted : BeginAdd(a, p)
                BY <3>1
            <4> QED
                BY <2>1, <4>1, BeginAddMakes DEF Asked
        <3>2. CASE \E a \in Addresses : BeginRemove(a)
            BY <2>1, <3>2, BeginRemoveMakes DEF Asked
        <3> QED
            BY <1>2, <3>1, <3>2
    <2>3. Holds(cfg)'
        BY <2>1 DEF PeersInv, Holds
    <2>4. op' # NoOp
        BY <2>1, OpKinds
    <2> QED
        BY <2>1, <2>2, <2>3, <2>4 DEF PeersInv, RequestInv
<1> QED
    BY <1>1, <1>2 DEF Request

\* A request that moves on.
LEMMA PeersMoves ==
    ASSUME TypeInv, PeersInv, op \in Requests, UNCHANGED cfg,
           NEW at \in {"save", "apply", "commit", "rollback"}, op' = [op EXCEPT !.at = at],
           at # "save" => file' = op.next,
           at = "rollback" => op.kind = "remove" /\ op.next = cfg,
           NEW c, c = op.next, IF at = "commit" THEN Holds(c)' ELSE Holds(cfg)'
    PROVE  PeersInv'
<1>1. /\ op' \in Requests /\ op'.kind = op.kind /\ op'.address = op.address
      /\ op'.next = op.next /\ op'.at = at
    BY RequestMoves
<1>2. op' # NoOp
    BY <1>1, OpKinds
<1>3. Asked'
    BY <1>1 DEF PeersInv, RequestInv, Asked
<1>4. (op.at = "commit" => Holds(op.next))' /\ (op.at # "commit" => Holds(cfg))'
    BY <1>1 DEF Holds
<1>5. RequestInv'
    BY <1>1, <1>3, <1>4 DEF RequestInv
<1> QED
    BY <1>2, <1>5 DEF PeersInv

LEMMA PeersOp ==
    ASSUME TypeInv, PeersInv, OpStep
    PROVE  PeersInv'
<1>1. op.kind \in {"add", "remove"} => op \in Requests /\ RequestInv /\ Asked
                                       /\ op.next \in Config /\ op.address \in Addresses
    BY TypeFacts, OpKinds DEF PeersInv, RequestInv
<1>2. op' = NoOp => op' \notin Requests
    BY OpKinds
<1>3. CASE Save
    <2>1. /\ op \in Requests /\ op' = [op EXCEPT !.at = "apply"] /\ file' = op.next
          /\ UNCHANGED <<cfg, manual>> /\ op.at = "save"
        BY <1>1, <1>3 DEF Save, runtime
    <2>2. Holds(cfg)'
        BY <1>1, <1>3, <2>1 DEF RequestInv, Holds, Save
    <2> QED
        BY <2>1, <2>2, PeersMoves
<1>4. CASE SaveFails
    <2>1. op \in Requests /\ op.at # "commit" /\ op' = NoOp /\ UNCHANGED <<cfg, manual>>
        BY <1>1, <1>4 DEF SaveFails, runtime
    <2> QED
        BY <1>2, <2>1, PeersStill
<1>5. CASE ApplyAdd
    <2>1. /\ op \in Requests /\ op.kind = "add" /\ op.at = "apply"
          /\ op' = [op EXCEPT !.at = "commit"] /\ UNCHANGED <<file, cfg>>
          /\ manual' = WithPeer(manual, op.address,
                        [port |-> PortOf(op.next.peers, op.address), fromConfig |-> FALSE])
        BY <1>1, <1>5 DEF ApplyAdd, disk
    <2>2. Holds(cfg) /\ file = op.next
        BY <1>1, <2>1 DEF RequestInv
    <2>3. /\ DOMAIN manual' = DOMAIN manual \cup {op.address}
          /\ manual'[op.address].port = PortOf(op.next.peers, op.address)
          /\ ~manual'[op.address].fromConfig
          /\ \A a \in DOMAIN manual : a # op.address => manual'[a] = manual[a]
        BY <2>1 DEF WithPeer
    <2>4. PICK c : c = op.next
        OBVIOUS
    <2>5. Holds(c)'
        BY <1>1, <2>1, <2>2, <2>3, <2>4, AskedFor DEF Holds
    <2> QED
        BY <2>1, <2>2, <2>4, <2>5, PeersMoves
<1>6. CASE ApplyRemove
    <2>1. /\ op \in Requests /\ op.kind = "remove" /\ op.at = "apply" /\ UNCHANGED <<file, cfg>>
          /\ op' = [op EXCEPT !.at = IF op.address \in DOMAIN manual THEN "commit" ELSE "rollback"]
          /\ manual' = WithoutPeer(manual, op.address)
        BY <1>1, <1>6 DEF ApplyRemove, disk
    <2>2. Holds(cfg) /\ file = op.next
        BY <1>1, <2>1 DEF RequestInv
    <2>3. /\ DOMAIN manual' = DOMAIN manual \ {op.address}
          /\ \A a \in DOMAIN manual : a # op.address => manual'[a] = manual[a]
        BY <2>1 DEF WithoutPeer
    <2>4. CASE op.address \in DOMAIN manual
        <3>1. PICK c : c = op.next
            OBVIOUS
        <3>2. Holds(c)'
            BY <1>1, <2>1, <2>2, <2>3, <3>1, AskedFor DEF Holds
        <3>3. op' = [op EXCEPT !.at = "commit"]
            BY <2>1, <2>4
        <3> QED
            BY <2>1, <2>2, <3>1, <3>2, <3>3, PeersMoves
    <2>5. CASE op.address \notin DOMAIN manual
        <3>1. op' = [op EXCEPT !.at = "rollback"]
            BY <2>1, <2>5
        <3>2. op.next = cfg
            BY <1>1, <2>1, <2>2, <2>5, AskedFor DEF Holds
        <3>3. Holds(cfg)'
            BY <2>1, <2>2, <2>3, <2>5 DEF Holds
        <3> QED
            BY <2>1, <2>2, <3>1, <3>2, <3>3, PeersMoves
    <2> QED
        BY <2>4, <2>5
<1>7. CASE Rollback
    <2>1. op \in Requests /\ op.at # "commit" /\ op' = NoOp /\ UNCHANGED <<cfg, manual>>
        BY <1>1, <1>7 DEF Rollback, runtime
    <2> QED
        BY <1>2, <2>1, PeersStill
<1>8. CASE Commit
    <2>1. op \in Requests /\ op.at = "commit" /\ op' = NoOp /\ cfg' = op.next /\ manual' = manual
          /\ RequestInv
        BY <1>1, <1>8 DEF Commit
    <2>2. Holds(op.next)
        BY <2>1 DEF RequestInv
    <2>3. PICK c : c = op.next
        OBVIOUS
    <2>4. c.peers = cfg'.peers /\ manual' = manual
        BY <2>1, <2>3
    <2>5. Holds(c)
        BY <2>2, <2>3
    <2>6. Holds(cfg)'
        BY <2>4, <2>5 DEF Holds
    <2> QED
        BY <1>2, <2>1, <2>6 DEF PeersInv, RequestInv
<1>9. CASE ReloadPort
    <2>1. op.kind = "reload" /\ op' = [op EXCEPT !.at = "peers"]
        BY <1>9 DEF ReloadPort
    <2>2. op \in Reloads
        BY <2>1, TypeFacts, OpKinds
    <2>3. op' \in Reloads
        BY <2>1, <2>2 DEF Reloads
    <2>4. op' \notin Requests /\ op' # NoOp
        BY <2>3, OpKinds
    <2> QED
        BY <2>4 DEF PeersInv, RequestInv
<1>10. CASE ReloadPeers
    <2>1. op' = NoOp /\ manual' = Replaced(cfg.peers) /\ cfg' = cfg
        BY <1>10 DEF ReloadPeers
    <2>2. PICK list \in Seq(Peer) : list = cfg.peers
        BY TypeFacts, ConfigFields
    <2>3. \A a \in AddressesIn(list) : FromFile(list)[a].port = PortOf(list, a)
        BY FromFileTypes
    <2>4. /\ \A a : a \in DOMAIN manual' <=>
                a \in AddressesIn(list) \/ (a \in DOMAIN manual /\ ~manual[a].fromConfig)
          /\ \A a \in DOMAIN manual' :
                manual'[a] = IF a \in AddressesIn(list) THEN FromFile(list)[a] ELSE manual[a]
        BY <2>1, <2>2 DEF Replaced
    <2>5. Holds(cfg)'
        BY <2>1, <2>2, <2>3, <2>4 DEF Holds
    <2> QED
        BY <1>2, <2>1, <2>5 DEF PeersInv, RequestInv
<1> QED
    BY <1>3, <1>4, <1>5, <1>6, <1>7, <1>8, <1>9, <1>10 DEF OpStep

LEMMA PeersStep ==
    ASSUME TypeInv, PeersInv, [Next]_vars
    PROVE  PeersInv'
<1>1. CASE Refresh \/ NetmapChanges \/ UNCHANGED vars
    <2>1. UNCHANGED <<file, phase, cfg, manual, op>>
        BY <1>1 DEF Refresh, Discover, LockManual, MergePeers, Publish, NetmapChanges, vars, disk, runtime
    <2> QED
        BY <2>1, PeersStill
<1>2. CASE \E f \in Edits : EditFile(f)
    <2>1. op = NoOp /\ op' = NoOp /\ UNCHANGED <<phase, cfg, manual>>
        BY <1>2 DEF EditFile, runtime
    <2>2. op' \notin Requests
        BY <2>1, OpKinds
    <2> QED
        BY <2>1, <2>2, PeersStill
<1>3. CASE Crash
    <2>1. phase' = "down" /\ op' = NoOp
        BY <1>3 DEF Crash
    <2>2. op' \notin Requests
        BY <2>1, OpKinds
    <2> QED
        BY <2>1, <2>2 DEF PeersInv, RequestInv
<1>4. CASE Boot
    <2>1. phase = "down" /\ Load /\ op' = op /\ manual' = FromFile(cfg'.peers)
        BY <1>4 DEF Boot
    <2>2. op' = NoOp /\ op' \notin Requests
        BY <2>1, TypeFacts, OpKinds
    <2>3. PICK c \in Config : c = cfg'
        BY <2>1, LoadTypes
    <2>4. PICK list \in Seq(Peer) : list = c.peers
        BY ConfigFields
    <2>5. /\ DOMAIN FromFile(list) = AddressesIn(list)
          /\ \A a \in AddressesIn(list) : FromFile(list)[a].port = PortOf(list, a)
        BY FromFileTypes
    <2>6. Holds(cfg)'
        BY <2>1, <2>3, <2>4, <2>5 DEF Holds
    <2> QED
        BY <2>2, <2>6 DEF PeersInv, RequestInv
<1> QED
    BY <1>1, <1>2, <1>3, <1>4, PeersBegin, PeersOp DEF Next, Accident

LEMMA PeersInit == Init => PeersInv
<1> SUFFICES ASSUME Init PROVE PeersInv
    OBVIOUS
<1>1. op = NoOp /\ phase = "down"
    BY DEF Init
<1>2. op \notin Requests
    BY <1>1, OpKinds
<1> QED
    BY <1>1, <1>2 DEF PeersInv, RequestInv

\* Between operations the runtime has every configured peer with the port of
\* its last entry, and beside them only what was added by request: through
\* failed saves, rollbacks, reloads of any file and restarts.
THEOREM RuntimeAlwaysHoldsConfig == Spec => []RuntimeHoldsConfig
<1>1. Init => TypeInv /\ PeersInv
    BY TypesInit, PeersInit
<1>2. TypeInv /\ PeersInv /\ [Next]_vars => TypeInv' /\ PeersInv'
    BY TypesStep, PeersStep
<1>3. PeersInv => RuntimeHoldsConfig
    BY DEF PeersInv, RuntimeHoldsConfig, Idle, Holds
<1> QED
    BY <1>1, <1>2, <1>3, PTL DEF Spec

-----------------------------------------------------------------------------
(* The answers and the file.                                               *)

\* What was said of an address a request under way is not about is in the
\* file, at every moment.
LEMMA DurableNow ==
    ASSUME TypeInv, PeersInv, FileInv, NEW a \in Addresses, acked[a] # Unknown,
           op \in Requests => a # op.address
    PROVE  file \in Config /\ AsSaid(file, a)
<1>1. cfg \in Config /\ phase \in {"up", "down"}
    BY TypeFacts
<1>2. CASE phase = "down"
    BY <1>2 DEF FileInv
<1>3. CASE phase = "up" /\ (op \in Requests => op.at = "save")
    <2>1. file = cfg /\ AsSaid(cfg, a)
        BY <1>3 DEF FileInv
    <2> QED
        BY <1>1, <2>1
<1>4. CASE phase = "up" /\ op \in Requests /\ op.at # "save"
    <2>1. file = op.next /\ Asked /\ op.next \in Config
        BY <1>4, OpKinds DEF PeersInv, RequestInv
    <2>2. /\ acked[a] = NoPeer <=> a \notin AddressesIn(cfg.peers)
          /\ acked[a] # NoPeer => PortOf(cfg.peers, a) = acked[a]
        BY <1>4 DEF FileInv, AsSaid
    <2>3. /\ a \in AddressesIn(op.next.peers) <=> a \in AddressesIn(cfg.peers)
          /\ a \in AddressesIn(cfg.peers) => PortOf(op.next.peers, a) = PortOf(cfg.peers, a)
        BY <1>4, <2>1, AskedFor
    <2> QED
        BY <2>1, <2>2, <2>3 DEF AsSaid
<1> QED
    BY <1>1, <1>2, <1>3, <1>4

\* A step that leaves the file, the configuration and the answers alone.
LEMMA FileStill ==
    ASSUME FileInv, UNCHANGED <<file, phase, cfg, acked>>,
           (op' \in Requests => op'.at = "save") =>
                file = cfg \/ (op \in Requests => op.at = "save")
    PROVE  FileInv'
BY DEF FileInv, AsSaid

LEMMA FileOp ==
    ASSUME TypeInv, PeersInv, FileInv, OpStep
    PROVE  FileInv'
<1>1. phase = "up" /\ phase' = "up"
    <2>1. op.kind \in {"add", "remove", "reload"} /\ phase' = phase
        BY DEF OpStep, Save, SaveFails, ApplyAdd, ApplyRemove, Rollback, Commit, ReloadPort,
               ReloadPeers
    <2> QED
        BY <2>1, TypeFacts, OpKinds
<1>2. op.kind \in {"add", "remove"} => op \in Requests /\ RequestInv /\ Asked
    BY TypeFacts, OpKinds DEF PeersInv, RequestInv
<1>3. CASE Save
    <2>1. /\ op \in Requests /\ op' = [op EXCEPT !.at = "apply"] /\ UNCHANGED <<cfg, acked>>
        BY <1>2, <1>3 DEF Save, runtime
    <2>2. op' \in Requests /\ op'.at = "apply"
        BY <2>1, RequestMoves
    <2> QED
        BY <1>1, <2>1, <2>2 DEF FileInv, AsSaid
<1>4. CASE SaveFails
    <2>1. /\ op \in Requests /\ op.at \in {"save", "rollback"} /\ RequestInv
          /\ UNCHANGED <<file, phase, cfg, acked>>
        BY <1>2, <1>4 DEF SaveFails, runtime
    <2>2. op.at = "rollback" => file = cfg
        BY <2>1 DEF RequestInv
    <2> QED
        BY <2>1, <2>2, FileStill
<1>5. CASE ApplyAdd \/ ApplyRemove
    <2>1. /\ op \in Requests /\ UNCHANGED <<file, phase, cfg, acked>>
          /\ op' \in {[op EXCEPT !.at = "commit"], [op EXCEPT !.at = "rollback"]}
        BY <1>2, <1>5 DEF ApplyAdd, ApplyRemove, disk
    <2>2. op' \in Requests /\ op'.at # "save"
        BY <2>1, RequestMoves
    <2> QED
        BY <2>1, <2>2, FileStill
<1>6. CASE Rollback
    BY <1>1, <1>6 DEF Rollback, runtime, FileInv, AsSaid
<1>7. CASE Commit
    <2>1. /\ op \in Requests /\ Asked /\ op.at = "commit" /\ file = op.next
          /\ cfg' = op.next /\ file' = file /\ op' = NoOp
          /\ acked' = [acked EXCEPT ![op.address] =
                        IF op.kind = "add" THEN PortOf(op.next.peers, op.address) ELSE NoPeer]
        BY <1>2, <1>7 DEF Commit, disk, RequestInv
    <2>2. /\ op.next \in Config /\ op.address \in Addresses /\ op.kind \in {"add", "remove"}
          /\ acked \in [Addresses -> Ports \cup {0, NoPeer, Unknown}]
        BY <2>1, TypeFacts, OpKinds
    <2>3. file' = cfg'
        BY <2>1
    <2>4. PICK c : c = op.next
        OBVIOUS
    <2>5. ASSUME NEW a \in Addresses, acked'[a] # Unknown
          PROVE  /\ acked'[a] = NoPeer <=> a \notin AddressesIn(c.peers)
                 /\ acked'[a] # NoPeer => PortOf(c.peers, a) = acked'[a]
        <3>1. CASE a = op.address /\ op.kind = "add"
            <4>1. PICK list \in Seq(Peer) : list = c.peers
                BY <2>2, <2>4, ConfigFields
            <4>2. a \in AddressesIn(list) /\ acked'[a] = PortOf(list, a)
                BY <2>1, <2>2, <2>4, <3>1, <4>1, AskedFor
            <4>3. PortOf(list, a) # NoPeer
                BY <4>2, LastEntryIs, Constants
            <4> QED
                BY <4>1, <4>2, <4>3
        <3>2. CASE a = op.address /\ op.kind = "remove"
            BY <2>1, <2>2, <2>4, <3>2, AskedFor
        <3>3. CASE a # op.address
            <4>1. acked'[a] = acked[a]
                BY <2>1, <2>2, <3>3
            <4>2. AsSaid(file, a)
                BY <2>5, <3>3, <4>1, DurableNow
            <4> QED
                BY <2>1, <2>4, <4>1, <4>2 DEF AsSaid
        <3> QED
            BY <2>2, <3>1, <3>2, <3>3
    <2>6. cfg'.peers = c.peers
        BY <2>1, <2>4
    <2>7. ASSUME NEW a \in Addresses, acked'[a] # Unknown PROVE AsSaid(cfg, a)'
        BY <2>5, <2>6, <2>7 DEF AsSaid
    <2> QED
        BY <1>1, <2>3, <2>7 DEF FileInv
<1>8. CASE ReloadPort \/ ReloadPeers
    <2>1. op.kind = "reload" /\ UNCHANGED <<file, phase, cfg, acked>>
        BY <1>8 DEF ReloadPort, ReloadPeers, disk
    <2>2. op \notin Requests
        BY <2>1, TypeFacts, OpKinds
    <2> QED
        BY <2>1, <2>2, FileStill
<1> QED
    BY <1>3, <1>4, <1>5, <1>6, <1>7, <1>8 DEF OpStep

LEMMA FileStep ==
    ASSUME TypeInv, PeersInv, FileInv, [Next]_vars
    PROVE  FileInv'
<1>1. CASE Refresh \/ NetmapChanges \/ UNCHANGED vars
    <2>1. UNCHANGED <<file, phase, cfg, acked, op>>
        BY <1>1 DEF Refresh, Discover, LockManual, MergePeers, Publish, NetmapChanges, vars, disk, runtime
    <2> QED
        BY <2>1, FileStill
<1>2. CASE \E f \in Edits : EditFile(f)
    <2>1. acked' = [a \in Addresses |-> Unknown]
        BY <1>2 DEF EditFile, Forgotten
    <2> QED
        BY <2>1 DEF FileInv
<1>3. CASE Crash
    <2>1. /\ phase' = "down" /\ file' = file
          /\ acked' = IF op.kind \in {"add", "remove"}
                      THEN [acked EXCEPT ![op.address] = Unknown] ELSE acked
        BY <1>3 DEF Crash
    <2>2. acked \in [Addresses -> Ports \cup {0, NoPeer, Unknown}]
          /\ (op \in Requests => op.kind \in {"add", "remove"} /\ op.address \in Addresses)
        BY TypeFacts, OpKinds
    <2>3. ASSUME NEW a \in Addresses, acked'[a] # Unknown
          PROVE  (file \in Config /\ AsSaid(file, a))'
        <3>1. acked'[a] = acked[a] /\ (op \in Requests => a # op.address)
            BY <2>1, <2>2, <2>3
        <3>2. file \in Config /\ AsSaid(file, a)
            BY <2>3, <3>1, DurableNow
        <3> QED
            BY <2>1, <3>1, <3>2 DEF AsSaid
    <2> QED
        BY <2>1, <2>3 DEF FileInv
<1>4. CASE Boot
    <2>1. phase = "down" /\ phase' = "up" /\ Load /\ UNCHANGED <<op, acked>>
        BY <1>4 DEF Boot
    <2>2. file \in Config => file' = file /\ cfg' = file
        BY <2>1, LoadTypes
    <2> QED
        BY <2>1, <2>2 DEF FileInv, AsSaid
<1>5. CASE \/ \E a \in Addresses, p \in Wanted : BeginAdd(a, p)
           \/ \E a \in Addresses : BeginRemove(a)
    <2>1. op = NoOp /\ UNCHANGED <<file, phase, cfg, acked>>
        BY <1>5, BeginAddMakes, BeginRemoveMakes DEF disk, runtime
    <2>2. op \notin Requests
        BY <2>1, OpKinds
    <2> QED
        BY <2>1, <2>2, FileStill
<1>6. CASE Reload
    <2>1. phase = "up" /\ phase' = "up" /\ op = NoOp /\ Load /\ acked' = acked
        BY <1>6 DEF Reload, Ready
    <2>2. op \notin Requests /\ cfg \in Config
        BY <2>1, TypeFacts, OpKinds
    <2>3. file \in Config => file' = file /\ cfg' = file
        BY <2>1, LoadTypes
    <2> QED
        BY <2>1, <2>2, <2>3 DEF FileInv, AsSaid
<1> QED
    BY <1>1, <1>2, <1>3, <1>4, <1>5, <1>6, FileOp DEF Next, Request, Accident

\* What a request was told has been done is in the file, at every moment and
\* through every crash, failed save, failed rollback and later request, until
\* somebody edits the file by hand.
THEOREM AcknowledgedIsAlwaysDurable == Spec => []AcknowledgedIsDurable
<1>1. Init => TypeInv /\ PeersInv
    BY TypesInit, PeersInit
<1>2. Init => FileInv
    BY DEF Init, Forgotten, FileInv
<1>3. TypeInv /\ PeersInv /\ FileInv /\ [Next]_vars => TypeInv' /\ PeersInv' /\ FileInv'
    BY TypesStep, PeersStep, FileStep
<1>4. TypeInv /\ PeersInv /\ FileInv => AcknowledgedIsDurable
    <2> SUFFICES ASSUME TypeInv, PeersInv, FileInv, NEW a \in Addresses, acked[a] # Unknown,
                        op.kind \in {"add", "remove"} => op.address # a
                 PROVE  /\ file \in Config
                        /\ (acked[a] = NoPeer) <=> (a \notin AddressesIn(file.peers))
                        /\ acked[a] # NoPeer => PortOf(file.peers, a) = acked[a]
        BY DEF AcknowledgedIsDurable
    <2>1. op \in Requests => a # op.address
        BY TypeFacts, OpKinds
    <2>2. file \in Config /\ AsSaid(file, a)
        BY <2>1, DurableNow
    <2> QED
        BY <2>2 DEF AsSaid
<1> QED
    BY <1>1, <1>2, <1>3, <1>4, PTL DEF Spec

-----------------------------------------------------------------------------
(* Reloads.                                                                *)

\* A reload loses no peer that was added by request, whatever the file says;
\* only a crash in the middle of it does.
THEOREM CliPeersAlwaysSurviveReload == Spec => CliPeersSurviveReload
<1>1. ASSUME TypeInv, Next, op.kind = "reload", NEW a \in DOMAIN manual, ~manual[a].fromConfig
      PROVE  phase' = "down" \/ a \in DOMAIN manual'
    <2>1. op \notin Requests /\ op # NoOp /\ phase # "down"
        BY <1>1, TypeFacts, OpKinds
    <2>2. CASE ReloadPeers
        BY <1>1, <2>2 DEF ReloadPeers, Replaced
    <2>3. CASE ReloadPort
        BY <1>1, <2>3 DEF ReloadPort
    <2>4. CASE Crash
        BY <2>4 DEF Crash
    <2>5. CASE Refresh \/ NetmapChanges
        BY <1>1, <2>5 DEF Refresh, Discover, LockManual, MergePeers, Publish, NetmapChanges, runtime
    <2>6. ~Request
        BY <2>1 DEF Request, BeginAdd, BeginRemove, Reload, Ready
    <2>7. ~Boot /\ ~\E f \in Edits : EditFile(f)
        BY <2>1 DEF Boot, EditFile
    <2>8. ~(Save \/ SaveFails \/ ApplyAdd \/ ApplyRemove \/ Rollback \/ Commit)
        BY <1>1 DEF Save, SaveFails, ApplyAdd, ApplyRemove, Rollback, Commit
    <2> QED
        BY <1>1, <2>2, <2>3, <2>4, <2>5, <2>6, <2>7, <2>8 DEF Next, OpStep, Accident
<1>2. TypeInv /\ [Next]_vars =>
        [op.kind = "reload" =>
            \A a \in DOMAIN manual : ~manual[a].fromConfig =>
                phase' = "down" \/ a \in DOMAIN manual']_vars
    BY <1>1
<1>3. Spec => []TypeInv
    BY TypesInit, TypesStep, PTL DEF Spec
<1> QED
    BY <1>2, <1>3, PTL DEF Spec, CliPeersSurviveReload
=============================================================================
