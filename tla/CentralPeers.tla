---------------------------- MODULE CentralPeers ----------------------------
(***************************************************************************)
(* Central's manual peers: the requests that add and remove them, the      *)
(* reload that replaces those of the file, the file itself through         *)
(* failing saves, crashes and edits by hand, and the refresh that merges   *)
(* them with the peers Tailscale knows (central/mgmt.go 87-174,            *)
(* central/server.go 36-53, 99-118, central/collector.go 272-319, 690-732). *)
(* Addresses are as the operator spells them; a node is known under its    *)
(* addresses, its name and the first label of its name.                    *)
(***************************************************************************)
EXTENDS Naturals, Sequences, Functions, Lists

CONSTANTS
    Nodes,          \* machines Tailscale may list
    Addresses,      \* what an operator may call a machine
    Known,          \* Known[n]: the addresses that name node n
    Ports,          \* ports, not 0
    Wanted,         \* ports a request may ask for, 0 for the common one
    Corrupt,        \* a file that does not parse
    Missing,        \* no file
    Default,        \* the configuration such a start writes
    FirstFiles,     \* files Central may be started from
    Edits,          \* what an operator may write into the file by hand
    NoPeer, Unknown,
    MaxPeers, MaxEdits, MaxCrashes, MaxSaveFailures     \* bounds

Peer == [address : Addresses, port : Ports \cup {0}]
Config == [agentPort : Ports, peers : Seq(Peer)]

ASSUME Constants ==
    /\ Known \in [Nodes -> SUBSET Addresses]
    /\ Ports \subseteq Nat \ {0}
    /\ Wanted \subseteq Ports \cup {0}
    /\ Default \in Config
    /\ FirstFiles \subseteq Config \cup {Missing}
    /\ Edits \subseteq Config \cup {Corrupt, Missing}
    /\ {Corrupt, Missing} \cap Config = {}
    /\ NoPeer \notin Ports \cup {0} /\ Unknown \notin Ports \cup {0, NoPeer}
    /\ MaxPeers \in Nat /\ MaxEdits \in Nat /\ MaxCrashes \in Nat
    /\ MaxSaveFailures \in Nat

VARIABLES
    file,       \* central.toml
    budget,     \* how often each accident may still happen
    online,     \* the nodes that carry a discovery tag
    phase,      \* the process: down or up
    cfg,        \* s.cfg: the port of Agents and the manual peers
    port,       \* the discoverer's port
    manual,     \* collector.manualPeers by address
    op,         \* the operation that holds mgmtMu
    refresh,    \* the refresh under way
    peers,      \* the published list
    acked       \* history: what the last answered request said of an address

disk == <<file, budget>>
runtime == <<cfg, port, manual>>
vars == <<disk, online, phase, runtime, op, refresh, peers, acked>>

NoOp == [kind |-> "none"]
NoRefresh == [at |-> "idle"]
NothingListed == [nodes |-> <<>>, others |-> <<>>]
NoManual == [a \in {} |-> NoPeer]

AddressesIn(list) == {p.address : p \in Range(list)}

\* A later entry of an address replaces an earlier one in the runtime.
LastEntry(list, a) ==
    CHOOSE i \in DOMAIN list :
        list[i].address = a /\ \A j \in DOMAIN list : list[j].address = a => j <= i
PortOf(list, a) == list[LastEntry(list, a)].port

FilterLast(list, a) ==      \* mutant: one of several entries
    Kept(list, {i \in DOMAIN list : list[i].address # a \/ i # LastEntry(list, a)})

\* filterManualPeers.
Filtered(list, a) == Kept(list, {i \in DOMAIN list : list[i].address # a})

-----------------------------------------------------------------------------
(* The collector's map of manual peers.                                    *)

WithPeer(m, a, entry) ==
    [x \in DOMAIN m \cup {a} |-> IF x = a THEN entry ELSE m[x]]

WithoutPeer(m, a) == [x \in DOMAIN m \ {a} |-> m[x]]

FromFile(list) ==
    [a \in AddressesIn(list) |-> [port |-> PortOf(list, a), fromConfig |-> TRUE]]

ReplacedAll(list) == FromFile(list)      \* mutant: those added by request go too

ReplacedNone(list) ==                    \* mutant: those gone from the file stay
    [a \in DOMAIN manual \cup AddressesIn(list) |->
        IF a \in AddressesIn(list) THEN FromFile(list)[a] ELSE manual[a]]

\* ReplaceConfigPeers: peers added by request stay, unless the file has them.
Replaced(list) ==
    [a \in {x \in DOMAIN manual : ~manual[x].fromConfig} \cup AddressesIn(list) |->
        IF a \in AddressesIn(list) THEN FromFile(list)[a] ELSE manual[a]]

-----------------------------------------------------------------------------
(* LoadCentralConfig.  A file that is missing is created with the defaults, *)
(* which are used even if that fails.                                      *)

\* initConfigFile writes in place: it may fail before there is a file, leave
\* an empty one, which reads as the defaults, or be cut off in the middle.
Created == {Missing, Default, Corrupt}

Loaded == IF file = Missing THEN Default ELSE file

Load ==
    /\ file # Corrupt
    /\ file' \in IF file = Missing THEN Created ELSE {file}
    /\ cfg' = Loaded

-----------------------------------------------------------------------------
(* Requests and reload, one at a time (mgmtMu).                            *)

Ready == phase = "up" /\ op = NoOp

Begin(o) == op' = o /\ UNCHANGED <<disk, online, phase, runtime, refresh, peers, acked>>

BeginAdd(a, p) ==
    /\ Ready
    /\ Len(cfg.peers) < MaxPeers
    /\ Begin([kind |-> "add", address |-> a, at |-> "save",
              next |-> [cfg EXCEPT !.peers = Append(@, [address |-> a, port |-> p])]])

BeginRemove(a) ==
    /\ Ready
    /\ Begin([kind |-> "remove", address |-> a, at |-> "save",
              next |-> [cfg EXCEPT !.peers = Filtered(@, a)]])

\* The file is replaced as a whole.
Save ==
    /\ op.kind \in {"add", "remove"} /\ op.at = "save"
    /\ file' = op.next
    /\ op' = [op EXCEPT !.at = "apply"]
    /\ UNCHANGED <<budget, online, phase, runtime, refresh, peers, acked>>

SaveFailsTorn ==    \* mutant: the file is written in place
    /\ op.kind \in {"add", "remove"} /\ op.at \in {"save", "rollback"}
    /\ budget.save > 0
    /\ budget' = [budget EXCEPT !.save = @ - 1]
    /\ op' = NoOp
    /\ file' = Corrupt
    /\ UNCHANGED <<online, phase, runtime, refresh, peers, acked>>

\* HTTP 500, and nothing else; after a failed rollback as well.
SaveFails ==
    /\ op.kind \in {"add", "remove"} /\ op.at \in {"save", "rollback"}
    /\ budget.save > 0
    /\ budget' = [budget EXCEPT !.save = @ - 1]
    /\ op' = NoOp
    /\ UNCHANGED <<file, online, phase, runtime, refresh, peers, acked>>

\* mergePeers reads the manual peers under manualMu; whoever changes them
\* waits until it is through.
Merging == refresh.at = "merge"

ApplyAdd ==
    /\ op.kind = "add" /\ op.at = "apply"
    /\ ~Merging
    /\ manual' = WithPeer(manual, op.address,
                    [port |-> PortOf(op.next.peers, op.address), fromConfig |-> FALSE])
    /\ op' = [op EXCEPT !.at = "commit"]
    /\ UNCHANGED <<disk, online, phase, cfg, port, refresh, peers, acked>>

ApplyRemove ==
    /\ op.kind = "remove" /\ op.at = "apply"
    /\ ~Merging
    /\ manual' = WithoutPeer(manual, op.address)
    /\ op' = [op EXCEPT !.at = IF op.address \in DOMAIN manual THEN "commit"
                               ELSE "rollback"]
    /\ UNCHANGED <<disk, online, phase, cfg, port, refresh, peers, acked>>

\* There was no such peer: the old file is written again, HTTP 404.
Rollback ==
    /\ op.kind = "remove" /\ op.at = "rollback"
    /\ file' = cfg
    /\ op' = NoOp
    /\ UNCHANGED <<budget, online, phase, runtime, refresh, peers, acked>>

\* s.cfg is replaced, HTTP 200.
Commit ==
    /\ op.kind \in {"add", "remove"} /\ op.at = "commit"
    /\ cfg' = op.next
    /\ acked' = [acked EXCEPT ![op.address] =
                    IF op.kind = "add" THEN PortOf(op.next.peers, op.address) ELSE NoPeer]
    /\ op' = NoOp
    /\ UNCHANGED <<disk, online, phase, port, manual, refresh, peers>>

\* A file that does not parse leaves everything as it is.
Reload ==
    /\ Ready
    /\ Load
    /\ op' = [kind |-> "reload", at |-> "port"]
    /\ UNCHANGED <<budget, online, phase, port, manual, refresh, peers, acked>>

ReloadPort ==
    /\ op.kind = "reload" /\ op.at = "port"
    /\ port' = cfg.agentPort
    /\ op' = [op EXCEPT !.at = "peers"]
    /\ UNCHANGED <<disk, online, phase, cfg, manual, refresh, peers, acked>>

ReloadPeers ==
    /\ op.kind = "reload" /\ op.at = "peers"
    /\ ~Merging
    /\ manual' = Replaced(cfg.peers)
    /\ op' = NoOp
    /\ UNCHANGED <<disk, online, phase, cfg, port, refresh, peers, acked>>

Forgotten == [a \in Addresses |-> Unknown]

\* An edit by hand: what requests were told before no longer binds the file.
EditFile(f) ==
    /\ op = NoOp
    /\ budget.edit > 0
    /\ budget' = [budget EXCEPT !.edit = @ - 1]
    /\ file' = f
    /\ acked' = Forgotten
    /\ UNCHANGED <<online, phase, runtime, op, refresh, peers>>

\* The process stops at any point; only the file is left.
Crash ==
    /\ phase = "up"
    /\ budget.crash > 0
    /\ budget' = [budget EXCEPT !.crash = @ - 1]
    /\ phase' = "down"
    /\ manual' = NoManual
    /\ op' = NoOp
    /\ refresh' = NoRefresh
    /\ peers' = NothingListed
    \* A request that was cut off may or may not have been carried out.
    /\ acked' = IF op.kind \in {"add", "remove"}
                THEN [acked EXCEPT ![op.address] = Unknown] ELSE acked
    /\ UNCHANGED <<file, online, cfg, port>>

Boot ==
    /\ phase = "down"
    /\ Load
    /\ phase' = "up"
    /\ port' = cfg'.agentPort
    /\ manual' = FromFile(cfg'.peers)
    /\ UNCHANGED <<budget, online, op, refresh, peers, acked>>

-----------------------------------------------------------------------------
(* A refresh.                                                              *)

NetmapChanges ==
    /\ \E ns \in SUBSET Nodes \ {online} : online' = ns
    /\ UNCHANGED <<disk, phase, runtime, op, refresh, peers, acked>>

DiscoverSome ==     \* mutant: nothing is published while no node is listed
    /\ phase = "up" /\ refresh = NoRefresh
    /\ online # {}
    /\ refresh' = [at |-> "discovered", nodes |-> online, port |-> port]
    /\ UNCHANGED <<disk, online, phase, runtime, op, peers, acked>>

Discover ==
    /\ phase = "up" /\ refresh = NoRefresh
    /\ refresh' = [at |-> "discovered", nodes |-> online, port |-> port]
    /\ UNCHANGED <<disk, online, phase, runtime, op, peers, acked>>

LockManual ==
    /\ refresh.at = "discovered"
    /\ refresh' = [at |-> "merge", nodes |-> refresh.nodes, port |-> refresh.port,
                   before |-> port]
    /\ UNCHANGED <<disk, online, phase, runtime, op, peers, acked>>

EffectivePortRaw(m, a, common) == m[a].port     \* mutant: 0 is taken for a port

\* 0 stands for the discoverer's port, which is asked for peer by peer:
\* common[a] is what it was when it was a's turn.
EffectivePort(m, a, common) == IF m[a].port = 0 THEN common[a] ELSE m[a].port

MergesByAddress(nodes, discovered, m, common) ==    \* mutant: no node has a name
    {[nodes |-> [n \in nodes |-> [address |-> n, port |-> discovered]],
      others |-> [a \in DOMAIN m |-> EffectivePort(m, a, common)]]}

\* A manual peer that names a discovered node takes over its address and
\* port, any other is a peer of its own.  Which of several manual peers has
\* the last word on a node, and which of several nodes of one name a manual
\* peer means, depends on the order a map is ranged over.
Merges(nodes, discovered, m, common) ==
    LET Named(a) == {n \in nodes : a \in Known[n]}
        Aliases == {a \in DOMAIN m : Named(a) # {}}
        Meant == {t \in [Aliases -> nodes] : \A a \in Aliases : t[a] \in Named(a)}
        Entry(a) == [address |-> a, port |-> EffectivePort(m, a, common)]
        Node(n) == [address |-> n, port |-> discovered]
        Listings(t) ==
            {f \in [nodes -> {Node(n) : n \in nodes} \cup {Entry(a) : a \in Aliases}] :
                \A n \in nodes :
                    IF \E a \in Aliases : t[a] = n
                    THEN \E a \in Aliases : t[a] = n /\ f[n] = Entry(a)
                    ELSE f[n] = Node(n)}
    IN  {[nodes |-> f,
          others |-> [a \in DOMAIN m \ Aliases |-> EffectivePort(m, a, common)]] :
            f \in UNION {Listings(t) : t \in Meant}}

\* A reload may change the port while the peers are gone through, once: it
\* then waits for the lock.
MergePeers ==
    /\ Merging
    /\ \E common \in [DOMAIN manual -> {refresh.before, port}] :
        \E list \in Merges(refresh.nodes, refresh.port, manual, common) :
            refresh' = [at |-> "publish", list |-> list]
    /\ UNCHANGED <<disk, online, phase, runtime, op, peers, acked>>

Publish ==
    /\ refresh.at = "publish"
    /\ peers' = refresh.list
    /\ refresh' = NoRefresh
    /\ UNCHANGED <<disk, online, phase, runtime, op, acked>>

-----------------------------------------------------------------------------

Init ==
    /\ file \in FirstFiles
    /\ budget = [edit |-> MaxEdits, crash |-> MaxCrashes, save |-> MaxSaveFailures]
    /\ online \in SUBSET Nodes
    /\ phase = "down"
    /\ cfg = Default
    /\ port = Default.agentPort
    /\ manual = NoManual
    /\ op = NoOp
    /\ refresh = NoRefresh
    /\ peers = NothingListed
    /\ acked = Forgotten

OpStep ==
    \/ Save \/ SaveFails \/ ApplyAdd \/ ApplyRemove \/ Rollback \/ Commit
    \/ ReloadPort \/ ReloadPeers

Refresh == Discover \/ LockManual \/ MergePeers \/ Publish

Request ==
    \/ \E a \in Addresses, p \in Wanted : BeginAdd(a, p)
    \/ \E a \in Addresses : BeginRemove(a)
    \/ Reload

Accident == Crash \/ NetmapChanges \/ \E f \in Edits : EditFile(f)

Next == Request \/ OpStep \/ Refresh \/ Boot \/ Accident

Spec == Init /\ [][Next]_vars

\* The loop refreshes again and again, and a request that has begun goes on:
\* though a refresh takes manualMu time and again, a writer that waits for an
\* RWMutex is let in before the next reader.  Nobody has to ask for anything,
\* or to start Central.
FairSpec == Spec /\ SF_vars(OpStep) /\ WF_vars(Refresh)

-----------------------------------------------------------------------------
(* Properties.                                                             *)

Idle == phase = "up" /\ op = NoOp

\* Every variable holds a value of its kind.
TypeOK ==
    /\ file \in Config \cup {Corrupt, Missing}
    /\ budget \in [edit : Nat, crash : Nat, save : Nat]
    /\ online \subseteq Nodes
    /\ phase \in {"up", "down"}
    /\ cfg \in Config
    /\ port \in Ports
    /\ DOMAIN manual \subseteq Addresses
    /\ \A a \in DOMAIN manual :
        manual[a] \in [port : Ports \cup {0}, fromConfig : BOOLEAN]
    /\ op.kind \in {"none", "add", "remove", "reload"}
    /\ op.kind \in {"add", "remove"} => op.next \in Config /\ op.address \in Addresses
    /\ refresh.at \in {"idle", "discovered", "merge", "publish"}
    /\ DOMAIN peers.nodes \subseteq Nodes
    /\ \A n \in DOMAIN peers.nodes :
        peers.nodes[n] \in [address : Nodes \cup Addresses, port : Ports]
    /\ DOMAIN peers.others \subseteq Addresses
    /\ \A a \in DOMAIN peers.others : peers.others[a] \in Ports
    /\ acked \in [Addresses -> Ports \cup {0, NoPeer, Unknown}]

\* Between operations every configured peer is in the runtime, with the port
\* of its last entry, and whatever else is there was added by request and
\* taken out of the file by hand.
RuntimeHoldsConfig ==
    Idle =>
        /\ \A a \in AddressesIn(cfg.peers) :
            a \in DOMAIN manual /\ manual[a].port = PortOf(cfg.peers, a)
        /\ \A a \in DOMAIN manual \ AddressesIn(cfg.peers) : ~manual[a].fromConfig

\* What a request was told has been done is in the file, at every moment and
\* through every crash, failed save and later request: an added peer with its
\* port, a removed one not at all (docs/central.md:197: "first written into
\* the configuration file").
AcknowledgedIsDurable ==
    \A a \in Addresses :
        /\ acked[a] # Unknown
        /\ op.kind \in {"add", "remove"} => op.address # a
        => /\ file \in Config
           /\ (acked[a] = NoPeer) <=> (a \notin AddressesIn(file.peers))
           /\ acked[a] # NoPeer => PortOf(file.peers, a) = acked[a]

\* "CLI-added peers (fromConfig=false) are not affected" by a reload
\* (collector.go:272-273): none that a request added, and no reload has since
\* taken for one of the file, is lost, whatever the file says now.
CliPeersSurviveReload ==
    [][op.kind = "reload" =>
        \A a \in DOMAIN manual : ~manual[a].fromConfig =>
            phase' = "down" \/ a \in DOMAIN manual']_vars

\* Once no request begins any more and the netmap comes to rest, every
\* request and reload under way comes to its end, and the published list
\* becomes and stays a merge of the nodes and the manual peers there are, at
\* the ports they have, through crashes and whatever a refresh still had in
\* hand (docs/central.md:249: "merge the manually configured peers, whose
\* port takes precedence").
EventuallyMerged ==
    <>[][op = NoOp => op' = NoOp]_op /\ <>[][online' = online]_online =>
        <>[](/\ op = NoOp
             /\ phase = "up" =>
                    peers \in Merges(online, port, manual, [a \in DOMAIN manual |-> port]))
=============================================================================
