---------------------------- MODULE BlockServer ----------------------------
(***************************************************************************)
(* How a sender's requests for blocks reach a provider and are answered:   *)
(* directly, through the routers a hole was punched in, or, once the user  *)
(* has agreed, through the server.                                         *)
(*                                                                         *)
(* A direct request goes to the punched address, and the answers go to     *)
(* where the provider's socket points to. A relayed request carries the    *)
(* address the client believed it had when relaying began. The server      *)
(* looks up the provider's address for each request, and sends each answer *)
(* to the address the answer carries. The provider's reader thread answers *)
(* block by block, while its other threads write to the same socket.       *)
(*                                                                         *)
(* Routers let the two clients' datagrams in: each has written to the      *)
(* other while the hole was punched. Equal datagrams under way are one.    *)
(* Whether the file is there to be read is in ResourceIndex.               *)
(***************************************************************************)
EXTENDS Integers, FiniteSets

CONSTANTS
    Block,       \* the block numbers a request may name
    FileBlocks,  \* those at which the file has data
    MaxReq,      \* MAX_REQUEST_BLOCKS_COUNT
    MaxAddr,     \* how many outside addresses each of the two gets at most
    MaxRequests, \* requests under way at most
    MaxFaults,   \* how much goes wrong at most
    None, Server, Other

ASSUME BlockServerAssumption ==
    /\ FileBlocks \subseteq Block /\ IsFiniteSet(Block)
    /\ {MaxReq, MaxAddr, MaxRequests} \subseteq Nat \ {0}
    /\ MaxFaults \in Nat

(* Outside addresses: of the requester, of the provider, and of some third *)
(* client the provider also writes to.                                     *)
Requester == {"requester"} \X (1..MaxAddr)
Providers == {"provider"} \X (1..MaxAddr)
Address   == Requester \cup Providers \cup {Server, Other}

Batch == {B \in SUBSET Block : B # {} /\ Cardinality(B) <= MaxReq}

(* TMSG_GETBLOCKS and TMSG_GETBLOCKS2, TMSG_FILEBLOCKDATA and its second:  *)
(* src is in the second of each only.                                      *)
Request == [kind : {"get"}, from : Requester, to : Providers, src : {None},
            blocks : Batch]
           \cup [kind : {"get2"}, from : Requester, to : {Server},
                 src : Requester, blocks : Batch]
           \cup [kind : {"get2"}, from : {Server}, to : Providers,
                 src : Requester, blocks : Batch]
Answer  == [kind : {"data"}, to : Address, src : {None}, block : Block]
           \cup [kind : {"data2"}, to : Address, src : Requester, block : Block]

(* The three model values are none of the things they stand beside.        *)
ASSUME BlockServerDistinct ==
    /\ {None, Server, Other} \cap (Requester \cup Providers) = {}
    /\ None \notin Request

VARIABLES
    relayed,  \* the sender is in P2PWithTransmit
    src,      \* srcIPAddr of its message
    punched,  \* P2PAddr of the provider in the requester's list
    got,      \* the blocks that have reached the requester's reader
    rNat,     \* the outside address the requester has now
    rKnown,   \* the last one in its m_peerInfo
    pNat,     \* the outside address the provider has now
    dir,      \* where the server's list has the provider, None if it has not
    serving,  \* the request the provider's reader handles
    left,     \* the blocks of it that are still to be answered
    peer,     \* the peer address of the provider's socket meanwhile
    net,      \* datagrams under way
    diverted, \* how often another thread moved the socket's peer meanwhile
    faults    \* losses, moves and removals so far

senderVars   == <<relayed, src, punched>>
providerVars == <<serving, left, peer, diverted>>
placeVars    == <<rNat, rKnown, pNat, dir>>
vars == <<senderVars, got, placeVars, providerVars, net, faults>>

MayFail == diverted + faults < MaxFaults

Init ==
    /\ relayed = FALSE /\ src = None /\ punched = <<"provider", 1>>
    /\ got = {}
    /\ rNat = <<"requester", 1>> /\ rKnown = rNat
    /\ pNat = punched /\ dir = pNat
    /\ serving = None /\ left = {} /\ peer = Server /\ diverted = 0
    /\ net = {} /\ faults = 0

-----------------------------------------------------------------------------
(* The requester: P2PNoTrasmit and P2PWithTransmit.                        *)

Requests == {m \in net : m.kind \in {"get", "get2"}}

(* SendRequest, with the blocks of a task and whatever else the message    *)
(* names. A request that cannot be sent is in Downloader.                  *)
Ask(B) ==
    /\ Cardinality(Requests) < MaxRequests
    /\ net' = net \cup
         {IF relayed
          THEN [kind |-> "get2", from |-> rNat, to |-> Server, src |-> src,
                blocks |-> B]
          ELSE [kind |-> "get", from |-> rNat, to |-> punched, src |-> None,
                blocks |-> B]}
    /\ UNCHANGED <<senderVars, got, placeVars, providerVars, faults>>

(* Sends failed and the user agrees to relaying. The address the client    *)
(* has by what it knows (GetNatIP) is put into the message once.           *)
StartRelay ==
    /\ ~relayed
    /\ relayed' = TRUE /\ src' = rKnown
    /\ UNCHANGED <<punched, got, placeVars, providerVars, net, faults>>

(* ProcMsgFileBlockData and ProcMsgFileBlockData2: the download of the     *)
(* file is handed the block.                                               *)
ProcMsgFileBlockData(m) ==
    /\ m.kind \in {"data", "data2"} /\ m.to = rNat
    /\ got' = got \cup {m.block}
    /\ net' = net \ {m}
    /\ UNCHANGED <<senderVars, placeVars, providerVars, faults>>

-----------------------------------------------------------------------------
(* The provider's reader: ProcMsgGetBlocks and ProcMsgGetBlocks2.          *)

(* Mutation: the socket is not asked where the request came from. *)
ProviderReadsNoSource(m) ==
    /\ serving = None
    /\ m.kind \in {"get", "get2"} /\ m.to = pNat
    /\ net' = net \ {m}
    /\ serving' = m /\ left' = m.blocks
    /\ UNCHANGED <<senderVars, got, placeVars, diverted, peer, faults>>

(* The request is read; the socket then points to where it came from.      *)
ProviderReads(m) ==
    /\ serving = None
    /\ m.kind \in {"get", "get2"} /\ m.to = pNat
    /\ net' = net \ {m}
    /\ serving' = m /\ left' = m.blocks /\ peer' = m.from
    /\ UNCHANGED <<senderVars, got, placeVars, diverted, faults>>

Served(b) ==
    /\ left' = left \ {b}
    /\ serving' = IF left' = {} THEN None ELSE serving

(* Mutation: what could not be read is sent as well. *)
ServeUnread(b) ==
    /\ b \in left
    /\ Served(b)
    /\ net' = net \cup {[kind |-> IF serving.kind = "get" THEN "data" ELSE "data2",
                         to |-> peer, src |-> serving.src, block |-> b]}
    /\ UNCHANGED <<senderVars, got, placeVars, diverted, peer, faults>>

(* Mutation: the answer goes where an earlier request came from. *)
ServeToFirst(b) ==
    /\ b \in left
    /\ Served(b)
    /\ net' = IF b \notin FileBlocks THEN net
              ELSE net \cup
                   {[kind |-> IF serving.kind = "get" THEN "data" ELSE "data2",
                     to |-> IF peer = Server THEN Server ELSE <<"requester", 1>>,
                     src |-> serving.src, block |-> b]}
    /\ UNCHANGED <<senderVars, got, placeVars, diverted, peer, faults>>

(* A block of the request is read and sent to where the socket points now. *)
(* Where the file has no data, nothing is sent.                            *)
Serve(b) ==
    /\ b \in left
    /\ Served(b)
    /\ net' = IF b \notin FileBlocks THEN net
              ELSE net \cup
                   {[kind |-> IF serving.kind = "get" THEN "data" ELSE "data2",
                     to |-> peer, src |-> serving.src, block |-> b]}
    /\ UNCHANGED <<senderVars, got, placeVars, diverted, peer, faults>>

(* SendData of another thread, the login's or a sender's: the answers that *)
(* are left go where it wrote to. While no request is handled this has no  *)
(* effect, as the next read sets the peer.                                 *)
OtherWrite(a) ==
    /\ serving # None /\ a \in {Server, Other} \ {peer}
    /\ MayFail
    /\ peer' = a /\ diverted' = diverted + 1
    /\ UNCHANGED <<senderVars, got, placeVars, serving, left, net, faults>>

-----------------------------------------------------------------------------
(* The server: CMsgHandler.                                                *)

(* Mutation: the peer is taken to be listed. *)
ForwardUnchecked(m) ==
    /\ m.kind = "get2" /\ m.to = Server
    /\ net' = (net \ {m}) \cup {[m EXCEPT !.from = Server, !.to = dir]}
    /\ UNCHANGED <<senderVars, got, placeVars, providerVars, faults>>

(* Mutation: the request goes to where the first one went. *)
ForwardToFirst(m) ==
    /\ m.kind = "get2" /\ m.to = Server
    /\ net' = (net \ {m}) \cup
              (IF dir = None THEN {}
               ELSE {[m EXCEPT !.from = Server, !.to = punched]})
    /\ UNCHANGED <<senderVars, got, placeVars, providerVars, faults>>

(* ProcMsgGetBlocks: the request goes to the address the list has now.     *)
ForwardRequest(m) ==
    /\ m.kind = "get2" /\ m.to = Server
    /\ net' = (net \ {m}) \cup
              (IF dir = None THEN {}
               ELSE {[m EXCEPT !.from = Server, !.to = dir]})
    /\ UNCHANGED <<senderVars, got, placeVars, providerVars, faults>>

(* ProcMsgFileBlockData: the block goes to the address it carries.         *)
ForwardData(m) ==
    /\ m.kind = "data2" /\ m.to = Server
    /\ net' = (net \ {m}) \cup {[m EXCEPT !.to = m.src]}
    /\ UNCHANGED <<senderVars, got, placeVars, providerVars, faults>>

-----------------------------------------------------------------------------
(* The network, the routers, and the logins of the two.                    *)

(* Nobody has the address, or who has it makes nothing of the message.     *)
Undeliverable(m) ==
    \/ m.to \in Requester \ {rNat} \/ m.to \in Providers \ {pNat}
    \/ m.to = Other \/ (m.to = Server /\ m.kind = "data")

Drop(m) ==
    /\ Undeliverable(m)
    /\ net' = net \ {m}
    /\ UNCHANGED <<senderVars, got, placeVars, providerVars, faults>>

Fault == MayFail /\ faults' = faults + 1

Lose(m) ==
    /\ ~Undeliverable(m) /\ Fault
    /\ net' = net \ {m}
    /\ UNCHANGED <<senderVars, got, placeVars, providerVars>>

MoveRequester ==
    /\ rNat[2] < MaxAddr /\ Fault
    /\ rNat' = [rNat EXCEPT ![2] = @ + 1]
    /\ UNCHANGED <<senderVars, got, rKnown, pNat, dir, providerVars, net>>

MoveProvider ==
    /\ pNat[2] < MaxAddr /\ Fault
    /\ pNat' = [pNat EXCEPT ![2] = @ + 1]
    /\ UNCHANGED <<senderVars, got, rNat, rKnown, dir, providerVars, net>>

(* The server restarts, or its sweep removes the provider.                 *)
Unlist ==
    /\ dir # None /\ Fault
    /\ dir' = None
    /\ UNCHANGED <<senderVars, got, rNat, rKnown, pNat, providerVars, net>>

(* Both log in again when they hear nothing; see Presence.                 *)
ProviderLogsIn ==
    /\ dir # pNat
    /\ dir' = pNat
    /\ UNCHANGED <<senderVars, got, rNat, rKnown, pNat, providerVars, net, faults>>

RequesterLogsIn ==
    /\ rKnown # rNat
    /\ rKnown' = rNat
    /\ UNCHANGED <<senderVars, got, rNat, pNat, dir, providerVars, net, faults>>

-----------------------------------------------------------------------------
Next ==
    \/ \E B \in Batch : Ask(B)
    \/ StartRelay
    \/ \E m \in net : \/ ProcMsgFileBlockData(m) \/ ProviderReads(m)
                      \/ ForwardRequest(m) \/ ForwardData(m)
                      \/ Drop(m) \/ Lose(m)
    \/ \E b \in Block : Serve(b)
    \/ \E a \in {Server, Other} : OtherWrite(a)
    \/ MoveRequester \/ MoveProvider \/ Unlist
    \/ ProviderLogsIn \/ RequesterLogsIn

Spec == Init /\ [][Next]_vars

-----------------------------------------------------------------------------
(* Fairness. Each block that is missing is asked for again and again, as   *)
(* the timeouts of Downloader see to, and a request for it that is sent    *)
(* again and again is read some time (strong fairness). The server, the    *)
(* reader threads and the login threads go on, and the network drops or    *)
(* delivers (weak fairness).                                               *)
AsksFor(b)  == b \notin got /\ \E B \in Batch : b \in B /\ Ask(B)
ReadsFor(b) == \E m \in Requests : b \in m.blocks /\ ProviderReads(m)
AnswerOf(b) == {m \in net \ Requests : m.block = b}

Fairness ==
    /\ \A b \in FileBlocks :
          /\ SF_vars(AsksFor(b)) /\ SF_vars(ReadsFor(b))
          /\ WF_vars(\E m \in AnswerOf(b) : ForwardData(m))
          /\ WF_vars(\E m \in AnswerOf(b) : ProcMsgFileBlockData(m))
    /\ WF_vars(\E m \in Requests : ProviderReads(m))
    /\ WF_vars(\E m \in Requests : ForwardRequest(m))
    /\ WF_vars(\E b \in Block : Serve(b))
    /\ WF_vars(\E m \in net : Drop(m))
    /\ WF_vars(ProviderLogsIn) /\ WF_vars(RequesterLogsIn)

FairSpec == Spec /\ Fairness

-----------------------------------------------------------------------------
(* Properties.                                                             *)

(* The type invariant.                                                     *)
TypeOK ==
    /\ relayed \in BOOLEAN /\ src \in IF relayed THEN Requester ELSE {None}
    /\ punched \in Providers
    /\ got \subseteq Block
    /\ rNat \in Requester /\ rKnown \in Requester
    /\ pNat \in Providers /\ dir \in Providers \cup {None}
    /\ serving \in Request \cup {None}
    /\ left \subseteq Block /\ (serving = None <=> left = {})
    /\ peer \in Address
    /\ net \subseteq Request \cup Answer
    /\ {diverted, faults} \subseteq 0..MaxFaults

(* As long as no thread wrote to the provider's socket while its reader    *)
(* answered a request, every answer goes to the client that asked or, if   *)
(* it is relayed, to the server first.                                     *)
OnlyToWhoAsked ==
    diverted = 0 =>
        \A m \in net \ Requests :
            m.to \in Requester \cup IF m.kind = "data2" THEN {Server} ELSE {}

(* Blocks that are asked for or on their way, as Downloader counts them.   *)
UnderWay == (FileBlocks \cap (left \cup UNION {m.blocks : m \in Requests}))
            \cup {m.block : m \in net \ Requests}

(* What Downloader takes for granted of the way to a provider and back:    *)
(* only a request puts blocks under way, of those it names the ones the    *)
(* file has, and only such a block arrives, though requests are forwarded, *)
(* overtaken, repeated, diverted and lost.                                 *)
BlocksComeOfRequests ==
    [][/\ got' \ got \subseteq UnderWay
       /\ UnderWay' \subseteq UnderWay
          \/ \E B \in Batch : Ask(B) /\ UnderWay' \subseteq UnderWay \cup B]_vars

Complete == FileBlocks \subseteq got

(* A direct transfer survives a new address of the requester, whose        *)
(* requests show the provider where to answer: all blocks arrive, unless   *)
(* the provider moves, whose punched address is never asked for again, or  *)
(* the sender goes over to relaying.                                       *)
DirectArrives == <>(Complete \/ relayed \/ pNat # punched)

(* A relayed transfer survives a new address of the provider and a restart *)
(* of the server, which looks the provider up for each request: all blocks *)
(* arrive, unless the requester's address is not, or no more, the one it   *)
(* took at the start.                                                      *)
RelayArrives == relayed ~> Complete \/ rNat # src
=============================================================================
