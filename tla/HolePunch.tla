------------------------------ MODULE HolePunch ------------------------------
(***************************************************************************)
(* How a sender's thread of one client reaches a provider behind a router. *)
(*                                                                         *)
(* A sender that does not know the provider asks the server for its        *)
(* address. It then writes to the provider directly, which makes its own   *)
(* router let the provider in, and asks the server to forward the request, *)
(* upon which the provider writes to the client, which opens the           *)
(* provider's router. The address this acknowledgement comes from is the   *)
(* one requests for blocks are sent to.                                    *)
(*                                                                         *)
(* The client's reader thread handles the answers: it adds, deletes and    *)
(* replaces entries of the list of peers, and sets the flags the senders   *)
(* wait on. It handles the requests of providers that download from this   *)
(* client, too, and fills in the address such a call comes from. Senders   *)
(* and reader share the one UDP socket, whose peer address is set by every *)
(* read and before every write.                                            *)
(*                                                                         *)
(* A thread is followed until a batch is sent: a later batch starts as the *)
(* batch of a thread that comes later does. Equal datagrams under way are  *)
(* one. A login is one step here, as the server's thread that deletes and  *)
(* adds the entry handles no request in between; Presence has its steps.   *)
(***************************************************************************)
EXTENDS Integers, Sequences

CONSTANTS
    Thread,       \* the senders' threads of the client
    Provider,     \* the providers, and their MAC addresses
    Target,       \* the provider each thread sends to
    Caller,       \* the providers that download from the client themselves
    MaxTry,       \* MAX_TRY_NUMBER
    MaxRounds,    \* how often a call tries to send (the 2 of the loop)
    MaxSendRetry, \* MAX_SEND_DATA_RETRY
    MaxAddr,      \* how many outside addresses a provider gets at most
    MaxFaults,    \* how much goes wrong at most
    None, Server

ASSUME HolePunchAssumption ==
    /\ Target \in [Thread -> Provider] /\ Caller \subseteq Provider
    /\ {MaxTry, MaxRounds, MaxAddr} \subseteq Nat \ {0}
    /\ {MaxSendRetry, MaxFaults} \subseteq Nat
    /\ None \notin Provider

Address == Provider \X (1..MaxAddr)

(* Nobody, the server and the providers' addresses are told apart.         *)
ASSUME HolePunchDistinct == None \notin Address \cup {Server} /\ Server \notin Address

(* Flags are named by the MAC address asked for, and by the address a      *)
(* connection is asked from (FORMAT_FLAG_GETCLIENTIP, FORMAT_FLAG_P2PCONN). *)
Flag == ({"ip"} \X (Provider \cup {None})) \cup ({"conn"} \X Address)

(* An entry of the list of peers; P2PAddr is None while it is empty. The   *)
(* answer about a client the server does not list is an empty entry.       *)
Info  == [mac : Provider, addr : Address]
Empty == [mac |-> None, addr |-> None]
Peer  == [mac : Provider \cup {None}, addr : Address \cup {None},
          p2p : Address \cup {None, Server}]

Request == [kind : {"getip", "connect"}, to : Address \cup {Server},
            mac : Provider]
           \cup [kind : {"forwarded"}, to : Address, mac : Provider]
Ack     == [kind : {"ipack"}, from : {Server}, info : Info \cup {Empty}]
           \cup [kind : {"connack"}, from : Address, info : Info]

(* A provider's own P2PCONNECT, written to the client or forwarded to it.  *)
Call    == [kind : {"call"}, from : Address \cup {Server}, info : Info]

VARIABLES
    users,    \* m_lstUser
    flags,    \* the names m_mapFlags maps to 1: absent and 0 are told apart nowhere
    peer,     \* the peer address of the client's socket
    rPc,      \* where the reader is
    rMsg,     \* the answer or call it handles
    th,       \* the threads: see Locals
    net,      \* datagrams under way
    opened,   \* providers the client has written to: its router lets them in
    wrote,    \* addresses that have written to the client: their routers let it in
    dir,      \* the server's list
    nat,      \* the outside address each provider has now
    known,    \* the last address of its m_peerInfo
    trouble,  \* losses, late answers, failed and misdirected sends so far
    muddles,  \* answers so far whose source was asked for too late
    shifts    \* moves and removals of providers so far

readerVars == <<rPc, rMsg>>
routerVars == <<opened, wrote>>
worldVars  == <<dir, nat, known, shifts>>
faultVars  == <<trouble, muddles>>
vars == <<users, flags, peer, readerVars, th, net, routerVars, worldVars,
          faultVars>>

(* Where a thread is, which round of SendMsg_P2PData_BaseMAC and which turn *)
(* of a waiting loop it is in, the address of the peer it points to, and   *)
(* how many calls in a row have failed (iRetry of P2PNoTrasmit).           *)
Locals == [pc : {"check", "connect", "lookup", "fetch", "data", "ask", "direct",
                 "relay", "asked", "relayed", "gone", "offer", "sent", "crashed"},
           round : 1..MaxRounds, try : 0..MaxTry,
           cur : Address \cup {None, Server}, fails : 0..MaxSendRetry]

(* Something else may go wrong.                                            *)
MayFail == trouble + muddles + shifts < MaxFaults

Init ==
    /\ users = <<>> /\ flags = {} /\ peer = Server
    /\ rPc = "idle" /\ rMsg = None
    /\ th = [t \in Thread |-> [pc |-> "check", round |-> 1, try |-> 0,
                              cur |-> None, fails |-> 0]]
    /\ net = {} /\ opened = {} /\ wrote = {}
    /\ nat = [p \in Provider |-> <<p, 1>>]
    /\ known = nat /\ dir = nat
    /\ trouble = 0 /\ muddles = 0 /\ shifts = 0

-----------------------------------------------------------------------------
(* The list of peers: PeerList.                                            *)

At(mac) == {i \in 1..Len(users) : users[i].mac = mac}
First(mac) == CHOOSE i \in At(mac) : \A j \in At(mac) : i <= j

Listed(mac) == At(mac) # {}

(* GetAPeer: the first entry with the MAC address.                         *)
GetAPeer(mac) == users[First(mac)]

(* DeleteAPeer.                                                            *)
Without(mac) ==
    IF ~Listed(mac) THEN users
    ELSE [i \in 1..(Len(users) - 1) |->
             IF i < First(mac) THEN users[i] ELSE users[i + 1]]

-----------------------------------------------------------------------------
(* A sender's thread: P2PNoTrasmit, SendMsg_P2PData_BaseMAC,               *)
(* SendMsg_P2PConnect and SendMsg_GetIPofMAC.                              *)

Become(t, locals) == th' = [th EXCEPT ![t] = locals]
Goto(t, place)    == th' = [th EXCEPT ![t].pc = place]

IpFlag(t)   == <<"ip", Target[t]>>
ConnFlag(t) == <<"conn", th[t].cur>>

(* A round, the first one when the thread has a batch: with a punched      *)
(* address at hand the request is sent, without one a hole is punched.     *)
Check(t) ==
    /\ th[t].pc = "check"
    /\ IF Listed(Target[t]) /\ GetAPeer(Target[t]).p2p # None
       THEN Become(t, [th[t] EXCEPT !.pc = "data", !.cur = GetAPeer(Target[t]).p2p])
       ELSE Goto(t, "connect")
    /\ UNCHANGED <<users, flags, peer, readerVars, net, routerVars,
                   worldVars, faultVars>>

(* The peer is found: the flag is named by its last address and reset.     *)
Announce(t) ==
    LET a == GetAPeer(Target[t]).addr
    IN  /\ Become(t, [th[t] EXCEPT !.pc = "direct", !.cur = a])
        /\ flags' = flags \ {<<"conn", a>>}

(* SendMsg_P2PConnect looks for the peer, and asks for it if need be.      *)
Connect(t) ==
    /\ th[t].pc = "connect"
    /\ IF Listed(Target[t]) THEN Announce(t)
       ELSE Goto(t, "lookup") /\ UNCHANGED flags
    /\ UNCHANGED <<users, peer, readerVars, net, routerVars, worldVars,
                   faultVars>>

(* SendMsg_GetIPofMAC looks again, and resets its flag before it asks.     *)
Lookup(t) ==
    /\ th[t].pc = "lookup"
    /\ IF Listed(Target[t])
       THEN Goto(t, "fetch") /\ UNCHANGED flags
       ELSE /\ Become(t, [th[t] EXCEPT !.pc = "ask", !.try = 1])
            /\ flags' = flags \ {IpFlag(t)}
    /\ UNCHANGED <<users, peer, readerVars, net, routerVars, worldVars,
                   faultVars>>

(* After the look-up the peer is taken to be there.                        *)
Fetch(t) ==
    /\ th[t].pc = "fetch"
    /\ IF Listed(Target[t]) THEN Announce(t)
       ELSE Goto(t, "crashed") /\ UNCHANGED flags
    /\ UNCHANGED <<users, peer, readerVars, net, routerVars, worldVars,
                   faultVars>>

-----------------------------------------------------------------------------
(* Sending: SendData.                                                      *)

(* A call ends.                                                            *)
Over(t, place, fails) ==
    Become(t, [th[t] EXCEPT !.pc = place, !.round = 1, !.try = 0,
                            !.cur = None, !.fails = fails])

(* What follows SendData.                                                  *)
AfterSend(t) ==
    CASE th[t].pc = "data"   -> Over(t, "sent", 0)
      [] th[t].pc = "ask"    -> Goto(t, "asked")
      [] th[t].pc = "direct" -> Become(t, [th[t] EXCEPT !.pc = "relay", !.try = 1])
      [] th[t].pc = "relay"  -> Goto(t, "relayed")

Sending(t) == th[t].pc \in {"data", "ask", "direct", "relay"}

Destination(t) == IF th[t].pc \in {"ask", "relay"} THEN Server ELSE th[t].cur

(* The provider whose answers the client's router lets in from then on.    *)
Reached(to) == IF to = Server THEN {} ELSE {to[1]}

(* What a request for blocks does where it arrives is not followed.        *)
Datagram(t, to) ==
    IF th[t].pc = "data" THEN {}
    ELSE {[kind |-> IF th[t].pc = "ask" THEN "getip" ELSE "connect",
           to |-> to, mac |-> Target[t]]}

(* The reader has yet to ask the socket where its datagram came from.      *)
WantsSource == rPc \in {"connack", "call", "called"}

(* Under the socket's lock the peer address is set and the datagram is     *)
(* written. If the reader has read a datagram it has yet to ask the source *)
(* of, that source is overwritten.                                         *)
Send(t) ==
    /\ Sending(t)
    /\ peer' = Destination(t)
    /\ IF WantsSource /\ peer' # peer THEN MayFail /\ muddles' = muddles + 1
                                     ELSE UNCHANGED muddles
    /\ net' = net \cup Datagram(t, peer')
    /\ opened' = opened \cup Reached(peer')
    /\ AfterSend(t)
    /\ UNCHANGED <<users, flags, readerVars, wrote, worldVars, trouble>>

(* The reader takes no lock: what it reads between the two redirects the   *)
(* datagram to where that came from.                                       *)
SendAstray(t, m) ==
    /\ Sending(t) /\ MayFail
    /\ rPc = "idle" /\ m \in Ack \cup Call /\ m.from # Destination(t)
    /\ peer' = m.from
    /\ rMsg' = m /\ rPc' = m.kind
    /\ net' = (net \ {m}) \cup Datagram(t, m.from)
    /\ opened' = opened \cup Reached(m.from)
    /\ trouble' = trouble + 1
    /\ AfterSend(t)
    /\ UNCHANGED <<users, flags, wrote, worldVars, muddles>>

(* The call has punched, or failed to: another round, or FALSE, which the  *)
(* sender puts up with MaxSendRetry times before it asks the user whether  *)
(* to go through the server.                                               *)
NextRound(t) ==
    IF th[t].round < MaxRounds
    THEN Become(t, [th[t] EXCEPT !.pc = "check", !.round = @ + 1, !.try = 0, !.cur = None])
    ELSE IF th[t].fails < MaxSendRetry THEN Over(t, "check", th[t].fails + 1)
    ELSE Over(t, "offer", 0)

(* Mutation: there is no second try. *)
NextTryNone(t) ==
    IF th[t].pc \in {"ask", "asked"} THEN Over(t, "gone", 0) ELSE NextRound(t)

(* Mutation: there is one try too many. *)
NextTryLate(t) ==
    IF th[t].try <= MaxTry
    THEN Become(t, [th[t] EXCEPT !.try = @ + 1,
                       !.pc = IF @ \in {"ask", "asked"} THEN "ask" ELSE "relay"])
    ELSE IF th[t].pc \in {"ask", "asked"} THEN Over(t, "gone", 0)
    ELSE NextRound(t)

(* The next turn of a loop that waits for an answer. After the last the    *)
(* look-up ends the thread (ExitThread), the punch returns FALSE.          *)
NextTry(t) ==
    IF th[t].try < MaxTry
    THEN Become(t, [th[t] EXCEPT !.try = @ + 1,
                       !.pc = IF @ \in {"ask", "asked"} THEN "ask" ELSE "relay"])
    ELSE IF th[t].pc \in {"ask", "asked"} THEN Over(t, "gone", 0)
    ELSE NextRound(t)

(* Nothing can be sent: a request for blocks gives way to a new punch, the *)
(* loops go on without waiting.                                            *)
SendFails(t) ==
    /\ Sending(t) /\ MayFail
    /\ trouble' = trouble + 1
    /\ CASE th[t].pc = "data"   -> Goto(t, "connect")
         [] th[t].pc = "direct" -> AfterSend(t)
         [] OTHER               -> NextTry(t)
    /\ UNCHANGED <<users, flags, peer, readerVars, net, routerVars, worldVars,
                   muddles>>

-----------------------------------------------------------------------------
(* Waiting: CFlagMgr.                                                      *)

Awaited(t) == IF th[t].pc = "asked" THEN IpFlag(t) ELSE ConnFlag(t)

(* The flag is 1: it is removed. The address is at hand then; after a      *)
(* punch the next round looks for it, if there is one.                     *)
Answer(t) ==
    /\ th[t].pc \in {"asked", "relayed"}
    /\ Awaited(t) \in flags
    /\ flags' = flags \ {Awaited(t)}
    /\ IF th[t].pc = "asked" THEN Goto(t, "fetch") ELSE NextRound(t)
    /\ UNCHANGED <<users, peer, readerVars, net, routerVars, worldVars,
                   faultVars>>

(* No question of a thread's and no answer is under way.                   *)
Quiet == net \subseteq Call /\ rPc \in {"idle", "call", "called"}

(* Two seconds are over. If one is under way by then it was slow.          *)
TimeOut(t) ==
    /\ th[t].pc \in {"asked", "relayed"}
    /\ Awaited(t) \notin flags
    /\ ~Quiet => MayFail
    /\ trouble' = IF Quiet THEN trouble ELSE trouble + 1
    /\ NextTry(t)
    /\ UNCHANGED <<users, flags, peer, readerVars, net, routerVars,
                   worldVars, muddles>>

-----------------------------------------------------------------------------
(* The reader: ServerEX::run and the handlers of the two answers and of a  *)
(* provider's call.                                                        *)

(* The client's router lets in who was written to, whatever his port.      *)
LetIn(from) == from = Server \/ from[1] \in opened

(* A datagram is read; the socket then points to where it came from.       *)
Read(m) ==
    /\ rPc = "idle" /\ m \in Ack \cup Call
    /\ net' = net \ {m}
    /\ peer' = m.from
    /\ rMsg' = m /\ rPc' = m.kind
    /\ UNCHANGED <<users, flags, th, routerVars, worldVars, faultVars>>

NewPeer(info, p2p) == [mac |-> info.mac, addr |-> info.addr, p2p |-> p2p]

(* Mutation: the flag is set before the peer is in the list. *)
GetUserClientAckFlagFirst ==
    /\ rPc = "ipack"
    /\ flags' = flags \cup {<<"ip", rMsg.info.mac>>}
    /\ rPc' = "add"
    /\ rMsg' = [rMsg EXCEPT !.info = NewPeer(@, None)]
    /\ UNCHANGED <<users, peer, th, net, routerVars, worldVars,
                   faultVars>>

(* ProcMsgGetUserClientAck: the answer is added, whatever is there.        *)
ProcMsgGetUserClientAck ==
    /\ rPc = "ipack"
    /\ users' = Append(users, NewPeer(rMsg.info, None))
    /\ rPc' = "flag"
    /\ UNCHANGED <<flags, peer, rMsg, th, net, routerVars, worldVars,
                   faultVars>>

(* ProcMsgP2PConnectAck, up to DeleteAPeer: the punched address is what the *)
(* socket points to. The peer is taken to be listed.                       *)
ProcMsgP2PConnectAck ==
    /\ rPc = "connack"
    /\ LET mac == rMsg.info.mac
       IN  IF ~Listed(mac) THEN rPc' = "crashed" /\ UNCHANGED <<users, rMsg>>
           ELSE IF GetAPeer(mac).p2p = peer
                THEN rPc' = "flag" /\ UNCHANGED <<users, rMsg>>
                ELSE /\ users' = Without(mac)
                     /\ rMsg' = [rMsg EXCEPT !.info = NewPeer(@, peer)]
                     /\ rPc' = "add"
    /\ UNCHANGED <<flags, peer, th, net, routerVars, worldVars,
                   faultVars>>

(* AddPeer puts the entry at the end.                                      *)
AddPeer ==
    /\ rPc = "add"
    /\ users' = Append(users, rMsg.info)
    /\ rPc' = "flag"
    /\ UNCHANGED <<flags, peer, rMsg, th, net, routerVars, worldVars,
                   faultVars>>

(* The flag of the answer is set: it is named by the address the answer    *)
(* carries, not by the one the request was sent to.                        *)
SetFlag ==
    /\ rPc = "flag"
    /\ flags' = flags \cup {IF rMsg.kind = "ipack" THEN <<"ip", rMsg.info.mac>>
                                                   ELSE <<"conn", rMsg.info.addr>>}
    /\ rPc' = "idle" /\ rMsg' = None
    /\ UNCHANGED <<users, peer, th, net, routerVars, worldVars,
                   faultVars>>

(* Mutation: a forwarded call is taken for a direct one. *)
TakeCallUntested ==
    /\ rPc = "call"
    /\ rPc' = "called"
    /\ UNCHANGED <<users, flags, peer, rMsg, th, net, routerVars, worldVars,
                   faultVars>>

(* ProcMsgP2PConnect: the socket tells a call that was forwarded, which is *)
(* acknowledged to the address it carries, from one that comes directly.   *)
TakeCall ==
    /\ rPc = "call"
    /\ IF peer = Server
       THEN /\ peer' = rMsg.info.addr
            /\ opened' \in {opened, opened \cup Reached(peer')}
            /\ rPc' = "idle" /\ rMsg' = None
       ELSE /\ rPc' = "called"
            /\ UNCHANGED <<peer, rMsg, opened>>
    /\ UNCHANGED <<users, flags, th, net, wrote, worldVars, faultVars>>

(* What the socket points to now is the caller's punched address, if he is *)
(* listed without one, and is written to. (That write may fail, or go      *)
(* where a thread has just written.)                                       *)
AnswerCall ==
    /\ rPc = "called"
    /\ users' = LET mac == rMsg.info.mac
                IN  IF Listed(mac) /\ GetAPeer(mac).p2p = None
                    THEN [users EXCEPT ![First(mac)].p2p = peer]
                    ELSE users
    /\ opened' \in {opened, opened \cup Reached(peer)}
    /\ rPc' = "idle" /\ rMsg' = None
    /\ UNCHANGED <<flags, peer, th, net, wrote, worldVars, faultVars>>

-----------------------------------------------------------------------------
(* The server and the providers.                                           *)

Reply(m, msgs) == net' = (net \ {m}) \cup msgs

(* ProcGetUserClientIP: what the list has, or an empty answer.             *)
ProcGetUserClientIP(m) ==
    /\ m.kind = "getip" /\ m.to = Server
    /\ Reply(m, {[kind |-> "ipack", from |-> Server,
                  info |-> IF dir[m.mac] = None THEN Empty
                           ELSE [mac |-> m.mac, addr |-> dir[m.mac]]]})
    /\ UNCHANGED <<users, flags, peer, readerVars, th, routerVars,
                   worldVars, faultVars>>

(* ProcP2PConnectMsg: forwarded to the provider, if that is listed.        *)
ProcP2PConnectMsg(m) ==
    /\ m.kind = "connect" /\ m.to = Server
    /\ Reply(m, IF dir[m.mac] = None THEN {}
                ELSE {[kind |-> "forwarded", to |-> dir[m.mac], mac |-> m.mac]})
    /\ UNCHANGED <<users, flags, peer, readerVars, th, routerVars,
                   worldVars, faultVars>>

(* ProcMsgP2PConnect at the provider that has the address: the request is  *)
(* acknowledged to the client.                                             *)
ProcMsgP2PConnect(p, m) ==
    /\ m.kind \in {"connect", "forwarded"} /\ m.to = nat[p]
    /\ Reply(m, {[kind |-> "connack", from |-> nat[p],
                  info |-> [mac |-> p, addr |-> known[p]]]})
    /\ wrote' = wrote \cup {nat[p]}
    /\ UNCHANGED <<users, flags, peer, readerVars, th, opened, worldVars,
                   faultVars>>

(* The provider downloads from this client: its request comes directly, or *)
(* by way of the server.                                                   *)
CallClient(p) ==
    /\ p \in Caller
    /\ \E from \in {nat[p], Server} :
          /\ net' = net \cup {[kind |-> "call", from |-> from,
                               info |-> [mac |-> p, addr |-> known[p]]]}
          /\ wrote' = wrote \cup ({from} \ {Server})
    /\ UNCHANGED <<users, flags, peer, readerVars, th, opened, worldVars,
                   faultVars>>

(* Nobody need take it: a router may keep it out, nobody has the address,  *)
(* or the one who has it does not know the message.                        *)
Undeliverable(m) ==
    \/ m \in Ack \cup Call /\ ~LetIn(m.from)
    \/ m \in Request /\ m.to # Server
       /\ \/ m.to # nat[m.to[1]] \/ m.kind = "getip"
          \/ m.kind = "connect" /\ m.to \notin wrote

Drop(m) ==
    /\ Undeliverable(m)
    /\ net' = net \ {m}
    /\ UNCHANGED <<users, flags, peer, readerVars, th, routerVars,
                   worldVars, faultVars>>

Lose(m) ==
    /\ ~Undeliverable(m)
    /\ MayFail
    /\ trouble' = trouble + 1
    /\ net' = net \ {m}
    /\ UNCHANGED <<users, flags, peer, readerVars, th, routerVars,
                   worldVars, muddles>>

(* A provider gets a new outside address; the server learns it, and it     *)
(* from the server, when it logs in again.                                 *)
Move(p) ==
    /\ MayFail /\ nat[p][2] < MaxAddr
    /\ shifts' = shifts + 1
    /\ nat' = [nat EXCEPT ![p][2] = @ + 1]
    /\ UNCHANGED <<users, flags, peer, readerVars, th, net, routerVars,
                   dir, known, faultVars>>

(* It falls silent, and the server's sweep removes it.                     *)
Unlist(p) ==
    /\ dir[p] # None /\ MayFail
    /\ shifts' = shifts + 1
    /\ dir' = [dir EXCEPT ![p] = None]
    /\ UNCHANGED <<users, flags, peer, readerVars, th, net, routerVars,
                   nat, known, faultVars>>

LogIn(p) ==
    /\ dir[p] # nat[p]
    /\ dir' = [dir EXCEPT ![p] = nat[p]]
    /\ known' = [known EXCEPT ![p] = nat[p]]
    /\ UNCHANGED <<users, flags, peer, readerVars, th, net, routerVars,
                   nat, shifts, faultVars>>

-----------------------------------------------------------------------------
Step(t) == Check(t) \/ Connect(t) \/ Lookup(t) \/ Fetch(t)
           \/ Send(t) \/ SendFails(t) \/ Answer(t) \/ TimeOut(t)
           \/ \E m \in net : SendAstray(t, m)

Reader ==
    \/ \E m \in net : Read(m)
    \/ ProcMsgGetUserClientAck \/ ProcMsgP2PConnectAck \/ AddPeer \/ SetFlag
    \/ TakeCall \/ AnswerCall

World ==
    \/ \E m \in net : ProcGetUserClientIP(m) \/ ProcP2PConnectMsg(m)
                      \/ Drop(m) \/ Lose(m)
    \/ \E p \in Provider :
          \/ \E m \in net : ProcMsgP2PConnect(p, m)
          \/ CallClient(p) \/ Move(p) \/ Unlist(p) \/ LogIn(p)

(* The program ends when it follows a pointer to no peer.                  *)
Crashed == rPc = "crashed" \/ \E t \in Thread : th[t].pc = "crashed"

Next == ~Crashed /\ ((\E t \in Thread : Step(t)) \/ Reader \/ World)

Spec == Init /\ [][Next]_vars

-----------------------------------------------------------------------------
(* Properties.                                                             *)

(* The type invariant.                                                     *)
TypeOK ==
    /\ users \in Seq(Peer)
    /\ flags \subseteq Flag
    /\ peer \in Address \cup {Server}
    /\ rPc \in {"idle", "ipack", "connack", "add", "flag", "call", "called", "crashed"}
    /\ th \in [Thread -> Locals]
    /\ net \subseteq Request \cup Ack \cup Call
    /\ opened \subseteq Provider /\ wrote \subseteq Address
    /\ dir \in [Provider -> Address \cup {None}]
    /\ nat \in [Provider -> Address] /\ known \in [Provider -> Address]
    /\ {trouble, muddles, shifts} \subseteq 0..MaxFaults

(* The reader is between the DeleteAPeer and the AddPeer of the peer.      *)
Replacing(mac) == rPc = "add" /\ rMsg.kind = "connack" /\ rMsg.info.mac = mac

(* A flag that is 1 tells the truth, whichever thread's request it answers *)
(* and however late: the peer asked for is listed, or a punched address of *)
(* the peer is; at worst the reader is just replacing the entry.           *)
FlagsTellTheTruth ==
    /\ \A p \in Provider :
          <<"ip", p>> \in flags => Listed(p) \/ Replacing(p)
    /\ \A a \in Address :
          <<"conn", a>> \in flags =>
              (\E i \in At(a[1]) : users[i].p2p # None) \/ Replacing(a[1])

(* The pointers GetAPeer returns are used unchecked. A thread finds the    *)
(* peer it has just been told of, except while the reader replaces that    *)
(* entry. The reader finds the peer that acknowledges, unless a request    *)
(* went astray to a provider that was calling and is not listed.           *)
NullOnlyInGap ==
    /\ \A t \in Thread : th[t].pc = "crashed" => Replacing(Target[t])
    /\ rPc = "crashed" => rMsg.info.mac \in Caller /\ trouble > 0

(* As long as no thread's write came between the reader's read and its     *)
(* question for the source, requests for blocks are sent to an address     *)
(* that the peer itself has written to the client from, whether it was     *)
(* taken from an acknowledgement or from a call of the peer's own.         *)
PunchedAddressIsPeers ==
    muddles = 0 =>
        \A i \in 1..Len(users) :
            users[i].p2p # None => /\ users[i].p2p \in wrote
                                   /\ users[i].p2p[1] = users[i].mac

(* Threads remove each other's flags and add each other's peers. Still    *)
(* neither of two that share a provider gives up on it while it stays      *)
(* where it is, or offers the way through the server, unless something     *)
(* went wrong. (HolePunchPairProofs has the proof. Not so of three: see    *)
(* finding 8 of the README.)                                               *)
GivesUpOnlyAfterFaults ==
    \A t \in Thread :
        th[t].pc \in {"gone", "offer"} /\ shifts = 0 => trouble + muddles > 0
=============================================================================
