------------------------------ MODULE Presence ------------------------------
(***************************************************************************)
(* Who is online: the list of clients the server keeps, and how a client   *)
(* gets into it and stays there.                                           *)
(*                                                                         *)
(* The server has two threads. The reader reads one datagram at a time and *)
(* handles it; the sweep wakes every 15 s, removes the entries that have   *)
(* not been active for 15.6 s and queries the others. They share the list, *)
(* of which each operation locks but the pointers and indices kept between *)
(* operations do not, and one UDP socket, whose peer address is set by     *)
(* every read and before every write.                                      *)
(*                                                                         *)
(* A client logs in when it has heard nothing from the server for 15 s,    *)
(* and answers queries. Its login thread waits for the acknowledgement.    *)
(*                                                                         *)
(* Time is counted in sweeps: the age of a time stamp is the number of     *)
(* sweeps that started since; Old stands for all larger numbers too.       *)
(***************************************************************************)
EXTENDS Integers, Sequences, FiniteSets

CONSTANTS
    Client,       \* the client machines, and their MAC addresses
    OnServerLan,  \* clients the server sees under their local address
    MaxTry,       \* MAX_TRY_NUMBER
    MaxNat,       \* how many outside addresses a client gets at most
    MaxFaults,    \* crashes, restarts of the server and new addresses at most
    MaxNet,       \* datagrams under way at most; further ones are lost
    SlowSweep     \* TRUE if a sweep may take more than 600 ms

ASSUME PresenceAssumption ==
    /\ IsFiniteSet(Client)
    /\ OnServerLan \subseteq Client
    /\ MaxTry \in Nat \ {0} /\ MaxNat \in Nat \ {0}
    /\ MaxFaults \in Nat /\ MaxNet \in Nat
    /\ SlowSweep \in BOOLEAN

Old == 2

Address == Client \X (0..MaxNat)      \* <<c, 0>> is the local address of c

Ages == 0..Old

PeerInfo == [mac : Client, addr : Address, age : Ages]

Message == [type : {"login"}, from : Address, info : PeerInfo]
           \cup [type : {"ack"}, to : Address, info : PeerInfo]
           \cup [type : {"query"}, to : Address]
           \cup [type : {"active"}, from : Address, mac : Client]

VARIABLES
    list,      \* m_lstOnlineUser: the last address and active time of each
    peer,      \* the peer address of the server's socket
    mPc,       \* where the sweep is
    mI, mN,    \* its index and the list size it started with
    mCur,      \* the entry it points to, and whether that was freed
    disturbed, \* a login came while the sweep was under way
    rPc,       \* where the reader is
    rMsg,      \* the login it handles
    rIp,       \* the address it took the login to come from
    net,       \* datagrams under way
    up,        \* clients that run
    info,      \* m_peerInfo of each client
    heard,     \* the age of m_dwLastActiveTime of each client
    tries,     \* login messages its login thread waits for an answer to
    nat,       \* the outside address each client has now
    faults     \* how many crashes, restarts and new addresses there were

sweepVars  == <<mPc, mI, mN, mCur, disturbed>>
readerVars == <<rPc, rMsg, rIp>>
clientVars == <<up, info, heard, tries>>
faultVars  == <<nat, faults>>
vars == <<list, peer, sweepVars, readerVars, net, clientVars, faultVars>>

Outside(c) == <<c, IF c \in OnServerLan THEN 0 ELSE nat[c]>>

Older(age) == IF age < Old THEN age + 1 ELSE Old

Macs == {list[i].mac : i \in 1..Len(list)}

(* DeleteAPeer: the first entry with the MAC address goes.                 *)
Without(l, mac) ==
    LET at == {i \in 1..Len(l) : l[i].mac = mac}
        k  == CHOOSE i \in at : \A j \in at : i <= j
    IN  IF at = {} THEN l
        ELSE [i \in 1..(Len(l) - 1) |-> IF i < k THEN l[i] ELSE l[i + 1]]

(* A datagram is sent; it is lost at once when too many are under way.     *)
Send(m, kept) ==
    net' = IF Cardinality(kept) < MaxNet THEN kept \cup {m} ELSE kept

LoginFrom(c) == [type |-> "login", from |-> Outside(c), info |-> info[c]]

(* A new Peer_Info: the local address, and an active time of 0.            *)
NewInfo(c) == [mac |-> c, addr |-> <<c, 0>>, age |-> Old]

(* The locals of the threads when nothing is in hand.                      *)
Nothing == [none |-> TRUE]

Init ==
    /\ list = <<>>
    /\ peer \in {<<c, 0>> : c \in Client}
    /\ mPc = "sleep" /\ mI = 1 /\ mN = 0
    /\ mCur = Nothing
    /\ disturbed = FALSE
    /\ rPc = "idle" /\ rMsg = Nothing /\ rIp = <<>>
    /\ net = {}
    /\ up = Client
    /\ info = [c \in Client |-> NewInfo(c)]
    /\ heard = [c \in Client |-> Old]
    /\ tries = [c \in Client |-> 0]
    /\ nat = [c \in Client |-> 1]
    /\ faults = 0

-----------------------------------------------------------------------------
(* The sweep: master_service::run and CMsgHandler::MaintainUserlist.       *)

(* 15 s are over: the sweep takes the time, by which everything is older,  *)
(* and the size of the list.                                               *)
SweepStart ==
    /\ mPc = "sleep"
    /\ mPc' = "look" /\ mI' = 1 /\ mN' = Len(list) /\ disturbed' = FALSE
    /\ list' = [i \in 1..Len(list) |-> [list[i] EXCEPT !.age = Older(@)]]
    /\ rMsg' = IF rPc = "idle" THEN rMsg ELSE [rMsg EXCEPT !.age = Older(@)]
    /\ net' = {IF m.type \in {"login", "ack"}
               THEN [m EXCEPT !.info.age = Older(@)] ELSE m : m \in net}
    /\ info' = [c \in Client |-> [info[c] EXCEPT !.age = Older(@)]]
    /\ heard' = [c \in Client |-> Older(heard[c])]
    /\ UNCHANGED <<peer, mCur, rPc, rIp, up, tries, faultVars>>

(* Mutation: the difference is compared as a signed number. *)
StaleNever(age) == {FALSE}

(* What dwTick - dwActiveTime >= 15600 can yield: TRUE for an entry last   *)
(* active before the previous sweep took the time, and FALSE for one active *)
(* since, unless the sweep was slow. For one active after this sweep took  *)
(* the time the unsigned difference wraps, if the tick is another by then.  *)
Stale(age) ==
    CASE age = 0 -> BOOLEAN
      [] age = 1 -> IF SlowSweep THEN BOOLEAN ELSE {FALSE}
      [] age = Old -> {TRUE}

(* Mutation: the loop runs one index too far. *)
SweepEndsLate == mI > mN + 1

SweepEnds == mI > mN

(* The sweep fetches the entry at its index and tests its age.             *)
Look ==
    /\ mPc = "look"
    /\ IF SweepEnds
       THEN mPc' = "sleep" /\ mI' = 1 /\ mN' = 0 /\ UNCHANGED mCur
       ELSE IF mI > Len(list)
       THEN mI' = mI + 1 /\ UNCHANGED <<mPc, mN, mCur>>
       ELSE /\ mCur' = [mac |-> list[mI].mac, addr |-> list[mI].addr,
                        freed |-> FALSE]
            /\ \E stale \in Stale(list[mI].age) :
                  mPc' = IF stale THEN "delete" ELSE "query"
            /\ UNCHANGED <<mI, mN>>
    /\ UNCHANGED <<list, peer, disturbed, readerVars, net, clientVars,
                   faultVars>>

(* Mutation: the index is advanced past the entry that moved up. *)
SweepDeleteSkips ==
    /\ mPc = "delete"
    /\ list' = Without(list, mCur.mac)
    /\ mPc' = "look" /\ mI' = mI + 1 /\ mCur' = Nothing
    /\ UNCHANGED <<peer, mN, disturbed, readerVars, net, clientVars,
                   faultVars>>

(* The stale entry is deleted by its MAC address, which the next entry's   *)
(* place makes up for by leaving the index. A freed entry may still show   *)
(* the address, or none that is in the list.                               *)
SweepDelete ==
    /\ mPc = "delete"
    /\ list' \in {Without(list, mCur.mac)} \cup (IF mCur.freed THEN {list} ELSE {})
    /\ mPc' = "look" /\ mCur' = Nothing
    /\ UNCHANGED <<peer, mI, mN, disturbed, readerVars, net, clientVars,
                   faultVars>>

(* SendData, first half: the socket's lock and the peer address.           *)
SweepSetPeer ==
    /\ mPc = "query"
    /\ peer' = mCur.addr
    /\ mPc' = "write"
    /\ UNCHANGED <<list, mI, mN, mCur, disturbed, readerVars, net, clientVars,
                   faultVars>>

(* Its second half: the query goes where the socket points by now. A freed *)
(* entry's address may have been unusable, and nothing is sent.            *)
SweepWrite ==
    /\ mPc = "write"
    /\ \/ Send([type |-> "query", to |-> peer], net)
       \/ mCur.freed /\ UNCHANGED net
    /\ mPc' = "look" /\ mI' = mI + 1 /\ mCur' = Nothing
    /\ UNCHANGED <<list, peer, mN, disturbed, readerVars, clientVars,
                   faultVars>>

-----------------------------------------------------------------------------
(* The reader: master_service::on_read and the handlers it calls.          *)

ReadLogin(m) ==
    /\ rPc = "idle"
    /\ m.type = "login"
    /\ net' = net \ {m}
    /\ peer' = m.from
    /\ rMsg' = m.info
    /\ rPc' = "login"
    /\ UNCHANGED <<list, sweepVars, rIp, clientVars, faultVars>>

(* A client says it is alive: the entry of its MAC address is active now.  *)
ReadActive(m) ==
    /\ rPc = "idle"
    /\ m.type = "active"
    /\ net' = net \ {m}
    /\ peer' = m.from
    /\ list' = [i \in 1..Len(list) |->
                  IF list[i].mac = m.mac THEN [list[i] EXCEPT !.age = 0]
                                         ELSE list[i]]
    /\ UNCHANGED <<sweepVars, readerVars, clientVars, faultVars>>

(* The login is taken to come from the socket's peer address. Only if that *)
(* is not the last address the client gives is it added, and the time set. *)
LoginAddress(ip) ==
    rMsg' = IF ip = rMsg.addr THEN rMsg
                              ELSE [rMsg EXCEPT !.addr = ip, !.age = 0]

(* Mutation: the old entry stays. *)
LoginDeleteNot ==
    /\ rPc = "login"
    /\ rIp' = peer
    /\ LoginAddress(peer)
    /\ rPc' = "add"
    /\ UNCHANGED <<list, peer, sweepVars, net, clientVars, faultVars>>

(* ProcUserLoginMsg, up to DeleteAPeer: an entry with the MAC address goes, *)
(* also if the sweep points to it.                                         *)
LoginDelete ==
    /\ rPc = "login"
    /\ rIp' = peer
    /\ LoginAddress(peer)
    /\ list' = Without(list, rMsg.mac)
    /\ mCur' = IF mCur # Nothing /\ mCur.mac = rMsg.mac
               THEN [mCur EXCEPT !.freed = TRUE] ELSE mCur
    /\ disturbed' = TRUE
    /\ rPc' = "add"
    /\ UNCHANGED <<peer, mPc, mI, mN, net, clientVars, faultVars>>

(* The entry is added, and the acknowledgement returns it to where the     *)
(* login was taken to come from. The sweep's SendData keeps it waiting.    *)
LoginAdd ==
    /\ rPc = "add"
    /\ mPc # "write"
    /\ list' = Append(list, rMsg)
    /\ disturbed' = TRUE
    /\ peer' = rIp
    /\ Send([type |-> "ack", to |-> rIp, info |-> rMsg], net)
    /\ rPc' = "idle" /\ rMsg' = Nothing /\ rIp' = <<>>
    /\ UNCHANGED <<mPc, mI, mN, mCur, clientVars, faultVars>>

-----------------------------------------------------------------------------
(* The clients: CAutoLogin and ServerEX.                                   *)

(* DoLogin: nothing was heard for 15 s, which is certain after two sweeps  *)
(* and possible after one.                                                 *)
DoLogin(c) ==
    /\ c \in up /\ tries[c] = 0
    /\ heard[c] >= 1
    /\ tries' = [tries EXCEPT ![c] = 1]
    /\ Send(LoginFrom(c), net)
    /\ UNCHANGED <<list, peer, sweepVars, readerVars, up, info, heard,
                   faultVars>>

(* No answer came: the login is sent once more.                            *)
Retry(c) ==
    /\ c \in up /\ tries[c] \in 1..(MaxTry - 1)
    /\ tries' = [tries EXCEPT ![c] = @ + 1]
    /\ Send(LoginFrom(c), net)
    /\ UNCHANGED <<list, peer, sweepVars, readerVars, up, info, heard,
                   faultVars>>

(* Mutation: the login thread does not come back after an error. *)
GiveUpForGood(c) ==
    /\ c \in up /\ tries[c] = MaxTry
    /\ UNCHANGED vars

(* No answer came again: the user confirms the error message.              *)
GiveUp(c) ==
    /\ c \in up /\ tries[c] = MaxTry
    /\ tries' = [tries EXCEPT ![c] = 0]
    /\ UNCHANGED <<list, peer, sweepVars, readerVars, net, up, info, heard,
                   faultVars>>

(* The acknowledgement replaces what the client knows of itself.           *)
ReceiveAck(c, m) ==
    /\ c \in up /\ m.type = "ack" /\ m.to = Outside(c)
    /\ net' = net \ {m}
    /\ info' = [info EXCEPT ![c] = m.info]
    /\ heard' = [heard EXCEPT ![c] = 0]
    /\ tries' = [tries EXCEPT ![c] = 0]
    /\ UNCHANGED <<list, peer, sweepVars, readerVars, up, faultVars>>

ReceiveQuery(c, m) ==
    /\ c \in up /\ m.type = "query" /\ m.to = Outside(c)
    /\ heard' = [heard EXCEPT ![c] = 0]
    /\ Send([type |-> "active", from |-> Outside(c), mac |-> info[c].mac],
            net \ {m})
    /\ UNCHANGED <<list, peer, sweepVars, readerVars, up, info, tries,
                   faultVars>>

-----------------------------------------------------------------------------
(* Faults.                                                                 *)

Lose(m) ==
    /\ net' = net \ {m}
    /\ UNCHANGED <<list, peer, sweepVars, readerVars, clientVars, faultVars>>

Fault == faults < MaxFaults /\ faults' = faults + 1

(* The router maps the client's port anew.                                 *)
NatChange(c) ==
    /\ c \in up /\ nat[c] < MaxNat
    /\ Fault
    /\ nat' = [nat EXCEPT ![c] = @ + 1]
    /\ UNCHANGED <<list, peer, sweepVars, readerVars, net, clientVars>>

(* There is no logout: a client that ends just falls silent.               *)
Crash(c) ==
    /\ c \in up
    /\ Fault
    /\ up' = up \ {c}
    /\ UNCHANGED <<list, peer, sweepVars, readerVars, net, info, heard, tries,
                   nat>>

Start(c) ==
    /\ c \notin up
    /\ up' = up \cup {c}
    /\ info' = [info EXCEPT ![c] = NewInfo(c)]
    /\ heard' = [heard EXCEPT ![c] = Old]
    /\ tries' = [tries EXCEPT ![c] = 0]
    /\ UNCHANGED <<list, peer, sweepVars, readerVars, net, faultVars>>

(* The server's list is in memory only.                                    *)
ServerRestart ==
    /\ Fault
    /\ list' = <<>>
    /\ mPc' = "sleep" /\ mI' = 1 /\ mN' = 0 /\ mCur' = Nothing
    /\ rPc' = "idle" /\ rMsg' = Nothing /\ rIp' = <<>>
    /\ UNCHANGED <<peer, disturbed, net, clientVars, nat>>

-----------------------------------------------------------------------------
Sweep == SweepStart \/ Look \/ SweepDelete \/ SweepSetPeer \/ SweepWrite

Reader ==
    \/ \E m \in net : ReadLogin(m) \/ ReadActive(m)
    \/ LoginDelete \/ LoginAdd

Login(c) == DoLogin(c) \/ Retry(c) \/ GiveUp(c)

Receive(c) == \E m \in net : ReceiveAck(c, m) \/ ReceiveQuery(c, m)

Next ==
    \/ Sweep
    \/ Reader
    \/ \E c \in Client :
          Login(c) \/ Receive(c) \/ NatChange(c) \/ Crash(c) \/ Start(c)
    \/ \E m \in net : Lose(m)
    \/ ServerRestart

Spec == Init /\ [][Next]_vars

-----------------------------------------------------------------------------
(* Fairness. The threads of the server and of the running clients go on,   *)
(* and so does the user who is shown an error (weak fairness). What a      *)
(* client can take reaches it or is lost, and what nobody can take does    *)
(* not stay under way for ever. A login that is sent again and again is    *)
(* read some time (strong fairness).                                       *)
ReadsLoginOf(c) == \E m \in net : m.type = "login" /\ m.from[1] = c /\ ReadLogin(m)

ToNobody(m) == m.type \in {"ack", "query"} /\ \A c \in up : m.to # Outside(c)

Fairness ==
    /\ WF_vars(Sweep)
    /\ WF_vars(Reader)
    /\ \A c \in Client :
          /\ WF_vars(heard[c] = Old /\ DoLogin(c))
          /\ WF_vars(Retry(c) \/ GiveUp(c))
          /\ WF_vars(Receive(c))
          /\ SF_vars(ReadsLoginOf(c))
    /\ WF_vars(\E m \in net : ToNobody(m) /\ Lose(m))

FairSpec == Spec /\ Fairness

-----------------------------------------------------------------------------
(* Properties.                                                             *)

LiveMacs == {info[c].mac : c \in up}

(* Every variable has its type; the sweep's index stays within its loop.   *)
TypeOK ==
    /\ list \in Seq(PeerInfo)
    /\ peer \in Address
    /\ mPc \in {"sleep", "look", "delete", "query", "write"}
    /\ mN \in Nat /\ mI \in 1..(mN + 1)
    /\ mCur \in IF mPc \in {"sleep", "look"} THEN {Nothing}
               ELSE [mac : Client, addr : Address, freed : BOOLEAN]
    /\ disturbed \in BOOLEAN
    /\ rPc \in {"idle", "login", "add"}
    /\ rMsg \in IF rPc = "idle" THEN {Nothing} ELSE PeerInfo
    /\ rIp \in IF rPc = "add" THEN Address ELSE {<<>>}
    /\ net \subseteq Message
    /\ up \subseteq Client
    /\ info \in [Client -> PeerInfo]
    /\ heard \in [Client -> Ages]
    /\ tries \in [Client -> 0..MaxTry]
    /\ nat \in [Client -> 1..MaxNat]
    /\ faults \in 0..MaxFaults

(* A MAC address is in the list once, however often and from wherever the  *)
(* client logs in, and whatever the sweep does meanwhile: GetAPeer returns *)
(* the first entry, which would hide a newer one.                          *)
UniqueMac ==
    \A i, j \in 1..Len(list) : list[i].mac = list[j].mac => i = j

(* The inductive invariant: besides, a sweep that has an entry in hand is  *)
(* within its loop, and the entry a login is about to add is not there.    *)
PresenceInv ==
    /\ TypeOK
    /\ mPc \in {"delete", "query", "write"} => ~SweepEnds
    /\ UniqueMac
    /\ rPc = "add" => rMsg.mac \notin Macs

(* A sweep no login disturbed leaves no entry that has missed two sweeps,  *)
(* although the list shrinks under its index and its bound.                *)
SweepMissesNone ==
    [][(mPc = "look" /\ SweepEnds /\ Look /\ ~disturbed)
          => \A i \in 1..Len(list) : list[i].age < Old]_vars

(* Where the list says a client is.                                        *)
ListedAddress(c) ==
    IF c \in Macs THEN list[CHOOSE i \in 1..Len(list) : list[i].mac = c].addr
                  ELSE <<>>

(* The directory this list is for those who ask it for a client.           *)
Dir == INSTANCE Directory WITH
         None  <- <<>>,
         entry <- [c \in Client |-> ListedAddress(c)]

(* Sweep and logins together change the address of one client at a time,   *)
(* and list it under an address only when it was under none: nobody is     *)
(* told an address that a forgotten older entry shows.                     *)
ImplementsDirectory == Dir!Spec

(* A client is who it is: no answer of the server makes it bear the MAC    *)
(* address of another.                                                     *)
OwnIdentity == \A c \in up : info[c].mac = c

(* A MAC address that no running client bears any more leaves the list.    *)
GhostsGo ==
    \A c \in Client : <>[](c \notin LiveMacs) => <>[](c \notin Macs)

(* A client that goes on running as itself is in the list again and again: *)
(* whatever is lost and whoever restarts, it finds its way back.           *)
KeepsComingBack ==
    \A c \in Client : <>[](c \in up /\ info[c].mac = c) => []<>(c \in Macs)

=============================================================================
