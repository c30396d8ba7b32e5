------------------------ MODULE HolePunchAloneProofs ------------------------
(***************************************************************************)
(* Proofs about module HolePunch: a thread that no other thread of the     *)
(* client shares its provider with gives up only after faults, for every   *)
(* number of other threads, providers and tries.                           *)
(***************************************************************************)
EXTENDS HolePunchProofs

-----------------------------------------------------------------------------
(* As long as no provider has moved or was removed, every address of it    *)
(* that anybody has is its first one.                                      *)

Home(p) == <<p, 1>>

StillMsg(m) ==
    /\ m.kind = "forwarded" => m.to = Home(m.mac)
    /\ m.kind = "ipack" => m.info.mac # None /\ m.info.addr = Home(m.info.mac)
    /\ m.kind = "connack" => m.from = Home(m.info.mac)
                             /\ m.info.addr = Home(m.info.mac)

StillWorld == \A p \in Provider : nat[p] = Home(p) /\ known[p] = Home(p)
                                  /\ dir[p] = Home(p)
StillNet    == \A m \in net : StillMsg(m)
StillReader == rPc # "idle" => StillMsg(rMsg)
StillUsers  == \A i \in 1..Len(users) : users[i].mac \in Provider
                                        /\ users[i].addr = Home(users[i].mac)
StillThread(t) == th[t].pc \in {"direct", "relay", "relayed"}
                     => th[t].cur = Home(Target[t])

StillPart ==
    /\ StillWorld /\ StillNet /\ StillReader /\ StillUsers
    /\ \A a \in wrote : a = Home(a[1])
    /\ \A t \in Thread : StillThread(t)

(* A thread that has its provider to itself.                               *)
Alone(t) == \A s \in Thread : Target[s] = Target[t] => s = t

(* How far an inquiry about a provider is: asked, answered, heard, about   *)
(* to be told, told.                                                       *)
Inquired(p) == \E m \in net : m.kind = "getip" /\ m.mac = p
Answered(p) == \E m \in net : m.kind = "ipack" /\ m.info.mac = p
Hears(p)    == rPc = "ipack" /\ rMsg.info.mac = p
Sets(p)     == rPc = "flag" /\ rMsg.kind = "ipack" /\ rMsg.info.mac = p
IpSet(p)    == <<"ip", p>> \in flags

IpComing(p) ==
    \/ \E m \in net : m.kind = "getip" /\ m.to = Server /\ m.mac = p
    \/ Answered(p) \/ Hears(p) \/ Sets(p) \/ IpSet(p)

(* The same of a request for a connection.                                 *)
ConnSet(p) == <<"conn", Home(p)>> \in flags
Acks(p)    == rPc = "flag" /\ rMsg.kind = "connack" /\ rMsg.info.mac = p

ConnMsg(m, p) ==
    \/ m.kind = "connect" /\ m.to = Server /\ m.mac = p
    \/ m.kind = "forwarded" /\ m.mac = p
    \/ m.kind = "connack" /\ m.info.mac = p

ConnComing(p) ==
    \/ \E m \in net : ConnMsg(m, p)
    \/ rPc \in {"connack", "add"} /\ rMsg.info.mac = p
    \/ Acks(p) \/ ConnSet(p)

(* Every turn in which a lone thread asks in vain is a fault of its own.   *)
TriesPaid(t) ==
    /\ th[t].pc \in {"ask", "asked"} => th[t].try <= trouble + 1
    /\ th[t].pc = "asked" /\ ~IpComing(Target[t]) => th[t].try <= trouble
    /\ th[t].pc = "gone" => MaxTry <= trouble

(* Without faults a lone thread inquires once, so that its provider has    *)
(* one entry at most, and the first acknowledgement punches that for good. *)
Ready(p) == \E i \in At(p) : users[i].p2p # None

Fresh(t) == th[t].round = 1 /\ th[t].pc \in {"check", "connect", "lookup", "ask"}

OneInquiry(p) ==
    /\ \A m \in net : m.kind = "getip" /\ m.mac = p => m.to = Server
    /\ Inquired(p) => ~Answered(p) /\ ~Hears(p) /\ ~Sets(p) /\ ~IpSet(p)
    /\ Answered(p) => ~Hears(p) /\ ~Sets(p) /\ ~IpSet(p)
    /\ Hears(p) => ~IpSet(p)
    /\ Inquired(p) \/ Answered(p) \/ Hears(p) => ~Known(p)

OneEntry(p) ==
    /\ \A i, j \in At(p) : i = j
    /\ Replacing(p) => At(p) = {}
    /\ ConnSet(p) \/ Acks(p) => Ready(p)

OnItsWay(t) ==
    /\ th[t].pc # "offer"
    /\ th[t].round > 1 => th[t].pc \in {"check", "data"} /\ Ready(Target[t])
    /\ Fresh(t) => ~Known(Target[t]) /\ ~Sets(Target[t]) /\ ~IpSet(Target[t])
    /\ th[t].pc # "asked" => /\ ~Inquired(Target[t])
                             /\ ~Answered(Target[t])
                             /\ ~Hears(Target[t])
    /\ th[t].pc = "asked" => IpComing(Target[t])
    /\ th[t].pc \in {"relay", "relayed"} => Target[t] \in opened
    /\ th[t].pc = "relayed" => ConnComing(Target[t])

Smooth(t) == OneInquiry(Target[t]) /\ OneEntry(Target[t]) /\ OnItsWay(t)

Faultless == trouble = 0 /\ muddles = 0

AloneInv ==
    shifts = 0 =>
        /\ StillPart
        /\ \A t \in Thread : Alone(t) =>
              /\ TriesPaid(t)
              /\ Faultless /\ MaxRounds > 1 => Smooth(t)

-----------------------------------------------------------------------------
(* Counters never go down, and what moves providers is no other fault.     *)
LEMMA Counters ==
    ASSUME HolePunchInv, Next
    PROVE  /\ trouble \in Nat /\ muddles \in Nat /\ shifts \in Nat
           /\ trouble' = trouble \/ trouble' = trouble + 1
           /\ muddles' = muddles \/ muddles' = muddles + 1
           /\ shifts' = shifts \/ shifts' = shifts + 1
<1>1. trouble \in Nat /\ muddles \in Nat /\ shifts \in Nat
  BY DEF HolePunchInv, WorldPart
<1>2. ASSUME NEW t \in Thread, Step(t)
      PROVE  /\ trouble' = trouble \/ trouble' = trouble + 1
             /\ muddles' = muddles \/ muddles' = muddles + 1
             /\ shifts' = shifts
  BY <1>2 DEF Step, Check, Connect, Lookup, Fetch, Send, SendFails, Answer, TimeOut,
     SendAstray, worldVars, faultVars
<1>3. CASE Reader
  BY <1>1, <1>3 DEF Reader, Read, ProcMsgGetUserClientAck, ProcMsgP2PConnectAck, AddPeer,
     SetFlag, TakeCall, AnswerCall, worldVars, faultVars
<1>4. CASE \E m \in net : ProcGetUserClientIP(m) \/ ProcP2PConnectMsg(m)
                          \/ Drop(m) \/ Lose(m)
  BY <1>1, <1>4 DEF ProcGetUserClientIP, ProcP2PConnectMsg, Drop, Lose, worldVars,
     faultVars
<1>5. ASSUME NEW p \in Provider, \/ \E m \in net : ProcMsgP2PConnect(p, m)
                                 \/ CallClient(p) \/ Move(p) \/ Unlist(p) \/ LogIn(p)
      PROVE  /\ trouble' = trouble /\ muddles' = muddles
             /\ shifts' = shifts \/ shifts' = shifts + 1
  BY <1>5 DEF ProcMsgP2PConnect, CallClient, Move, Unlist, LogIn, worldVars, faultVars
<1>6. CASE World
  BY <1>1, <1>4, <1>5, <1>6 DEF World
<1> QED BY <1>1, <1>2, <1>3, <1>6 DEF Next

LEMMA Datagrams ==
    ASSUME NEW t, NEW to, NEW m \in Datagram(t, to)
    PROVE  /\ m.mac = Target[t] /\ m.to = to
           /\ m.kind = IF th[t].pc = "ask" THEN "getip" ELSE "connect"
           /\ th[t].pc # "data"
  BY DEF Datagram

(* What a thread's step does to all but itself. *)
Others(t) == \A s \in Thread \ {t} : th'[s] = th[s]

LEMMA OthersStay ==
    ASSUME HolePunchInv, NEW t \in Thread, Step(t)
    PROVE  Others(t)
<1>1. th \in [Thread -> Locals]
  BY DEF HolePunchInv, ThreadPart
<1>2. PICK l : th' = [th EXCEPT ![t] = l]
  <2>1. ASSUME NEW place, Goto(t, place) PROVE \E l : th' = [th EXCEPT ![t] = l]
    <3>1. th' = [th EXCEPT ![t] = [th[t] EXCEPT !.pc = place]]
      BY <1>1, <2>1 DEF Goto
    <3> QED BY <3>1
  <2>2. ASSUME NEW l, Become(t, l) PROVE \E k : th' = [th EXCEPT ![t] = k]
    BY <2>2 DEF Become
  <2>3. ASSUME NextRound(t) PROVE \E l : th' = [th EXCEPT ![t] = l]
    BY <2>2, <2>3 DEF NextRound, Over
  <2>4. ASSUME NextTry(t) PROVE \E l : th' = [th EXCEPT ![t] = l]
    BY <2>2, <2>3, <2>4 DEF NextTry, Over
  <2>5. ASSUME AfterSend(t), Sending(t) PROVE \E l : th' = [th EXCEPT ![t] = l]
    BY <2>1, <2>2, <2>5 DEF AfterSend, Over, Sending
  <2>6. CASE Check(t) \/ Connect(t) \/ Lookup(t) \/ Fetch(t)
    BY <2>1, <2>2, <2>6 DEF Check, Connect, Lookup, Fetch, Announce
  <2>7. CASE Send(t) \/ \E m \in net : SendAstray(t, m)
    BY <2>5, <2>7 DEF Send, SendAstray
  <2>8. CASE SendFails(t)
    BY <2>1, <2>4, <2>5, <2>8 DEF SendFails, Sending
  <2>9. CASE Answer(t) \/ TimeOut(t)
    BY <2>1, <2>3, <2>4, <2>9 DEF Answer, TimeOut
  <2> QED BY <2>6, <2>7, <2>8, <2>9 DEF Step
<1> QED BY <1>1, <1>2 DEF Others

ThreadFrame(t) ==
    /\ UNCHANGED <<users, wrote, worldVars>>
    /\ Others(t) /\ opened \subseteq opened'
    /\ \A m \in net' : m \in net \/ /\ m.kind \in {"getip", "connect"}
                                    /\ m.mac = Target[t]
    /\ \/ trouble' = trouble /\ UNCHANGED readerVars /\ net \subseteq net'
       \/ trouble' = trouble + 1 /\ UNCHANGED readerVars /\ net' = net
       \/ trouble' = trouble + 1 /\ rMsg' \in net

LEMMA ThreadFrames ==
    ASSUME HolePunchInv, NEW t \in Thread, Step(t)
    PROVE  ThreadFrame(t)
<1>1. Others(t)
  BY OthersStay
<1>2. CASE Check(t) \/ Connect(t) \/ Lookup(t) \/ Fetch(t) \/ Answer(t)
  BY <1>1, <1>2 DEF ThreadFrame, Check, Connect, Lookup, Fetch, Answer, routerVars,
     faultVars
<1>3. CASE SendFails(t) \/ TimeOut(t)
  BY <1>1, <1>3 DEF ThreadFrame, SendFails, TimeOut, routerVars
<1>4. CASE Send(t)
  <2>1. /\ net' = net \cup Datagram(t, peer') /\ opened \subseteq opened'
        /\ UNCHANGED <<users, wrote, worldVars, trouble, readerVars>>
    BY <1>4 DEF Send
  <2>2. \A m \in Datagram(t, peer') : m.kind \in {"getip", "connect"} /\ m.mac = Target[t]
    BY Datagrams
  <2> QED BY <1>1, <2>1, <2>2 DEF ThreadFrame
<1>5. ASSUME NEW n \in net, SendAstray(t, n) PROVE ThreadFrame(t)
  <2>1. /\ net' = (net \ {n}) \cup Datagram(t, n.from) /\ opened \subseteq opened'
        /\ rMsg' = n /\ trouble' = trouble + 1
        /\ UNCHANGED <<users, wrote, worldVars>>
    BY <1>5 DEF SendAstray
  <2>2. \A m \in Datagram(t, n.from) : m.kind \in {"getip", "connect"} /\ m.mac = Target[t]
    BY Datagrams
  <2> QED BY <1>1, <2>1, <2>2 DEF ThreadFrame
<1> QED BY <1>2, <1>3, <1>4, <1>5 DEF Step

(* The ways a thread goes on. *)
LEMMA GoesTo ==
    ASSUME HolePunchInv, NEW t \in Thread, NEW place, Goto(t, place)
    PROVE  /\ th'[t].pc = place /\ th'[t].round = th[t].round
           /\ th'[t].try = th[t].try /\ th'[t].cur = th[t].cur
           /\ th'[t].fails = th[t].fails
<1>1. th \in [Thread -> Locals] /\ th[t] \in Locals
  BY DEF HolePunchInv, ThreadPart
<1>2. th'[t] = [th[t] EXCEPT !.pc = place]
  BY <1>1 DEF Goto
<1> QED BY <1>1, <1>2 DEF Locals

LEMMA GoesOver ==
    ASSUME HolePunchInv, NEW t \in Thread, NEW place, NEW fails, Over(t, place, fails)
    PROVE  th'[t].pc = place /\ th'[t].round = 1 /\ th'[t].fails = fails
<1>1. th \in [Thread -> Locals] /\ th[t] \in Locals
  BY DEF HolePunchInv, ThreadPart
<1>2. th'[t] = [th[t] EXCEPT !.pc = place, !.round = 1, !.try = 0, !.cur = None,
                             !.fails = fails]
  BY <1>1 DEF Over, Become
<1> QED BY <1>1, <1>2 DEF Locals

LEMMA GoesRound ==
    ASSUME HolePunchInv, NEW t \in Thread, NextRound(t)
    PROVE  /\ th'[t].pc \in {"check", "offer"}
           /\ th[t].round < MaxRounds => th'[t].pc = "check"
                                         /\ th'[t].round = th[t].round + 1
                                         /\ th'[t].fails = th[t].fails
           /\ ~(th[t].round < MaxRounds) /\ th[t].fails < MaxSendRetry
                => /\ th'[t].pc = "check" /\ th'[t].round = 1
                   /\ th'[t].fails = th[t].fails + 1
<1>1. th \in [Thread -> Locals] /\ th[t] \in Locals
  BY DEF HolePunchInv, ThreadPart
<1>2. CASE th[t].round < MaxRounds
  <2>1. th'[t] = [th[t] EXCEPT !.pc = "check", !.round = @ + 1, !.try = 0, !.cur = None]
    BY <1>1, <1>2 DEF NextRound, Become
  <2> QED BY <1>1, <1>2, <2>1 DEF Locals
<1>3. CASE ~(th[t].round < MaxRounds)
  BY <1>3, GoesOver DEF NextRound
<1> QED BY <1>2, <1>3

LEMMA GoesOn ==
    ASSUME HolePunchInv, NEW t \in Thread, NextTry(t)
    PROVE  \/ /\ th[t].try < MaxTry /\ th'[t].try = th[t].try + 1
              /\ th'[t].cur = th[t].cur /\ th'[t].round = th[t].round
              /\ th'[t].fails = th[t].fails
              /\ th'[t].pc = IF th[t].pc \in {"ask", "asked"} THEN "ask" ELSE "relay"
           \/ /\ th[t].try >= MaxTry /\ th[t].pc \in {"ask", "asked"}
              /\ th'[t].pc = "gone"
           \/ /\ th[t].try >= MaxTry /\ th[t].pc \notin {"ask", "asked"}
              /\ NextRound(t) /\ th'[t].pc \in {"check", "offer"}
<1>1. th \in [Thread -> Locals] /\ th[t] \in Locals
  BY DEF HolePunchInv, ThreadPart
<1>2. CASE th[t].try < MaxTry
  <2>1. th'[t] = [th[t] EXCEPT !.try = @ + 1,
                               !.pc = IF @ \in {"ask", "asked"} THEN "ask" ELSE "relay"]
    BY <1>1, <1>2 DEF NextTry, Become
  <2> QED BY <1>1, <1>2, <2>1 DEF Locals
<1>3. CASE ~(th[t].try < MaxTry) /\ th[t].pc \in {"ask", "asked"}
  <2>1. th[t].try >= MaxTry
    BY <1>1, <1>3, Bounds DEF Locals
  <2> QED BY <1>3, <2>1, GoesOver DEF NextTry
<1>4. CASE ~(th[t].try < MaxTry) /\ th[t].pc \notin {"ask", "asked"}
  <2>1. th[t].try >= MaxTry
    BY <1>1, <1>4, Bounds DEF Locals
  <2> QED BY <1>4, <2>1, GoesRound DEF NextTry
<1> QED BY <1>2, <1>3, <1>4

LEMMA GoesAfterSend ==
    ASSUME HolePunchInv, NEW t \in Thread, Sending(t), AfterSend(t)
    PROVE  \/ th[t].pc = "data" /\ th'[t].pc = "sent" /\ th'[t].round = 1
              /\ th'[t].fails = 0
           \/ th[t].pc = "ask" /\ th'[t].pc = "asked" /\ th'[t].try = th[t].try
              /\ th'[t].round = th[t].round /\ th'[t].fails = th[t].fails
           \/ th[t].pc = "direct" /\ th'[t].pc = "relay" /\ th'[t].cur = th[t].cur
              /\ th'[t].round = th[t].round /\ th'[t].fails = th[t].fails
           \/ th[t].pc = "relay" /\ th'[t].pc = "relayed" /\ th'[t].cur = th[t].cur
              /\ th'[t].round = th[t].round /\ th'[t].fails = th[t].fails
<1>1. th \in [Thread -> Locals] /\ th[t] \in Locals
  BY DEF HolePunchInv, ThreadPart
<1>2. CASE th[t].pc = "data"
  BY <1>2, GoesOver DEF AfterSend
<1>3. CASE th[t].pc = "ask"
  BY <1>3, GoesTo DEF AfterSend
<1>4. CASE th[t].pc = "direct"
  <2>1. th'[t] = [th[t] EXCEPT !.pc = "relay", !.try = 1]
    BY <1>1, <1>4 DEF AfterSend, Become
  <2> QED BY <1>1, <1>4, <2>1 DEF Locals
<1>5. CASE th[t].pc = "relay"
  BY <1>5, GoesTo DEF AfterSend
<1> QED BY <1>2, <1>3, <1>4, <1>5 DEF Sending

LEMMA GoesToPeer ==
    ASSUME HolePunchInv, NEW t \in Thread, NEW place, NEW a,
           Become(t, [th[t] EXCEPT !.pc = place, !.cur = a])
    PROVE  th'[t].pc = place /\ th'[t].cur = a /\ th'[t].round = th[t].round
<1>1. th \in [Thread -> Locals] /\ th[t] \in Locals
  BY DEF HolePunchInv, ThreadPart
<1>2. th'[t] = [th[t] EXCEPT !.pc = place, !.cur = a]
  BY <1>1 DEF Become
<1> QED BY <1>1, <1>2 DEF Locals

LEMMA GoesToAsk ==
    ASSUME HolePunchInv, NEW t \in Thread,
           Become(t, [th[t] EXCEPT !.pc = "ask", !.try = 1])
    PROVE  /\ th'[t].pc = "ask" /\ th'[t].try = 1 /\ th'[t].round = th[t].round
           /\ th'[t].fails = th[t].fails
<1>1. th \in [Thread -> Locals] /\ th[t] \in Locals
  BY DEF HolePunchInv, ThreadPart
<1>2. th'[t] = [th[t] EXCEPT !.pc = "ask", !.try = 1]
  BY <1>1 DEF Become
<1> QED BY <1>1, <1>2 DEF Locals

-----------------------------------------------------------------------------
(* Addresses stay what they were at first.                                 *)

LEMMA HomeIsAddress ==
    ASSUME NEW p \in Provider
    PROVE  /\ Home(p) \in Address /\ Home(p)[1] = p
           /\ Home(p) # None /\ Home(p) # Server
<1>1. Home(p) \in Address /\ Home(p)[1] = p
  BY Bounds DEF Home, Address
<1> QED BY <1>1, HolePunchDistinct

LEMMA WorldStays ==
    ASSUME HolePunchInv, StillWorld, Next, shifts' = shifts
    PROVE  UNCHANGED <<nat, known, dir>>
<1>0. shifts \in Nat
  BY DEF HolePunchInv, WorldPart
<1>1. ASSUME NEW t \in Thread, Step(t) PROVE UNCHANGED <<nat, known, dir>>
  BY <1>1, ThreadFrames DEF ThreadFrame, worldVars
<1>2. CASE Reader
  BY <1>2 DEF Reader, Read, ProcMsgGetUserClientAck, ProcMsgP2PConnectAck, AddPeer,
     SetFlag, TakeCall, AnswerCall, worldVars
<1>3. CASE World
  <2>1. CASE \E m \in net : ProcGetUserClientIP(m) \/ ProcP2PConnectMsg(m)
                            \/ Drop(m) \/ Lose(m)
    BY <2>1 DEF ProcGetUserClientIP, ProcP2PConnectMsg, Drop, Lose, worldVars
  <2>2. ASSUME NEW p \in Provider, \/ \E m \in net : ProcMsgP2PConnect(p, m)
                                   \/ CallClient(p) \/ Move(p) \/ Unlist(p) \/ LogIn(p)
        PROVE  UNCHANGED <<nat, known, dir>>
    <3>1. ~Move(p) /\ ~Unlist(p)
      BY <1>0 DEF Move, Unlist
    <3>2. ~LogIn(p)
      BY DEF LogIn, StillWorld
    <3> QED BY <2>2, <3>1, <3>2 DEF ProcMsgP2PConnect, CallClient, worldVars
  <2> QED BY <1>3, <2>1, <2>2 DEF World
<1> QED BY <1>1, <1>2, <1>3 DEF Next

LEMMA ThreadStill ==
    ASSUME HolePunchInv, StillPart, NEW t \in Thread, Step(t)
    PROVE  StillThread(t)'
<1>1. StillThread(t) /\ Target[t] \in Provider
  BY TargetsProvide DEF StillPart
<1>2. ASSUME Listed(Target[t]), Announce(t) PROVE StillThread(t)'
  <2>1. PICK i \in At(Target[t]) : GetAPeer(Target[t]) = users[i]
    BY <1>1, <1>2, GetAPeerWorks DEF HolePunchInv
  <2>2. GetAPeer(Target[t]).addr = Home(Target[t])
    BY <2>1 DEF At, StillPart, StillUsers
  <2>3. th'[t].cur = Home(Target[t])
    BY <1>2, <2>2, GoesToPeer DEF Announce
  <2> QED BY <2>3 DEF StillThread
<1>3. ASSUME NEW place \in {"connect", "lookup", "fetch", "crashed"}, Goto(t, place)
      PROVE  StillThread(t)'
  BY <1>3, GoesTo DEF StillThread
<1>4. ASSUME Sending(t), AfterSend(t) PROVE StillThread(t)'
  BY <1>1, <1>4, GoesAfterSend DEF StillThread
<1>5. ASSUME NextTry(t), th[t].pc \in {"ask", "relay", "asked", "relayed"}
      PROVE  StillThread(t)'
  BY <1>1, <1>5, GoesOn DEF StillThread
<1>6. CASE Check(t)
  <2>1. CASE Goto(t, "connect")
    BY <1>3, <2>1
  <2>2. CASE th'[t].pc = "data"
    BY <2>2 DEF StillThread
  <2> QED BY <1>6, <2>1, <2>2, GoesToPeer DEF Check
<1>7. CASE Connect(t) \/ Fetch(t)
  BY <1>2, <1>3, <1>7 DEF Connect, Fetch
<1>8. CASE Lookup(t)
  BY <1>3, <1>8, GoesToAsk DEF Lookup, StillThread
<1>9. CASE Send(t) \/ \E m \in net : SendAstray(t, m)
  BY <1>4, <1>9 DEF Send, SendAstray
<1>10. CASE SendFails(t)
  BY <1>3, <1>4, <1>5, <1>10 DEF SendFails, Sending
<1>11. CASE Answer(t)
  BY <1>3, <1>11, GoesRound DEF Answer, StillThread
<1>12. CASE TimeOut(t)
  BY <1>5, <1>12 DEF TimeOut
<1> QED BY <1>6, <1>7, <1>8, <1>9, <1>10, <1>11, <1>12 DEF Step

(* The steps of the threads. *)
LEMMA StillAfterThread ==
    ASSUME HolePunchInv, StillPart, NEW t \in Thread, Step(t)
    PROVE  StillPart'
<1>1. ThreadFrame(t) /\ StillThread(t)'
  BY ThreadFrames, ThreadStill
<1>2. UNCHANGED <<users, wrote, nat, known, dir>>
  BY <1>1 DEF ThreadFrame, worldVars
<1>3. StillNet'
  BY <1>1 DEF StillPart, StillNet, StillMsg, ThreadFrame
<1>4. StillReader'
  BY <1>1 DEF StillPart, StillNet, StillReader, ThreadFrame, readerVars, StillMsg
<1>5. \A s \in Thread : StillThread(s)'
  BY <1>1 DEF StillPart, StillThread, ThreadFrame, Others
<1> QED BY <1>2, <1>3, <1>4, <1>5 DEF StillPart, StillWorld, StillUsers

(* The reader's. *)
LEMMA StillAfterReader ==
    ASSUME HolePunchInv, StillPart, Reader
    PROVE  StillPart'
<1>1. UNCHANGED <<th, nat, known, dir, wrote>> /\ net' \subseteq net
  BY DEF Reader, Read, ProcMsgGetUserClientAck, ProcMsgP2PConnectAck, AddPeer, SetFlag,
     TakeCall, AnswerCall, worldVars, routerVars
<1>2. StillWorld' /\ StillNet' /\ (\A t \in Thread : StillThread(t)')
      /\ \A a \in wrote' : a = Home(a[1])
  BY <1>1 DEF StillPart, StillWorld, StillNet, StillMsg, StillThread
<1>3. users \in Seq(Peer)
  BY DEF HolePunchInv, UsersPart
<1>4. ASSUME NEW e \in Peer, e.mac \in Provider, e.addr = Home(e.mac),
             users' = Append(users, e)
      PROVE  StillUsers'
  <2>1. /\ Len(users) \in Nat /\ Len(users') = Len(users) + 1
        /\ \A i \in 1..Len(users) : users'[i] = users[i]
        /\ users'[Len(users) + 1] = e
    BY <1>3, <1>4, Adding
  <2> QED BY <1>4, <2>1 DEF StillPart, StillUsers
<1>5. CASE \E m \in net : Read(m)
  <2>1. users' = users /\ rMsg' \in net
    BY <1>5 DEF Read
  <2>2. StillUsers' /\ StillReader'
    BY <2>1 DEF StillPart, StillUsers, StillReader, StillNet, StillMsg
  <2> QED BY <1>2, <2>2 DEF StillPart
<1>6. CASE ProcMsgGetUserClientAck
  <2> DEFINE e == NewPeer(rMsg.info, None)
  <2>1. /\ rMsg \in Ack /\ rMsg.kind = "ipack" /\ StillMsg(rMsg)
        /\ rMsg.info \in Info \cup {Empty}
    BY <1>6 DEF ProcMsgGetUserClientAck, HolePunchInv, ReaderPart, MsgOK, Request, Ack, Call,
       StillPart, StillReader
  <2>2. e \in Peer /\ e.mac \in Provider /\ e.addr = Home(e.mac)
    BY <2>1 DEF NewPeer, Peer, Info, Empty, StillMsg
  <2>3. users' = Append(users, e) /\ rMsg' = rMsg
    BY <1>6 DEF ProcMsgGetUserClientAck
  <2> HIDE DEF e
  <2>4. StillUsers' /\ StillReader'
    BY <1>4, <2>1, <2>2, <2>3 DEF StillReader, StillMsg
  <2> QED BY <1>2, <2>4 DEF StillPart
<1>7. CASE ProcMsgP2PConnectAck
  <2>1. /\ rMsg \in Ack /\ rMsg.kind = "connack" /\ StillMsg(rMsg) /\ rMsg.info \in Info
    BY <1>7 DEF ProcMsgP2PConnectAck, HolePunchInv, ReaderPart, MsgOK, Request, Ack, Call,
       StillPart, StillReader
  <2>2. users' = users \/ users' = Without(rMsg.info.mac)
    BY <1>7 DEF ProcMsgP2PConnectAck
  <2>3. StillUsers'
    BY <1>3, <2>2, Deleting DEF StillPart, StillUsers
  <2>4. CASE rMsg' = rMsg
    BY <1>2, <2>1, <2>3, <2>4 DEF StillPart, StillReader, StillMsg
  <2>5. CASE rMsg' = [rMsg EXCEPT !.info = NewPeer(@, peer)]
    <3>1. /\ rMsg'.kind = "connack" /\ rMsg'.from = rMsg.from
          /\ rMsg'.info.mac = rMsg.info.mac /\ rMsg'.info.addr = rMsg.info.addr
      BY <2>1, <2>5 DEF Ack, NewPeer
    <3>2. StillReader'
      BY <2>1, <3>1 DEF StillReader, StillMsg
    <3> QED BY <1>2, <2>3, <3>2 DEF StillPart
  <2> QED BY <1>7, <2>4, <2>5 DEF ProcMsgP2PConnectAck
<1>8. CASE AddPeer
  <2>0. PICK e : e = rMsg.info
    OBVIOUS
  <2>1. /\ StillMsg(rMsg) /\ rMsg.kind = "connack" /\ e \in Peer /\ e.mac \in Provider
    BY <1>8, <2>0 DEF AddPeer, HolePunchInv, ReaderPart, PeerOK, StillPart, StillReader
  <2>2. users' = Append(users, e) /\ rMsg' = rMsg
    BY <1>8, <2>0 DEF AddPeer
  <2>3. e.addr = Home(e.mac)
    BY <2>0, <2>1 DEF StillMsg
  <2>4. StillUsers' /\ StillReader'
    BY <1>4, <2>1, <2>2, <2>3 DEF StillReader, StillMsg
  <2> QED BY <1>2, <2>4 DEF StillPart
<1>9. CASE SetFlag
  <2>1. users' = users /\ rPc' = "idle"
    BY <1>9 DEF SetFlag
  <2>2. StillUsers' /\ StillReader'
    BY <2>1 DEF StillPart, StillUsers, StillReader
  <2> QED BY <1>2, <2>2 DEF StillPart
<1>10. CASE TakeCall
  <2>1. users' = users /\ (rPc' = "idle" \/ (rPc # "idle" /\ rMsg' = rMsg))
    BY <1>10 DEF TakeCall
  <2>2. StillUsers' /\ StillReader'
    BY <2>1 DEF StillPart, StillUsers, StillReader, StillMsg
  <2> QED BY <1>2, <2>2 DEF StillPart
<1>11. CASE AnswerCall
  <2>1. /\ Len(users') = Len(users)
        /\ \A i \in 1..Len(users) : /\ users'[i].mac = users[i].mac
                                    /\ users'[i].addr = users[i].addr
    BY <1>11, EntryFilled
  <2>2. StillUsers'
    BY <2>1 DEF StillPart, StillUsers
  <2>3. StillReader'
    BY <1>11 DEF AnswerCall, StillReader
  <2> QED BY <1>2, <2>2, <2>3 DEF StillPart
<1> QED BY <1>5, <1>6, <1>7, <1>8, <1>9, <1>10, <1>11 DEF Reader

(* The world's. *)
LEMMA StillAfterWorld ==
    ASSUME HolePunchInv, StillPart, World, UNCHANGED <<nat, known, dir>>
    PROVE  StillPart'
<1>1. UNCHANGED <<th, users, rMsg, rPc>>
  BY DEF World, ProcGetUserClientIP, ProcP2PConnectMsg, Drop, Lose, ProcMsgP2PConnect,
     CallClient, Move, Unlist, LogIn, readerVars
<1>2. StillWorld' /\ StillReader' /\ StillUsers' /\ \A t \in Thread : StillThread(t)'
  BY <1>1 DEF StillPart, StillWorld, StillReader, StillMsg, StillUsers, StillThread
<1>3. \A p \in Provider : nat[p] = Home(p) /\ known[p] = Home(p) /\ dir[p] = Home(p)
  BY DEF StillPart, StillWorld
<1>4. ASSUME wrote' = wrote, NEW a, StillMsg(a), \A m \in net' : m \in net \/ m = a
      PROVE  StillPart'
  <2>1. StillNet'
    BY <1>4 DEF StillPart, StillNet, StillMsg
  <2> QED BY <1>2, <1>4, <2>1 DEF StillPart
<1>5. ASSUME wrote' = wrote, net' \subseteq net PROVE StillPart'
  <2>1. StillNet'
    BY <1>5 DEF StillPart, StillNet, StillMsg
  <2> QED BY <1>2, <1>5, <2>1 DEF StillPart
<1>6. ASSUME NEW m \in net, ProcGetUserClientIP(m) PROVE StillPart'
  <2>1. m.mac \in Provider
    BY <1>6 DEF ProcGetUserClientIP, HolePunchInv, NetPart, MsgOK, Request, Ack, Call
  <2>2. PICK a : a = [kind |-> "ipack", from |-> Server,
                      info |-> [mac |-> m.mac, addr |-> dir[m.mac]]]
    OBVIOUS
  <2>3. dir[m.mac] = Home(m.mac) /\ dir[m.mac] # None /\ m.mac # None
    BY <1>3, <2>1, HomeIsAddress, HolePunchAssumption
  <2>4. StillMsg(a)
    BY <2>2, <2>3 DEF StillMsg
  <2>5. net' = (net \ {m}) \cup {a} /\ wrote' = wrote
    BY <1>6, <2>2, <2>3 DEF ProcGetUserClientIP, Reply, routerVars
  <2> QED BY <1>4, <2>4, <2>5
<1>7. ASSUME NEW m \in net, ProcP2PConnectMsg(m) PROVE StillPart'
  <2>1. m.mac \in Provider
    BY <1>7 DEF ProcP2PConnectMsg, HolePunchInv, NetPart, MsgOK, Request, Ack, Call
  <2>2. PICK a : a = [kind |-> "forwarded", to |-> dir[m.mac], mac |-> m.mac]
    OBVIOUS
  <2>3. StillMsg(a)
    BY <1>3, <2>1, <2>2 DEF StillMsg
  <2>4. wrote' = wrote /\ \A n \in net' : n \in net \/ n = a
    BY <1>7, <2>2 DEF ProcP2PConnectMsg, Reply, routerVars
  <2> QED BY <1>4, <2>3, <2>4
<1>8. ASSUME NEW p \in Provider, NEW m \in net, ProcMsgP2PConnect(p, m) PROVE StillPart'
  <2>1. PICK a : a = [kind |-> "connack", from |-> nat[p],
                      info |-> [mac |-> p, addr |-> known[p]]]
    OBVIOUS
  <2>2. StillMsg(a)
    BY <1>3, <2>1 DEF StillMsg
  <2>3. net' = (net \ {m}) \cup {a} /\ wrote' = wrote \cup {nat[p]}
    BY <1>8, <2>1 DEF ProcMsgP2PConnect, Reply
  <2>4. StillNet'
    BY <2>2, <2>3 DEF StillPart, StillNet, StillMsg
  <2>5. \A b \in wrote' : b = Home(b[1])
    BY <1>3, <2>3, HomeIsAddress DEF StillPart
  <2> QED BY <1>2, <2>4, <2>5 DEF StillPart
<1>9. ASSUME NEW m \in net, Drop(m) \/ Lose(m) PROVE StillPart'
  BY <1>5, <1>9 DEF Drop, Lose, routerVars
<1>10. ASSUME NEW p \in Provider, Move(p) \/ Unlist(p) \/ LogIn(p) PROVE StillPart'
  BY <1>5, <1>10 DEF Move, Unlist, LogIn, routerVars
<1>11. ASSUME NEW p \in Provider, CallClient(p) PROVE StillPart'
  <2>1. PICK from \in {nat[p], Server} :
           /\ net' = net \cup {[kind |-> "call", from |-> from,
                                info |-> [mac |-> p, addr |-> known[p]]]}
           /\ wrote' = wrote \cup ({from} \ {Server})
    BY <1>11 DEF CallClient
  <2>2. StillNet'
    BY <2>1 DEF StillPart, StillNet, StillMsg
  <2>3. \A b \in wrote' : b = Home(b[1])
    BY <1>3, <2>1, HomeIsAddress DEF StillPart
  <2> QED BY <1>2, <2>2, <2>3 DEF StillPart
<1> QED BY <1>6, <1>7, <1>8, <1>9, <1>10, <1>11 DEF World

LEMMA StillStep ==
    ASSUME HolePunchInv, StillPart, Next, shifts' = shifts
    PROVE  StillPart'
<1>1. UNCHANGED <<nat, known, dir>>
  BY WorldStays DEF StillPart
<1> QED BY <1>1, StillAfterThread, StillAfterReader, StillAfterWorld DEF Next

-----------------------------------------------------------------------------
(* Asking in vain is a fault.                                              *)

(* A thread takes no flag that names another provider. *)
LEMMA FlagsTaken ==
    ASSUME HolePunchInv, StillPart, NEW t \in Thread, Step(t), NEW p \in Provider,
           p # Target[t]
    PROVE  /\ IpSet(p) => IpSet(p)'
           /\ ConnSet(p) => ConnSet(p)'
           /\ IpSet(p)' => IpSet(p)
           /\ ConnSet(p)' => ConnSet(p)
<1>1. Target[t] \in Provider /\ StillThread(t)
  BY TargetsProvide DEF StillPart
<1>2. Home(p) # Home(Target[t])
  BY <1>1, HomeIsAddress
<1>3. flags' \in {flags, flags \ {IpFlag(t)}, flags \ {<<"conn", Home(Target[t])>>}}
  <2>1. ASSUME Listed(Target[t]), Announce(t)
        PROVE  flags' = flags \ {<<"conn", Home(Target[t])>>}
    <3>1. PICK i \in At(Target[t]) : GetAPeer(Target[t]) = users[i]
      BY <1>1, <2>1, GetAPeerWorks DEF HolePunchInv
    <3>2. GetAPeer(Target[t]).addr = Home(Target[t])
      BY <3>1 DEF At, StillPart, StillUsers
    <3> QED BY <2>1, <3>2 DEF Announce
  <2>2. CASE Connect(t) \/ Fetch(t)
    BY <2>1, <2>2 DEF Connect, Fetch
  <2>3. CASE Answer(t)
    BY <1>1, <2>3 DEF Answer, Awaited, ConnFlag, StillThread
  <2>4. CASE Lookup(t)
    BY <2>4 DEF Lookup
  <2>5. CASE Check(t) \/ Send(t) \/ SendFails(t) \/ TimeOut(t)
             \/ \E m \in net : SendAstray(t, m)
    BY <2>5 DEF Check, Send, SendFails, TimeOut, SendAstray
  <2> QED BY <2>2, <2>3, <2>4, <2>5 DEF Step
<1> QED BY <1>2, <1>3 DEF IpSet, ConnSet, IpFlag

(* An inquiry goes on unless somebody takes its flag or something fails. *)
LEMMA InquiryGoesOn ==
    ASSUME HolePunchInv, StillPart, Next, NEW p \in Provider, IpComing(p),
           \A s \in Thread : Step(s) => p # Target[s]
    PROVE  IpComing(p)' \/ trouble' = trouble + 1
<1>1. ASSUME NEW s \in Thread, Step(s) PROVE IpComing(p)' \/ trouble' = trouble + 1
  <2>1. p # Target[s] /\ ThreadFrame(s)
    BY <1>1, ThreadFrames
  <2>2. IpSet(p) => IpSet(p)'
    BY <1>1, <2>1, FlagsTaken
  <2>3. CASE net \subseteq net' /\ UNCHANGED readerVars
    BY <2>2, <2>3 DEF IpComing, Answered, Hears, Sets, readerVars
  <2> QED BY <2>1, <2>3 DEF ThreadFrame
<1>2. \A m \in net : m.kind \in {"getip", "connect", "forwarded"}
                    <=> m \notin Ack \cup Call
  BY DEF HolePunchInv, NetPart, MsgOK, Request, Ack, Call
<1>3. ASSUME NEW m \in net, Read(m) PROVE IpComing(p)'
  <2>1. /\ m \in Ack \cup Call /\ rPc = "idle" /\ rMsg' = m /\ rPc' = m.kind
        /\ flags' = flags /\ net' = net \ {m}
    BY <1>3 DEF Read
  <2>2. CASE m.kind = "ipack" /\ m.info.mac = p
    BY <2>1, <2>2 DEF IpComing, Hears
  <2>3. CASE ~(m.kind = "ipack" /\ m.info.mac = p)
    BY <1>2, <2>1, <2>3 DEF IpComing, Answered, Hears, Sets, IpSet
  <2> QED BY <2>2, <2>3
<1>4. CASE ProcMsgGetUserClientAck
  <2>1. rMsg.kind = "ipack"
    BY <1>4 DEF ProcMsgGetUserClientAck, HolePunchInv, ReaderPart
  <2> QED BY <1>4, <2>1 DEF ProcMsgGetUserClientAck, IpComing, Answered, Hears, Sets, IpSet
<1>5. CASE ProcMsgP2PConnectAck \/ AddPeer
  BY <1>5 DEF ProcMsgP2PConnectAck, AddPeer, IpComing, Answered, Hears, Sets, IpSet
<1>6. CASE SetFlag
  BY <1>6 DEF SetFlag, IpComing, Answered, Hears, Sets, IpSet
<1>12. CASE TakeCall \/ AnswerCall
  BY <1>12 DEF TakeCall, AnswerCall, IpComing, Answered, Hears, Sets, IpSet
<1>13. ASSUME NEW q \in Provider, CallClient(q) PROVE IpComing(p)'
  BY <1>13 DEF CallClient, IpComing, Answered, Hears, Sets, IpSet, readerVars
<1>7. ASSUME NEW m \in net, ProcGetUserClientIP(m) PROVE IpComing(p)'
  <2>1. PICK a : a = [kind |-> "ipack", from |-> Server,
                      info |-> IF dir[m.mac] = None THEN Empty
                               ELSE [mac |-> m.mac, addr |-> dir[m.mac]]]
    OBVIOUS
  <2>2. /\ net' = (net \ {m}) \cup {a} /\ UNCHANGED <<flags, rPc, rMsg>>
        /\ m.kind = "getip"
    BY <1>7, <2>1 DEF ProcGetUserClientIP, Reply, readerVars
  <2>3. CASE m.mac = p
    <3>1. dir[p] # None
      BY HomeIsAddress DEF StillPart, StillWorld
    <3>2. a.kind = "ipack" /\ a.info.mac = p
      BY <2>1, <2>3, <3>1
    <3> QED BY <2>2, <3>2 DEF IpComing, Answered
  <2>4. CASE m.mac # p
    BY <2>2, <2>4 DEF IpComing, Answered, Hears, Sets, IpSet
  <2> QED BY <2>3, <2>4
<1>8. ASSUME NEW m \in net, net \ {m} \subseteq net', UNCHANGED <<flags, readerVars>>,
             ~(m.kind = "getip" /\ m.to = Server), m.kind # "ipack"
      PROVE  IpComing(p)'
  BY <1>8 DEF IpComing, Answered, Hears, Sets, IpSet, readerVars
<1>9. ASSUME NEW m \in net, \/ ProcP2PConnectMsg(m) \/ Drop(m)
                            \/ \E q \in Provider : ProcMsgP2PConnect(q, m)
      PROVE  IpComing(p)'
  <2>1. net \ {m} \subseteq net' /\ UNCHANGED <<flags, readerVars>>
    BY <1>9 DEF ProcP2PConnectMsg, Drop, ProcMsgP2PConnect, Reply
  <2>2. ~(m.kind = "getip" /\ m.to = Server) /\ m.kind # "ipack"
    <3>1. MsgOK(m)
      BY DEF HolePunchInv, NetPart
    <3> QED BY <1>9, <3>1 DEF ProcP2PConnectMsg, ProcMsgP2PConnect, Drop, Undeliverable,
         LetIn, MsgOK, Request, Ack, Call
  <2> QED BY <1>8, <2>1, <2>2
<1>10. ASSUME NEW q \in Provider, Move(q) \/ Unlist(q) \/ LogIn(q) PROVE IpComing(p)'
  BY <1>10 DEF Move, Unlist, LogIn, IpComing, Answered, Hears, Sets, IpSet, readerVars
<1>11. ASSUME NEW m \in net, Lose(m) PROVE trouble' = trouble + 1
  BY <1>11 DEF Lose
<1> QED BY <1>1, <1>3, <1>4, <1>5, <1>6, <1>7, <1>9, <1>10, <1>11, <1>12, <1>13
    DEF Next, Reader, World

LEMMA TriesStep ==
    ASSUME HolePunchInv, StillPart, Next, NEW t \in Thread, Alone(t), TriesPaid(t)
    PROVE  TriesPaid(t)'
<1>1. /\ trouble \in Nat /\ th[t] \in Locals /\ Target[t] \in Provider
      /\ th[t].try \in Nat /\ MaxTry \in Nat
      /\ trouble' = trouble \/ trouble' = trouble + 1
  BY Counters, TargetsProvide, Bounds DEF HolePunchInv, ThreadPart, Locals
<1>2. ASSUME th'[t] = th[t], \A s \in Thread : Step(s) => s # t PROVE TriesPaid(t)'
  <2>1. IpComing(Target[t]) => IpComing(Target[t])' \/ trouble' = trouble + 1
    BY <1>1, <1>2, InquiryGoesOn DEF Alone
  <2> QED BY <1>1, <1>2, <2>1 DEF TriesPaid
<1>3. ASSUME th'[t].pc \notin {"ask", "asked", "gone"} PROVE TriesPaid(t)'
  BY <1>3 DEF TriesPaid
<1>4. ASSUME NextTry(t), th[t].pc \in {"ask", "asked", "relay", "relayed"},
             \/ trouble' = trouble + 1
             \/ /\ th[t].pc # "ask" /\ trouble' = trouble
                /\ th[t].pc = "asked" => th[t].try <= trouble
      PROVE  TriesPaid(t)'
  <2>1. CASE th[t].pc \in {"relay", "relayed"}
    BY <1>3, <1>4, <2>1, GoesOn
  <2>2. CASE th[t].pc \in {"ask", "asked"} /\ trouble' = trouble + 1
    <3>1. th[t].try <= trouble + 1
      BY <2>2 DEF TriesPaid
    <3>2. \/ th'[t].pc = "ask" /\ th'[t].try = th[t].try + 1
          \/ th'[t].pc = "gone" /\ th[t].try >= MaxTry
      BY <1>4, <2>2, GoesOn
    <3> QED BY <1>1, <2>2, <3>1, <3>2 DEF TriesPaid
  <2>3. CASE th[t].pc = "asked" /\ trouble' = trouble /\ th[t].try <= trouble
    <3>1. \/ th'[t].pc = "ask" /\ th'[t].try = th[t].try + 1
          \/ th'[t].pc = "gone" /\ th[t].try >= MaxTry
      BY <1>4, <2>3, GoesOn
    <3> QED BY <1>1, <2>3, <3>1 DEF TriesPaid
  <2> QED BY <1>1, <1>4, <2>1, <2>2, <2>3
<1>5. ASSUME Step(t) PROVE TriesPaid(t)'
  <2>1. CASE Check(t) \/ Connect(t) \/ Fetch(t)
    <3>1. CASE Check(t)
      <4>1. th'[t].pc \in {"data", "connect"}
        BY <3>1, GoesTo, GoesToPeer DEF Check
      <4> QED BY <1>3, <4>1
    <3>2. CASE Announce(t)
      <4>1. th'[t].pc = "direct"
        BY <3>2, GoesToPeer DEF Announce
      <4> QED BY <1>3, <4>1
    <3>3. CASE Goto(t, "lookup") \/ Goto(t, "crashed")
      <4>1. th'[t].pc \in {"lookup", "crashed"}
        BY <3>3, GoesTo
      <4> QED BY <1>3, <4>1
    <3> QED BY <2>1, <3>1, <3>2, <3>3 DEF Connect, Fetch
  <2>2. CASE Lookup(t)
    <3>1. trouble' = trouble
      BY <2>2 DEF Lookup, faultVars
    <3>2. (th'[t].pc = "ask" /\ th'[t].try = 1) \/ th'[t].pc = "fetch"
      BY <2>2, GoesTo, GoesToAsk DEF Lookup
    <3> QED BY <1>1, <3>1, <3>2 DEF TriesPaid
  <2>3. CASE Send(t)
    <3>1. CASE th[t].pc = "ask"
      <4>1. /\ th'[t].pc = "asked" /\ th'[t].try = th[t].try /\ trouble' = trouble
            /\ th[t].try <= trouble + 1
        BY <2>3, <3>1, GoesAfterSend DEF Send, TriesPaid
      <4>2. IpComing(Target[t])'
        <5>1. PICK m : m = [kind |-> "getip", to |-> Server, mac |-> Target[t]]
          OBVIOUS
        <5>2. m \in net'
          BY <2>3, <3>1, <5>1 DEF Send, Datagram, Destination
        <5> QED BY <5>1, <5>2 DEF IpComing
      <4> QED BY <1>1, <4>1, <4>2 DEF TriesPaid
    <3>2. CASE th[t].pc # "ask"
      BY <1>3, <2>3, <3>2, GoesAfterSend DEF Send
    <3> QED BY <3>1, <3>2
  <2>4. ASSUME NEW m \in net, SendAstray(t, m) PROVE TriesPaid(t)'
    <3>1. CASE th[t].pc = "ask"
      <4>1. /\ th'[t].pc = "asked" /\ th'[t].try = th[t].try /\ trouble' = trouble + 1
            /\ th[t].try <= trouble + 1
        BY <2>4, <3>1, GoesAfterSend DEF SendAstray, TriesPaid
      <4> QED BY <1>1, <4>1 DEF TriesPaid
    <3>2. CASE th[t].pc # "ask"
      BY <1>3, <2>4, <3>2, GoesAfterSend DEF SendAstray
    <3> QED BY <3>1, <3>2
  <2>5. CASE SendFails(t)
    <3>1. trouble' = trouble + 1
      BY <2>5 DEF SendFails
    <3>2. CASE th[t].pc \in {"data", "direct"}
      BY <1>3, <2>5, <3>2, GoesTo, GoesAfterSend DEF SendFails
    <3>3. CASE th[t].pc \in {"ask", "relay"}
      BY <1>1, <1>4, <2>5, <3>1, <3>3 DEF SendFails
    <3> QED BY <2>5, <3>2, <3>3 DEF SendFails, Sending
  <2>6. CASE Answer(t)
    BY <1>3, <2>6, GoesTo, GoesRound DEF Answer
  <2>7. CASE TimeOut(t)
    <3>1. th[t].pc \in {"asked", "relayed"} /\ NextTry(t) /\ Awaited(t) \notin flags
      BY <2>7 DEF TimeOut
    <3>2. CASE Quiet
      <4>1. trouble' = trouble
        BY <2>7, <3>2 DEF TimeOut
      <4>2. th[t].pc = "asked" => ~IpComing(Target[t])
        BY <3>1, <3>2
           DEF Quiet, Call, Awaited, IpFlag, IpComing, Answered, Hears, Sets, IpSet
      <4>3. th[t].pc = "asked" => th[t].try <= trouble
        BY <4>2 DEF TriesPaid
      <4> QED BY <1>4, <3>1, <4>1, <4>3
    <3>3. CASE ~Quiet
      BY <1>4, <2>7, <3>1, <3>3 DEF TimeOut
    <3> QED BY <3>2, <3>3
  <2> QED BY <1>5, <2>1, <2>2, <2>3, <2>4, <2>5, <2>6, <2>7 DEF Step
<1>6. ASSUME NEW s \in Thread, Step(s), s # t, ~Step(t) PROVE TriesPaid(t)'
  BY <1>2, <1>6, OthersStay DEF Others
<1>7. CASE (Reader \/ World) /\ ~Step(t)
  <2>1. th' = th
    BY <1>7 DEF Reader, World, Read, ProcMsgGetUserClientAck, ProcMsgP2PConnectAck,
       AddPeer, SetFlag, TakeCall, AnswerCall, ProcGetUserClientIP, ProcP2PConnectMsg,
       Drop, Lose, ProcMsgP2PConnect, CallClient, Move, Unlist, LogIn
  <2> QED BY <1>2, <1>7, <2>1
<1> QED BY <1>5, <1>6, <1>7 DEF Next

-----------------------------------------------------------------------------
(* What becomes of the entries of a provider.                              *)

LEMMA EntriesAfterDeleting ==
    ASSUME users \in Seq(Peer), NEW q, NEW p, users' = Without(q),
           \A i, j \in At(p) : i = j
    PROVE  /\ \A i, j \in At(p)' : i = j
           /\ p = q => At(p)' = {}
           /\ p # q => (Listed(p)' <=> Listed(p)) /\ (Ready(p) => Ready(p)')
<1>0. Len(users) \in Nat /\ users \in [1..Len(users) -> Peer]
  BY LenProperties
<1>1. CASE ~Listed(q)
  <2>1. users' = users
    BY <1>1 DEF Without
  <2> QED BY <1>1, <2>1 DEF Listed, Ready, At
<1>2. CASE Listed(q)
  <2> DEFINE f == First(q)
             n == Len(users) - 1
             w == [i \in 1..n |-> IF i < f THEN users[i] ELSE users[i + 1]]
             g(i) == IF i < f THEN i ELSE i + 1
  <2>1. f \in 1..Len(users) /\ users[f].mac = q
    BY <1>2, FirstIsThere DEF At
  <2>2. users' = w
    BY <1>2 DEF Without
  <2> HIDE DEF f
  <2>3. n \in Nat /\ w \in [1..n -> Peer]
    BY <1>0, <2>1
  <2>4. Len(w) = n
    BY <2>3, LenProperties, SeqDef
  <2>5. \A i \in 1..n : g(i) \in 1..Len(users) /\ g(i) # f /\ w[i] = users[g(i)]
    BY <1>0, <2>1
  <2>6. \A i, j \in 1..n : g(i) = g(j) => i = j
    BY <2>1, <2>3
  <2> HIDE DEF w, n, g
  <2>7. \A i \in At(p)' : i \in 1..n /\ g(i) \in At(p)
    BY <2>2, <2>4, <2>5 DEF At
  <2>8. \A i, j \in At(p)' : i = j
    BY <2>6, <2>7
  <2>9. ASSUME p = q PROVE At(p)' = {}
    <3>1. f \in At(p)
      BY <2>1, <2>9 DEF At
    <3> QED BY <2>5, <2>7, <3>1
  <2>10. ASSUME p # q PROVE (Listed(p)' <=> Listed(p)) /\ (Ready(p) => Ready(p)')
    <3>1. \A j \in At(p) : \E i \in At(p)' : users'[i] = users[j]
      BY <2>10, Deleting DEF At
    <3> QED BY <2>7, <3>1 DEF Listed, Ready
  <2> QED BY <2>8, <2>9, <2>10
<1> QED BY <1>1, <1>2

LEMMA EntriesAfterAdding ==
    ASSUME users \in Seq(Peer), NEW e \in Peer, NEW p, users' = Append(users, e)
    PROVE  /\ e.mac # p => At(p)' = At(p) /\ (Ready(p) <=> Ready(p)')
           /\ e.mac = p /\ At(p) = {} => /\ \A i, j \in At(p)' : i = j
                                         /\ At(p)' # {}
                                         /\ e.p2p # None => Ready(p)'
<1>1. /\ Len(users) \in Nat /\ Len(users') = Len(users) + 1
      /\ \A i \in 1..Len(users) : users'[i] = users[i]
      /\ users'[Len(users) + 1] = e
  BY Adding
<1>2. ASSUME e.mac # p PROVE At(p)' = At(p) /\ (Ready(p) <=> Ready(p)')
  <2>1. At(p)' = At(p)
    BY <1>1, <1>2 DEF At
  <2> QED BY <1>1, <2>1 DEF Ready, At
<1>3. ASSUME e.mac = p, At(p) = {}
      PROVE  /\ \A i, j \in At(p)' : i = j
             /\ At(p)' # {}
             /\ e.p2p # None => Ready(p)'
  <2>1. At(p)' = {Len(users) + 1}
    BY <1>1, <1>3 DEF At
  <2> QED BY <1>1, <2>1 DEF Ready
<1> QED BY <1>2, <1>3

-----------------------------------------------------------------------------
(* A punch goes on without faults.                                         *)

LEMMA PunchGoesOn ==
    ASSUME HolePunchInv, StillPart, Next, trouble' = trouble,
           trouble = 0, NEW p \in Provider, ConnComing(p), p \in opened,
           \A s \in Thread : Step(s) => p # Target[s]
    PROVE  ConnComing(p)'
<1>0. trouble \in Nat /\ Home(p) # Server /\ Home(p)[1] = p
  BY HomeIsAddress DEF HolePunchInv, WorldPart
<1>1. ASSUME NEW s \in Thread, Step(s) PROVE ConnComing(p)'
  <2>1. p # Target[s] /\ net \subseteq net' /\ UNCHANGED readerVars
    BY <1>0, <1>1, ThreadFrames DEF ThreadFrame
  <2>2. ConnSet(p) => ConnSet(p)'
    BY <1>1, <2>1, FlagsTaken
  <2> QED BY <2>1, <2>2 DEF ConnComing, ConnMsg, Acks, readerVars
<1>2. ASSUME NEW m \in net, Read(m) PROVE ConnComing(p)'
  <2>1. /\ m \in Ack \cup Call /\ rPc = "idle" /\ rMsg' = m /\ rPc' = m.kind
        /\ flags' = flags /\ net' = net \ {m}
    BY <1>2 DEF Read
  <2>2. m.kind \in {"ipack", "connack", "call"}
    BY <2>1 DEF Ack, Call
  <2>3. CASE ConnMsg(m, p)
    BY <2>1, <2>2, <2>3 DEF ConnMsg, ConnComing
  <2>4. CASE ~ConnMsg(m, p)
    BY <2>1, <2>4 DEF ConnMsg, ConnComing, Acks, ConnSet
  <2> QED BY <2>3, <2>4
<1>3. CASE ProcMsgGetUserClientAck
  BY <1>3 DEF ProcMsgGetUserClientAck, ConnComing, ConnMsg, Acks, ConnSet
<1>4. CASE ProcMsgP2PConnectAck \/ AddPeer
  <2>1. rMsg \in Ack \/ rPc = "add"
    BY <1>4 DEF ProcMsgP2PConnectAck, AddPeer, HolePunchInv, ReaderPart, MsgOK, Request,
       Ack, Call
  <2>2. rMsg.kind = "connack"
    BY <1>4 DEF ProcMsgP2PConnectAck, AddPeer, HolePunchInv, ReaderPart
  <2>3. /\ rPc' \in {"flag", "add"} /\ UNCHANGED <<flags, net>>
        /\ rMsg'.info.mac = rMsg.info.mac /\ rMsg'.kind = rMsg.kind
    <3>1. CASE AddPeer
      BY <3>1 DEF AddPeer
    <3>2. CASE ProcMsgP2PConnectAck
      <4>1. rMsg \in Ack /\ rMsg.info \in Info /\ Listed(rMsg.info.mac)
        BY <3>2, <2>2, <2>1 DEF ProcMsgP2PConnectAck, HolePunchInv, ReaderPart, MsgOK, Ack,
           Known, Misled, Replacing
      <4>2. rMsg' \in {rMsg, [rMsg EXCEPT !.info = NewPeer(@, peer)]}
            /\ rPc' \in {"flag", "add"} /\ UNCHANGED <<flags, net>>
        BY <3>2, <4>1 DEF ProcMsgP2PConnectAck
      <4> QED BY <4>1, <4>2, <2>2 DEF Ack, NewPeer
    <3> QED BY <1>4, <3>1, <3>2
  <2>4. rPc # "flag"
    BY <1>4 DEF ProcMsgP2PConnectAck, AddPeer
  <2> QED BY <2>2, <2>3, <2>4 DEF ConnComing, ConnMsg, Acks, ConnSet
<1>5. CASE SetFlag
  <2>1. rPc = "flag" /\ net' = net /\ flags \subseteq flags'
    BY <1>5 DEF SetFlag
  <2>2. CASE Acks(p)
    <3>1. rMsg.info.addr = Home(p)
      BY <2>1, <2>2 DEF Acks, StillPart, StillReader, StillMsg
    <3> QED BY <1>5, <2>2, <3>1 DEF SetFlag, ConnComing, ConnSet, Acks
  <2> QED BY <2>1, <2>2 DEF ConnComing, ConnMsg, ConnSet
<1>6. ASSUME NEW m \in net, net \ {m} \subseteq net', UNCHANGED <<flags, readerVars>>,
             ConnMsg(m, p) => \E n \in net' : ConnMsg(n, p)
      PROVE  ConnComing(p)'
  <2>1. (\E n \in net : ConnMsg(n, p)) => \E n \in net' : ConnMsg(n, p)
    BY <1>6
  <2> QED BY <1>6, <2>1 DEF ConnComing, ConnMsg, Acks, ConnSet, readerVars
<1>7. ASSUME NEW m \in net, ProcGetUserClientIP(m) PROVE ConnComing(p)'
  BY <1>6, <1>7 DEF ProcGetUserClientIP, Reply, ConnMsg
<1>8. ASSUME NEW m \in net, ProcP2PConnectMsg(m) PROVE ConnComing(p)'
  <2>1. m.kind = "connect" /\ net \ {m} \subseteq net' /\ UNCHANGED <<flags, readerVars>>
    BY <1>8 DEF ProcP2PConnectMsg, Reply
  <2>2. ASSUME ConnMsg(m, p) PROVE \E n \in net' : ConnMsg(n, p)
    <3>0. PICK n : n = [kind |-> "forwarded", to |-> dir[m.mac], mac |-> m.mac]
      OBVIOUS
    <3>1. m.mac = p
      BY <2>1, <2>2 DEF ConnMsg
    <3>2. n \in net'
      BY <1>8, <3>0, <3>1, HomeIsAddress DEF ProcP2PConnectMsg, Reply, StillPart, StillWorld
    <3> QED BY <3>0, <3>1, <3>2 DEF ConnMsg
  <2> QED BY <1>6, <2>1, <2>2
<1>9. ASSUME NEW q \in Provider, NEW m \in net, ProcMsgP2PConnect(q, m) PROVE ConnComing(p)'
  <2>0. PICK n : n = [kind |-> "connack", from |-> nat[q],
                      info |-> [mac |-> q, addr |-> known[q]]]
    OBVIOUS
  <2>1. /\ m.kind \in {"connect", "forwarded"} /\ m.to = Home(q)
        /\ net' = (net \ {m}) \cup {n} /\ UNCHANGED <<flags, readerVars>>
    BY <1>9, <2>0 DEF ProcMsgP2PConnect, Reply, StillPart, StillWorld
  <2>2. ASSUME ConnMsg(m, p) PROVE ConnMsg(n, p)
    <3>1. m.kind = "forwarded" /\ m.mac = p
      BY <2>1, <2>2, HomeIsAddress DEF ConnMsg
    <3>2. Home(p) = Home(q)
      BY <2>1, <3>1 DEF StillPart, StillNet, StillMsg
    <3>3. p = q
      BY <3>2 DEF Home
    <3> QED BY <2>0, <3>3 DEF ConnMsg
  <2> QED BY <1>6, <2>1, <2>2
<1>10. ASSUME NEW m \in net, Drop(m) PROVE ConnComing(p)'
  <2>1. Undeliverable(m) /\ net' = net \ {m} /\ UNCHANGED <<flags, readerVars>>
    BY <1>10 DEF Drop
  <2>2. MsgOK(m) /\ StillMsg(m)
    BY DEF HolePunchInv, NetPart, StillPart, StillNet
  <2>3. ~ConnMsg(m, p)
    <3>1. m.kind = "connack" /\ m.info.mac = p => LetIn(m.from) /\ m \notin Request
      BY <1>0, <2>2 DEF StillMsg, LetIn, Request
    <3>2. m.kind = "forwarded" /\ m.mac = p
             => m \notin Ack \cup Call /\ m.to = nat[m.to[1]]
      BY <1>0, <2>2 DEF StillMsg, StillPart, StillWorld, Ack, Call
    <3>3. m.kind = "connect" => m \notin Ack \cup Call
      BY DEF Ack, Call
    <3> QED BY <2>1, <3>1, <3>2, <3>3 DEF Undeliverable, ConnMsg
  <2> QED BY <1>6, <2>1, <2>3
<1>11. ASSUME NEW m \in net, Lose(m) PROVE FALSE
  BY <1>0, <1>11 DEF Lose
<1>12. ASSUME NEW q \in Provider, Move(q) \/ Unlist(q) \/ LogIn(q) PROVE ConnComing(p)'
  BY <1>12 DEF Move, Unlist, LogIn, ConnComing, ConnMsg, Acks, ConnSet, readerVars
<1>13. CASE TakeCall \/ AnswerCall
  BY <1>13 DEF TakeCall, AnswerCall, ConnComing, ConnMsg, Acks, ConnSet
<1>14. ASSUME NEW q \in Provider, CallClient(q) PROVE ConnComing(p)'
  BY <1>14 DEF CallClient, ConnComing, ConnMsg, Acks, ConnSet, readerVars
<1> QED BY <1>1, <1>2, <1>3, <1>4, <1>5, <1>7, <1>8, <1>9, <1>10, <1>11, <1>12, <1>13, <1>14
    DEF Next, Reader, World

-----------------------------------------------------------------------------
(* A lone thread without faults.                                           *)

(* Nothing begins in a step that has to do with an inquiry about p. *)
Wanes(p) ==
    /\ \A m \in net' : m.kind = "getip" /\ m.mac = p => m \in net
    /\ Answered(p)' => Answered(p)
    /\ Hears(p)' => Hears(p)
    /\ Sets(p)' => Sets(p)
    /\ IpSet(p)' => IpSet(p)
    /\ Known(p)' => Known(p)

LEMMA InquiryWanes ==
    ASSUME NEW p, OneInquiry(p), Wanes(p)
    PROVE  OneInquiry(p)' /\ (Inquired(p)' => Inquired(p))
<1>1. Inquired(p)' => Inquired(p)
  BY DEF Wanes, Inquired
<1>2. \A m \in net' : m.kind = "getip" /\ m.mac = p => m.to = Server
  BY DEF Wanes, OneInquiry
<1> QED BY <1>1, <1>2 DEF OneInquiry, Wanes

LEMMA SameClient ==
    ASSUME NEW p, users' = users, UNCHANGED readerVars
    PROVE  /\ At(p)' = At(p) /\ Listed(p)' = Listed(p) /\ Known(p)' = Known(p)
           /\ Ready(p)' = Ready(p) /\ Replacing(p)' = Replacing(p)
           /\ Hears(p)' = Hears(p) /\ Sets(p)' = Sets(p) /\ Acks(p)' = Acks(p)
<1>1. At(p)' = At(p)
  BY DEF At
<1>2. Replacing(p)' = Replacing(p) /\ Listed(p)' = Listed(p)
  BY <1>1 DEF Replacing, readerVars, Listed
<1> QED BY <1>1, <1>2 DEF Known, Ready, Hears, Sets, Acks, readerVars

LEMMA EntryStays ==
    ASSUME NEW p, OneEntry(p), users' = users, UNCHANGED readerVars,
           ConnSet(p)' => ConnSet(p)
    PROVE  OneEntry(p)'
<1>1. /\ At(p)' = At(p) /\ Ready(p)' = Ready(p) /\ Replacing(p)' = Replacing(p)
      /\ Acks(p)' = Acks(p)
  BY SameClient
<1> QED BY <1>1 DEF OneEntry

(* A step of others leaves the thread on its way. *)
LEMMA StaysOnItsWay ==
    ASSUME HolePunchInv, StillPart, Next, trouble' = trouble, trouble = 0, NEW t \in Thread,
           Alone(t), OnItsWay(t), th'[t] = th[t], \A s \in Thread : Step(s) => s # t,
           Fresh(t) => ~Known(Target[t])' /\ ~Sets(Target[t])' /\ ~IpSet(Target[t])',
           th[t].pc # "asked" => /\ ~Inquired(Target[t])'
                                 /\ ~Answered(Target[t])'
                                 /\ ~Hears(Target[t])',
           th[t].round > 1 /\ Ready(Target[t]) => Ready(Target[t])',
           opened \subseteq opened'
    PROVE  OnItsWay(t)'
<1>1. Target[t] \in Provider /\ trouble \in Nat
  BY TargetsProvide, Counters
<1>2. \A s \in Thread : Step(s) => Target[t] # Target[s]
  BY DEF Alone
<1>3. IpComing(Target[t]) => IpComing(Target[t])'
  BY <1>1, <1>2, InquiryGoesOn
<1>4. ConnComing(Target[t]) /\ Target[t] \in opened => ConnComing(Target[t])'
  BY <1>1, <1>2, PunchGoesOn
<1> QED BY <1>3, <1>4 DEF OnItsWay, Fresh

LEMMA StaysSmooth ==
    ASSUME HolePunchInv, StillPart, Next, trouble' = trouble, trouble = 0, NEW t \in Thread,
           Alone(t), Smooth(t), th'[t] = th[t], \A s \in Thread : Step(s) => s # t,
           Wanes(Target[t]), OneEntry(Target[t])',
           th[t].round > 1 /\ Ready(Target[t]) => Ready(Target[t])',
           opened \subseteq opened'
    PROVE  Smooth(t)'
<1>1. OneInquiry(Target[t])' /\ (Inquired(Target[t])' => Inquired(Target[t]))
  BY InquiryWanes DEF Smooth
<1>2. OnItsWay(t)'
  <2>1. Fresh(t) => ~Known(Target[t])' /\ ~Sets(Target[t])' /\ ~IpSet(Target[t])'
    BY DEF Smooth, OnItsWay, Wanes
  <2>2. th[t].pc # "asked" => /\ ~Inquired(Target[t])'
                              /\ ~Answered(Target[t])'
                              /\ ~Hears(Target[t])'
    BY <1>1 DEF Smooth, OnItsWay, Wanes
  <2> QED BY <2>1, <2>2, StaysOnItsWay DEF Smooth
<1> QED BY <1>1, <1>2 DEF Smooth

(* Another thread's step. *)
LEMMA SmoothBesides ==
    ASSUME HolePunchInv, StillPart, Next, trouble' = trouble, trouble = 0, NEW t \in Thread,
           Alone(t), Smooth(t), NEW s \in Thread, Step(s), s # t, ~Step(t)
    PROVE  Smooth(t)'
<1>1. Target[t] \in Provider /\ Target[t] # Target[s] /\ trouble \in Nat
  BY TargetsProvide, Counters DEF Alone
<1>2. /\ users' = users /\ UNCHANGED readerVars /\ net \subseteq net'
      /\ opened \subseteq opened' /\ th'[t] = th[t]
      /\ \A m \in net' : m \in net \/ /\ m.kind \in {"getip", "connect"}
                                      /\ m.mac = Target[s]
  BY <1>1, ThreadFrames DEF ThreadFrame, Others
<1>3. (IpSet(Target[t])' => IpSet(Target[t])) /\ (ConnSet(Target[t])' => ConnSet(Target[t]))
  BY <1>1, FlagsTaken
<1>4. Wanes(Target[t])
  BY <1>1, <1>2, <1>3, SameClient DEF Wanes, Answered
<1>5. OneEntry(Target[t])' /\ Ready(Target[t])' = Ready(Target[t])
  BY <1>2, <1>3, EntryStays, SameClient DEF Smooth
<1> QED BY <1>2, <1>4, <1>5, StaysSmooth

(* Its own step. *)
LEMMA SmoothOwn ==
    ASSUME HolePunchInv, StillPart, NEW t \in Thread, Smooth(t), Step(t),
           Faultless, trouble' = trouble, MaxRounds > 1
    PROVE  Smooth(t)'
<1> DEFINE p == Target[t]
<1>1. /\ p \in Provider /\ th[t] \in Locals /\ th[t].round \in Nat /\ th[t].round >= 1
      /\ Home(p) # Server /\ Home(p)[1] = p /\ UsersPart /\ users \in Seq(Peer)
  BY TargetsProvide, HomeIsAddress DEF HolePunchInv, ThreadPart, Locals, UsersPart
<1>2. ThreadFrame(t)
  BY ThreadFrames
<1>3. users' = users /\ UNCHANGED readerVars /\ opened \subseteq opened' /\ net \subseteq net'
  BY <1>2 DEF ThreadFrame, Faultless
<1>4. /\ Listed(p)' = Listed(p) /\ Known(p)' = Known(p) /\ Ready(p)' = Ready(p)
      /\ Hears(p)' = Hears(p) /\ Sets(p)' = Sets(p)
  BY <1>3, SameClient
<1>5. StillThread(t)
  BY DEF StillPart
<1> HIDE DEF p
<1>6. OneInquiry(p) /\ OneEntry(p) /\ OnItsWay(t) /\ p = Target[t]
  BY DEF Smooth, p
<1>7. th[t].pc \notin {"check", "data"} => th[t].round = 1
  BY <1>1, <1>6 DEF OnItsWay
(* Where no datagram is sent and no flag set, it depends on the thread.    *)
<1>8. ASSUME net' = net, flags' \subseteq flags, OnItsWay(t)' PROVE Smooth(t)'
  <2>1. Wanes(p) /\ (ConnSet(p)' => ConnSet(p))
    BY <1>4, <1>8 DEF Wanes, Answered, IpSet, ConnSet
  <2> QED BY <1>3, <1>6, <1>8, <2>1, InquiryWanes, EntryStays DEF Smooth
<1>9. ASSUME net' = net
      PROVE  Inquired(p)' = Inquired(p) /\ Answered(p)' = Answered(p)
  BY <1>9 DEF Inquired, Answered
<1>10. CASE Check(t)
  <2>1. net' = net /\ flags' = flags /\ opened' = opened /\ th[t].pc = "check"
    BY <1>10 DEF Check, routerVars
  <2>2. ~Inquired(p) /\ ~Answered(p) /\ ~Hears(p)
    BY <1>6, <2>1 DEF OnItsWay
  <2>3. CASE th[t].round = 1
    <3>1. ~Known(p) /\ ~Sets(p) /\ ~IpSet(p)
      BY <1>6, <2>1, <2>3 DEF OnItsWay, Fresh
    <3>2. Goto(t, "connect")
      BY <1>6, <1>10, <3>1 DEF Check, Known
    <3>3. th'[t].pc = "connect" /\ th'[t].round = 1
      BY <2>3, <3>2, GoesTo
    <3>4. OnItsWay(t)'
      BY <1>4, <1>6, <1>9, <2>1, <2>2, <3>1, <3>3 DEF OnItsWay, IpSet
    <3> QED BY <1>8, <2>1, <3>4
  <2>4. CASE th[t].round # 1
    <3>1. PICK i \in At(p) : users[i].p2p # None
      BY <1>1, <1>6, <2>4 DEF OnItsWay, Ready
    <3>2. Listed(p) /\ GetAPeer(p).p2p # None
      <4>1. PICK j \in At(p) : GetAPeer(p) = users[j]
        BY <1>1, <3>1, GetAPeerWorks DEF Listed
      <4> QED BY <1>6, <3>1, <4>1 DEF OneEntry, Listed
    <3>3. th'[t].pc = "data" /\ th'[t].round = th[t].round
      BY <1>6, <1>10, <3>2, GoesToPeer DEF Check
    <3>4. OnItsWay(t)'
      BY <1>1, <1>4, <1>6, <1>9, <2>1, <2>2, <2>4, <3>3 DEF OnItsWay, Fresh
    <3> QED BY <1>8, <2>1, <3>4
  <2> QED BY <2>3, <2>4
<1>11. CASE Connect(t) \/ Lookup(t)
  <2>1. /\ net' = net /\ opened' = opened /\ th[t].pc \in {"connect", "lookup"}
        /\ th[t].round = 1
    BY <1>7, <1>11 DEF Connect, Lookup, routerVars
  <2>2. /\ ~Inquired(p) /\ ~Answered(p) /\ ~Hears(p)
        /\ ~Known(p) /\ ~Sets(p) /\ ~IpSet(p)
    BY <1>6, <2>1 DEF OnItsWay, Fresh
  <2>3. /\ flags' \subseteq flags /\ th'[t].round = 1
        /\ th'[t].pc \in {"lookup", "ask"}
    <3>1. CASE Connect(t)
      <4>1. Goto(t, "lookup") /\ flags' = flags
        BY <1>6, <2>2, <3>1 DEF Connect, Known
      <4> QED BY <2>1, <4>1, GoesTo
    <3>2. CASE Lookup(t)
      <4>1. Become(t, [th[t] EXCEPT !.pc = "ask", !.try = 1]) /\ flags' \subseteq flags
        BY <1>6, <2>2, <3>2 DEF Lookup, Known
      <4> QED BY <2>1, <4>1, GoesToAsk
    <3> QED BY <1>11, <3>1, <3>2
  <2>4. OnItsWay(t)'
    BY <1>4, <1>6, <1>9, <2>1, <2>2, <2>3 DEF OnItsWay, IpSet
  <2> QED BY <1>8, <2>1, <2>3, <2>4
<1>12. CASE Fetch(t)
  <2>1. /\ net' = net /\ opened' = opened /\ th[t].pc = "fetch" /\ th[t].round = 1
    BY <1>7, <1>12 DEF Fetch, routerVars
  <2>2. ~Inquired(p) /\ ~Answered(p) /\ ~Hears(p)
    BY <1>6, <2>1 DEF OnItsWay
  <2>3. /\ flags' \subseteq flags /\ th'[t].round = 1
        /\ th'[t].pc \in {"direct", "crashed"}
    <3>1. CASE Announce(t)
      BY <2>1, <3>1, GoesToPeer DEF Announce
    <3>2. CASE Goto(t, "crashed") /\ flags' = flags
      BY <2>1, <3>2, GoesTo
    <3> QED BY <1>12, <3>1, <3>2 DEF Fetch
  <2>4. OnItsWay(t)'
    BY <1>4, <1>6, <1>9, <2>1, <2>2, <2>3 DEF OnItsWay, Fresh
  <2> QED BY <1>8, <2>1, <2>3, <2>4
<1>13. CASE Send(t)
  <2>1. /\ Sending(t) /\ AfterSend(t) /\ peer' = Destination(t) /\ flags' = flags
        /\ net' = net \cup Datagram(t, peer') /\ opened' = opened \cup Reached(peer')
    BY <1>13 DEF Send
  <2>2. ~Inquired(p) /\ ~Answered(p) /\ ~Hears(p)
    BY <1>6, <2>1 DEF OnItsWay, Sending
  <2>3. CASE th[t].pc = "data"
    <3>1. net' = net /\ th'[t].pc = "sent" /\ th'[t].round = 1
      BY <2>1, <2>3, GoesAfterSend DEF Datagram
    <3>2. OnItsWay(t)'
      BY <1>4, <1>6, <1>9, <2>2, <3>1 DEF OnItsWay, Fresh
    <3> QED BY <1>8, <2>1, <3>1, <3>2
  <2>4. CASE th[t].pc = "ask"
    <3>0. PICK m : m = [kind |-> "getip", to |-> Server, mac |-> p]
      OBVIOUS
    <3>1. net' = net \cup {m} /\ th'[t].pc = "asked" /\ th'[t].round = 1
      BY <1>6, <1>7, <2>1, <2>4, <3>0, GoesAfterSend DEF Datagram, Destination
    <3>2. ~Known(p) /\ ~Sets(p) /\ ~IpSet(p)
      BY <1>6, <1>7, <2>4 DEF OnItsWay, Fresh
    <3>3. /\ ~Answered(p)' /\ ~Hears(p)' /\ ~Known(p)' /\ ~Sets(p)' /\ ~IpSet(p)'
      BY <1>4, <2>1, <2>2, <3>0, <3>1, <3>2 DEF Answered, IpSet
    <3>4. OneInquiry(p)'
      BY <1>6, <3>0, <3>1, <3>3 DEF OneInquiry
    <3>5. IpComing(p)'
      BY <3>0, <3>1 DEF IpComing
    <3>6. OnItsWay(t)'
      BY <1>6, <3>1, <3>5 DEF OnItsWay, Fresh
    <3>7. OneEntry(p)'
      BY <1>3, <1>6, <2>1, EntryStays DEF ConnSet
    <3> QED BY <1>6, <3>4, <3>6, <3>7 DEF Smooth
  <2>5. CASE th[t].pc \in {"direct", "relay"}
    <3>0. PICK m : m = [kind |-> "connect", to |-> peer', mac |-> p]
      OBVIOUS
    <3>1. net' = net \cup {m} /\ th[t].cur = Home(p)
      BY <1>5, <1>6, <2>1, <2>5, <3>0 DEF Datagram, StillThread
    <3>2. Wanes(p) /\ (ConnSet(p)' => ConnSet(p)) /\ (Inquired(p)' => Inquired(p))
      BY <1>4, <2>1, <3>0, <3>1 DEF Wanes, Answered, IpSet, ConnSet, Inquired
    <3>3. th'[t].round = 1 /\ \/ th'[t].pc = "relay" /\ th[t].pc = "direct"
                              \/ th'[t].pc = "relayed" /\ th[t].pc = "relay"
      BY <1>7, <2>1, <2>5, GoesAfterSend
    <3>4. p \in opened'
      <4>1. CASE th[t].pc = "direct"
        BY <1>1, <2>1, <3>1, <4>1 DEF Destination, Reached
      <4>2. CASE th[t].pc = "relay"
        BY <1>6, <2>1, <4>2 DEF OnItsWay
      <4> QED BY <2>5, <4>1, <4>2
    <3>5. th[t].pc = "relay" => ConnComing(p)'
      <4>1. th[t].pc = "relay" => m.to = Server
        BY <2>1, <3>0 DEF Destination
      <4> QED BY <3>0, <3>1, <4>1 DEF ConnComing, ConnMsg
    <3>6. OnItsWay(t)'
      BY <1>6, <2>2, <3>2, <3>3, <3>4, <3>5 DEF OnItsWay, Fresh, Wanes
    <3> QED BY <1>3, <1>6, <3>2, <3>6, InquiryWanes, EntryStays DEF Smooth
  <2> QED BY <2>1, <2>3, <2>4, <2>5 DEF Sending
<1>14. CASE Answer(t)
  <2>1. /\ net' = net /\ flags' \subseteq flags /\ th[t].pc \in {"asked", "relayed"}
        /\ th[t].round = 1
    BY <1>7, <1>14 DEF Answer
  <2>2. CASE th[t].pc = "asked"
    <3>1. IpSet(p) /\ th'[t].pc = "fetch" /\ th'[t].round = 1
      BY <1>6, <1>14, <2>1, <2>2, GoesTo DEF Answer, Awaited, IpFlag, IpSet
    <3>2. ~Inquired(p) /\ ~Answered(p) /\ ~Hears(p)
      BY <1>6, <3>1 DEF OneInquiry
    <3>3. OnItsWay(t)'
      BY <1>4, <1>6, <1>9, <2>1, <3>1, <3>2 DEF OnItsWay, Fresh
    <3> QED BY <1>8, <2>1, <3>3
  <2>3. CASE th[t].pc = "relayed"
    <3>1. ConnSet(p)
      BY <1>5, <1>6, <1>14, <2>3 DEF Answer, Awaited, ConnFlag, StillThread, ConnSet
    <3>2. Ready(p)
      BY <1>6, <3>1 DEF OneEntry
    <3>3. th'[t].pc = "check" /\ th'[t].round = 2
      BY <1>14, <2>1, <2>3, GoesRound DEF Answer
    <3>4. ~Inquired(p) /\ ~Answered(p) /\ ~Hears(p)
      BY <1>6, <2>3 DEF OnItsWay
    <3>5. Ready(p)' /\ ~Inquired(p)' /\ ~Answered(p)' /\ ~Hears(p)'
      BY <1>4, <1>9, <2>1, <3>2, <3>4
    <3>6. OnItsWay(t)'
      BY <1>6, <3>3, <3>5 DEF OnItsWay, Fresh
    <3> QED BY <1>8, <2>1, <3>6
  <2> QED BY <2>1, <2>2, <2>3
<1>15. ~TimeOut(t)
  <2> SUFFICES ASSUME TimeOut(t) PROVE FALSE
    OBVIOUS
  <2>1. Quiet /\ th[t].pc \in {"asked", "relayed"} /\ Awaited(t) \notin flags
    BY DEF TimeOut, Faultless
  <2>2. CASE th[t].pc = "asked"
    <3>1. IpComing(p)
      BY <1>6, <2>2 DEF OnItsWay
    <3> QED BY <1>6, <2>1, <2>2, <3>1
         DEF Quiet, Call, Awaited, IpFlag, IpComing, Answered, Hears, Sets, IpSet
  <2>3. CASE th[t].pc = "relayed"
    <3>1. ConnComing(p)
      BY <1>6, <2>3 DEF OnItsWay
    <3>2. Awaited(t) = <<"conn", Home(p)>>
      BY <1>5, <1>6, <2>3 DEF Awaited, ConnFlag, StillThread
    <3> QED BY <2>1, <3>1, <3>2 DEF Quiet, Call, ConnComing, ConnMsg, Acks, ConnSet
  <2> QED BY <2>1, <2>2, <2>3
<1>16. ~SendFails(t) /\ ~(\E m \in net : SendAstray(t, m))
  BY DEF SendFails, SendAstray, Faultless
<1> QED BY <1>10, <1>11, <1>12, <1>13, <1>14, <1>15, <1>16 DEF Step

(* The reader's steps. *)
LEMMA SmoothReads ==
    ASSUME HolePunchInv, StillPart, Next, trouble' = trouble, trouble = 0, NEW t \in Thread,
           Alone(t), Smooth(t), ~Step(t),
           NEW m \in net, Read(m)
    PROVE  Smooth(t)'
<1> DEFINE p == Target[t]
<1>1. /\ m \in Ack \cup Call /\ rPc = "idle" /\ rMsg' = m /\ rPc' = m.kind
      /\ net' = net \ {m} /\ UNCHANGED <<users, flags, th, opened>>
  BY DEF Read, routerVars
<1>2. m.kind \in {"ipack", "connack", "call"} /\ p \in Provider /\ p # None
  BY <1>1, TargetsProvide, HolePunchAssumption DEF Ack, Call
<1> HIDE DEF p
<1>3. OneInquiry(p) /\ OneEntry(p) /\ OnItsWay(t) /\ p = Target[t]
  BY DEF Smooth, p
<1>4. /\ At(p)' = At(p) /\ Ready(p)' = Ready(p) /\ Known(p)' = Known(p)
      /\ ~Replacing(p)' /\ ~Sets(p)' /\ ~Acks(p)' /\ ConnSet(p)' = ConnSet(p)
      /\ IpSet(p)' = IpSet(p)
  <2>1. At(p)' = At(p) /\ ~Replacing(p)' /\ ~Replacing(p)
    BY <1>1, <1>2 DEF At, Replacing
  <2> QED BY <1>1, <1>2, <2>1 DEF Ready, Known, Listed, Sets, Acks, ConnSet, IpSet
<1>5. OneEntry(p)'
  BY <1>3, <1>4 DEF OneEntry
<1>6. CASE m.kind = "ipack" /\ m.info.mac = p
  <2>1. Answered(p)
    BY <1>6 DEF Answered
  <2>2. ~Inquired(p) /\ ~IpSet(p) /\ ~Known(p) /\ th[t].pc = "asked"
    BY <1>3, <2>1 DEF OneInquiry, OnItsWay
  <2>3. ~Answered(p)'
    <3>1. SUFFICES ASSUME NEW n \in net', n.kind = "ipack", n.info.mac = p PROVE FALSE
      BY DEF Answered
    <3>2. /\ n \in Ack /\ m \in Ack /\ n # m /\ n.from = Server /\ m.from = Server
          /\ n.info \in Info /\ m.info \in Info
      BY <1>1, <1>2, <1>6, <3>1
         DEF HolePunchInv, NetPart, MsgOK, Request, Ack, Call, Info, Empty
    <3>3. n.info.addr = Home(p) /\ m.info.addr = Home(p)
      BY <1>1, <1>6, <3>1 DEF StillPart, StillNet, StillMsg
    <3>4. n.info = m.info
      BY <1>6, <3>1, <3>2, <3>3 DEF Info
    <3> QED BY <1>6, <3>1, <3>2, <3>4 DEF Ack
  <2>4. ~Inquired(p)' /\ (\A n \in net' : n.kind = "getip" /\ n.mac = p => n.to = Server)
    BY <1>1, <1>3, <2>2 DEF Inquired, OneInquiry
  <2>5. OneInquiry(p)'
    BY <1>4, <2>2, <2>3, <2>4 DEF OneInquiry
  <2>6. OnItsWay(t)'
    BY <1>1, <1>3, <1>4, <2>2, StaysOnItsWay DEF Fresh
  <2> QED BY <1>3, <1>5, <2>5, <2>6 DEF Smooth
<1>7. CASE ~(m.kind = "ipack" /\ m.info.mac = p)
  <2>1. Wanes(p)
    BY <1>1, <1>4, <1>7 DEF Wanes, Answered, Hears
  <2> QED BY <1>1, <1>3, <1>4, <1>5, <2>1, StaysSmooth
<1> QED BY <1>6, <1>7

LEMMA SmoothIpAck ==
    ASSUME HolePunchInv, StillPart, Next, trouble' = trouble, trouble = 0, NEW t \in Thread,
           Alone(t), Smooth(t), ~Step(t),
           ProcMsgGetUserClientAck
    PROVE  Smooth(t)'
<1> DEFINE p == Target[t]
           e == NewPeer(rMsg.info, None)
<1>1. /\ users' = Append(users, e) /\ rPc = "ipack" /\ rPc' = "flag" /\ rMsg' = rMsg
      /\ UNCHANGED <<flags, net, th, opened>>
  BY DEF ProcMsgGetUserClientAck, routerVars
<1>2. /\ rMsg.kind = "ipack" /\ rMsg.info \in Info \cup {Empty} /\ users \in Seq(Peer)
  BY <1>1 DEF HolePunchInv, ReaderPart, UsersPart, MsgOK, Request, Ack, Call
<1>3. e \in Peer /\ e.mac = rMsg.info.mac
  BY <1>2 DEF NewPeer, Peer, Info, Empty
<1> HIDE DEF p, e
<1>4. OneInquiry(p) /\ OneEntry(p) /\ OnItsWay(t) /\ p = Target[t]
  BY DEF Smooth, p
<1>5. /\ ~Replacing(p)' /\ ~Replacing(p) /\ ~Acks(p)' /\ ConnSet(p)' = ConnSet(p)
      /\ IpSet(p)' = IpSet(p) /\ ~Hears(p)' /\ ~Sets(p)
      /\ Inquired(p)' = Inquired(p) /\ Answered(p)' = Answered(p)
  BY <1>1, <1>2 DEF Replacing, Acks, ConnSet, IpSet, Hears, Sets, Inquired, Answered
<1>6. CASE rMsg.info.mac = p
  <2>1. Hears(p)
    BY <1>1, <1>6 DEF Hears
  <2>2. ~Inquired(p) /\ ~Answered(p) /\ ~IpSet(p) /\ ~Known(p) /\ th[t].pc = "asked"
    BY <1>4, <2>1 DEF OneInquiry, OnItsWay
  <2>3. At(p) = {} /\ ~ConnSet(p)
    BY <1>4, <2>2 DEF Known, Listed, OneEntry, Ready
  <2>4. \A i, j \in At(p)' : i = j
    BY <1>1, <1>2, <1>3, <1>6, <2>3, EntriesAfterAdding
  <2>5. OneEntry(p)'
    BY <1>5, <2>3, <2>4 DEF OneEntry
  <2>6. OneInquiry(p)'
    BY <1>1, <1>4, <1>5, <2>2 DEF OneInquiry
  <2>7. OnItsWay(t)'
    <3>1. th[t].round > 1 => th[t].pc # "asked"
      BY <1>4 DEF OnItsWay
    <3> QED BY <1>1, <1>4, <2>2, <3>1, StaysOnItsWay DEF Fresh
  <2> QED BY <1>4, <2>5, <2>6, <2>7 DEF Smooth
<1>7. CASE rMsg.info.mac # p
  <2>1. At(p)' = At(p) /\ (Ready(p) <=> Ready(p)')
    BY <1>1, <1>2, <1>3, <1>7, EntriesAfterAdding
  <2>2. ~Sets(p)' /\ Known(p)' = Known(p)
    BY <1>1, <1>5, <1>7, <2>1 DEF Sets, Known, Listed
  <2>3. Wanes(p)
    BY <1>1, <1>5, <2>2 DEF Wanes
  <2>4. OneEntry(p)'
    BY <1>4, <1>5, <2>1 DEF OneEntry
  <2> QED BY <1>1, <1>4, <2>1, <2>3, <2>4, StaysSmooth
<1> QED BY <1>6, <1>7

(* The only acknowledgement that replaces the entry is the first. *)
LEMMA SmoothConnAck ==
    ASSUME HolePunchInv, StillPart, Next, trouble' = trouble, trouble = 0, NEW t \in Thread,
           Alone(t), Smooth(t), ~Step(t), muddles = 0,
           ProcMsgP2PConnectAck
    PROVE  Smooth(t)'
<1> DEFINE p == Target[t]
           q == rMsg.info.mac
<1>1. /\ rPc = "connack" /\ UNCHANGED <<flags, net, th, opened>>
  BY DEF ProcMsgP2PConnectAck, routerVars
<1>2. /\ MsgOK(rMsg) /\ rMsg.kind = "connack" /\ peer = rMsg.from /\ StillMsg(rMsg)
      /\ users \in Seq(Peer) /\ UsersPart
  BY <1>1 DEF HolePunchInv, ReaderPart, WantsSource, UsersPart, StillPart, StillReader
<1>3. /\ rMsg \in Ack /\ rMsg.info \in Info /\ q \in Provider /\ peer = Home(q)
      /\ Known(q) /\ peer # None
  BY <1>2, HomeIsAddress DEF MsgOK, Misled, Request, Ack, Call, Info, StillMsg
<1>4. Listed(q)
  BY <1>1, <1>3 DEF Known, Replacing
<1>5. \/ /\ GetAPeer(q).p2p = peer /\ rPc' = "flag" /\ rMsg' = rMsg /\ users' = users
      \/ /\ GetAPeer(q).p2p # peer /\ rPc' = "add" /\ users' = Without(q)
         /\ rMsg' = [rMsg EXCEPT !.info = NewPeer(@, peer)]
  BY <1>4 DEF ProcMsgP2PConnectAck
<1>6. rMsg'.kind = "connack" /\ rMsg'.info.mac = q
  BY <1>2, <1>3, <1>5 DEF Ack, NewPeer
<1>7. PICK i \in At(q) : GetAPeer(q) = users[i]
  BY <1>2, <1>3, <1>4, GetAPeerWorks
<1> HIDE DEF p, q
<1>8. OneInquiry(p) /\ OneEntry(p) /\ OnItsWay(t) /\ p = Target[t]
  BY DEF Smooth, p
<1>9. /\ ~Replacing(p) /\ ConnSet(p)' = ConnSet(p) /\ IpSet(p)' = IpSet(p)
      /\ ~Hears(p)' /\ ~Sets(p)' /\ ~Acks(p)
      /\ Inquired(p)' = Inquired(p) /\ Answered(p)' = Answered(p)
  BY <1>1, <1>2, <1>5, <1>6 DEF Replacing, ConnSet, IpSet, Hears, Sets, Acks, Inquired,
     Answered
<1>10. ASSUME Known(p)' => Known(p), Ready(p) => Ready(p)', OneEntry(p)'
       PROVE  Smooth(t)'
  <2>1. Wanes(p)
    BY <1>1, <1>9, <1>10 DEF Wanes
  <2> QED BY <1>1, <1>8, <1>10, <2>1, StaysSmooth
<1>11. CASE users' = users /\ rPc' = "flag" /\ GetAPeer(q).p2p = peer
  <2>1. At(p)' = At(p) /\ Ready(p)' = Ready(p) /\ ~Replacing(p)'
    BY <1>11 DEF At, Ready, Replacing
  <2>2. Known(p)' = Known(p)
    BY <1>9, <2>1 DEF Known, Listed
  <2>3. Acks(p)' => Ready(p)
    <3>1. Acks(p)' => p = q
      BY <1>6 DEF Acks
    <3>2. Ready(q)
      BY <1>3, <1>7, <1>11 DEF Ready
    <3> QED BY <3>1, <3>2
  <2>4. OneEntry(p)'
    BY <1>8, <1>9, <2>1, <2>3 DEF OneEntry
  <2> QED BY <1>10, <2>1, <2>2, <2>4
<1>12. CASE GetAPeer(q).p2p # peer /\ rPc' = "add" /\ users' = Without(q)
  <2>1. /\ \A k, j \in At(p)' : k = j
        /\ p = q => At(p)' = {}
        /\ p # q => (Listed(p)' <=> Listed(p)) /\ (Ready(p) => Ready(p)')
    <3>1. (\A k, j \in At(p) : k = j) /\ users \in Seq(Peer) /\ users' = Without(q)
      BY <1>2, <1>8, <1>12 DEF OneEntry
    <3> QED BY <3>1, EntriesAfterDeleting
  <2>2. ~Acks(p)' /\ (Replacing(p)' => p = q)
    BY <1>6, <1>12 DEF Acks, Replacing
  <2>3. p = q => ~Ready(p)
    <3> SUFFICES ASSUME p = q, NEW j \in At(p), users[j].p2p # None PROVE FALSE
      BY DEF Ready
    <3>1. users[j] = GetAPeer(q)
      BY <1>7, <1>8 DEF OneEntry
    <3>2. users[j].p2p \in wrote /\ users[j].p2p[1] = p
      BY <1>2 DEF UsersPart, PeerOK, PeerRight, At
    <3>3. users[j].p2p = Home(p)
      BY <3>2 DEF StillPart
    <3> QED BY <1>3, <1>12, <3>1, <3>3
  <2>4. Known(p)' => Known(p)
    BY <1>3, <2>1, <2>2 DEF Known
  <2>5. OneEntry(p)'
    <3>1. Replacing(p)' => At(p)' = {}
      BY <2>1, <2>2
    <3>2. ConnSet(p)' => Ready(p)'
      BY <1>8, <1>9, <2>1, <2>3 DEF OneEntry
    <3> QED BY <2>1, <2>2, <3>1, <3>2 DEF OneEntry
  <2> QED BY <1>10, <2>1, <2>3, <2>4, <2>5
<1> QED BY <1>5, <1>11, <1>12

LEMMA SmoothAddPeer ==
    ASSUME HolePunchInv, StillPart, Next, trouble' = trouble, trouble = 0, NEW t \in Thread,
           Alone(t), Smooth(t), ~Step(t), AddPeer
    PROVE  Smooth(t)'
<1> DEFINE p == Target[t]
           e == rMsg.info
<1>1. /\ users' = Append(users, e) /\ rPc = "add" /\ rPc' = "flag" /\ rMsg' = rMsg
      /\ UNCHANGED <<flags, net, th, opened>>
  BY DEF AddPeer, routerVars
<1>2. /\ rMsg.kind = "connack" /\ e \in Peer /\ e.p2p # None /\ users \in Seq(Peer)
  BY <1>1 DEF HolePunchInv, ReaderPart, PeerOK, UsersPart
<1>3. Replacing(p) <=> e.mac = p
  BY <1>1, <1>2 DEF Replacing
<1>4. Acks(p)' => e.mac = p
  BY <1>1 DEF Acks
<1> HIDE DEF p, e
<1>5. OneInquiry(p) /\ OneEntry(p) /\ OnItsWay(t) /\ p = Target[t]
  BY DEF Smooth, p
<1>6. /\ ~Replacing(p)' /\ ConnSet(p)' = ConnSet(p) /\ IpSet(p)' = IpSet(p)
      /\ ~Hears(p)' /\ ~Sets(p)' /\ ~Acks(p)
      /\ Inquired(p)' = Inquired(p) /\ Answered(p)' = Answered(p)
  BY <1>1, <1>2 DEF Replacing, ConnSet, IpSet, Hears, Sets, Acks, Inquired, Answered
<1>7. CASE e.mac = p
  <2>1. At(p) = {} /\ Known(p)
    BY <1>3, <1>5, <1>7 DEF OneEntry, Known
  <2>2. (\A i, j \in At(p)' : i = j) /\ Ready(p)'
    BY <1>1, <1>2, <1>7, <2>1, EntriesAfterAdding
  <2>3. OneEntry(p)'
    BY <1>6, <2>2 DEF OneEntry
  <2>4. Wanes(p)
    BY <1>1, <1>6, <2>1 DEF Wanes
  <2> QED BY <1>1, <1>5, <2>2, <2>3, <2>4, StaysSmooth
<1>8. CASE e.mac # p
  <2>1. At(p)' = At(p) /\ (Ready(p) <=> Ready(p)')
    BY <1>1, <1>2, <1>8, EntriesAfterAdding
  <2>2. Known(p)' = Known(p)
    BY <1>3, <1>6, <1>8, <2>1 DEF Known, Listed
  <2>3. Wanes(p)
    BY <1>1, <1>6, <2>2 DEF Wanes
  <2>4. OneEntry(p)'
    BY <1>4, <1>5, <1>6, <1>8, <2>1 DEF OneEntry
  <2> QED BY <1>1, <1>5, <2>1, <2>3, <2>4, StaysSmooth
<1> QED BY <1>7, <1>8

LEMMA SmoothSetFlag ==
    ASSUME HolePunchInv, StillPart, Next, trouble' = trouble, trouble = 0, NEW t \in Thread,
           Alone(t), Smooth(t), ~Step(t), SetFlag
    PROVE  Smooth(t)'
<1> DEFINE p == Target[t]
<1>1. /\ rPc = "flag" /\ rPc' = "idle" /\ UNCHANGED <<users, net, th, opened>>
  BY DEF SetFlag, routerVars
<1> HIDE DEF p
<1>2. OneInquiry(p) /\ OneEntry(p) /\ OnItsWay(t) /\ p = Target[t]
  BY DEF Smooth, p
<1>3. /\ At(p)' = At(p) /\ Ready(p)' = Ready(p) /\ Known(p)' = Known(p)
      /\ ~Replacing(p)' /\ ~Sets(p)' /\ ~Acks(p)' /\ ~Hears(p)'
      /\ Inquired(p)' = Inquired(p) /\ Answered(p)' = Answered(p)
  <2>1. At(p)' = At(p) /\ ~Replacing(p)' /\ ~Replacing(p)
    BY <1>1 DEF At, Replacing
  <2> QED BY <1>1, <2>1 DEF Ready, Known, Listed, Sets, Acks, Hears, Inquired, Answered
<1>4. (IpSet(p)' => IpSet(p) \/ Sets(p)) /\ (ConnSet(p)' => ConnSet(p) \/ Acks(p))
  <2>1. CASE rMsg.kind = "ipack"
    BY <1>1, <2>1 DEF SetFlag, IpSet, ConnSet, Sets
  <2>2. CASE rMsg.kind # "ipack"
    <3>1. rMsg.kind = "connack" /\ rMsg.info.addr = Home(rMsg.info.mac)
      BY <1>1, <2>2 DEF HolePunchInv, ReaderPart, StillPart, StillReader, StillMsg
    <3>2. flags' = flags \cup {<<"conn", Home(rMsg.info.mac)>>}
      BY <2>2, <3>1 DEF SetFlag
    <3> QED BY <1>1, <3>1, <3>2 DEF IpSet, ConnSet, Acks, Home
  <2> QED BY <2>1, <2>2
<1>5. OneEntry(p)'
  BY <1>2, <1>3, <1>4 DEF OneEntry
<1>6. OneInquiry(p)'
  BY <1>1, <1>2, <1>3, <1>4 DEF OneInquiry
<1>7. OnItsWay(t)'
  <2>1. Fresh(t) => ~Known(p)' /\ ~Sets(p)' /\ ~IpSet(p)'
    BY <1>2, <1>3, <1>4 DEF OnItsWay
  <2>2. th[t].pc # "asked" => ~Inquired(p)' /\ ~Answered(p)' /\ ~Hears(p)'
    BY <1>2, <1>3 DEF OnItsWay
  <2> QED BY <1>1, <1>2, <1>3, <2>1, <2>2, StaysOnItsWay
<1> QED BY <1>2, <1>5, <1>6, <1>7 DEF Smooth

(* A call fills in the entry, which needs no other acknowledgement then. *)
LEMMA SmoothCalls ==
    ASSUME HolePunchInv, StillPart, Next, trouble' = trouble, trouble = 0, NEW t \in Thread,
           Alone(t), Smooth(t), ~Step(t), TakeCall \/ AnswerCall
    PROVE  Smooth(t)'
<1> DEFINE p == Target[t]
<1>1. /\ rPc \in {"call", "called"} /\ rPc' \in {"idle", "called"}
      /\ UNCHANGED <<flags, net, th>> /\ opened \subseteq opened'
  BY DEF TakeCall, AnswerCall
<1>2. \A q : /\ At(q)' = At(q) /\ Listed(q)' = Listed(q) /\ (Ready(q) => Ready(q)')
             /\ ~Replacing(q) /\ ~Replacing(q)'
  <2>1. \A q : ~Replacing(q) /\ ~Replacing(q)'
    BY <1>1 DEF Replacing
  <2>2. CASE users' = users
    <3>1. \A q : At(q)' = At(q) /\ Listed(q)' = Listed(q)
      BY <2>2 DEF At, Listed
    <3> QED BY <2>1, <2>2, <3>1 DEF Ready
  <2>3. CASE AnswerCall
    <3>1. \A q : At(q)' = At(q) /\ Listed(q)' = Listed(q)
      BY <2>3, EntryFilled
    <3>2. \A q : \A i \in At(q) : users[i].p2p # None => users'[i].p2p # None
      BY <2>3, EntryFilled DEF At
    <3> QED BY <2>1, <3>1, <3>2 DEF Ready
  <2> QED BY <2>2, <2>3 DEF TakeCall
<1> HIDE DEF p
<1>3. OneInquiry(p) /\ OneEntry(p) /\ OnItsWay(t) /\ p = Target[t]
  BY DEF Smooth, p
<1>4. /\ Known(p)' = Known(p) /\ ConnSet(p)' = ConnSet(p) /\ IpSet(p)' = IpSet(p)
      /\ ~Hears(p)' /\ ~Sets(p)' /\ ~Acks(p)' /\ Answered(p)' = Answered(p)
  BY <1>1, <1>2 DEF Known, ConnSet, IpSet, Hears, Sets, Acks, Answered
<1>5. OneEntry(p)'
  BY <1>2, <1>3, <1>4 DEF OneEntry
<1>6. Wanes(p)
  BY <1>1, <1>4 DEF Wanes
<1> QED BY <1>1, <1>2, <1>3, <1>5, <1>6, StaysSmooth

(* The server's answer is the one answer. *)
LEMMA SmoothWorld ==
    ASSUME HolePunchInv, StillPart, Next, trouble' = trouble, trouble = 0, NEW t \in Thread,
           Alone(t), Smooth(t), ~Step(t), World
    PROVE  Smooth(t)'
<1> DEFINE p == Target[t]
<1>1. /\ UNCHANGED <<users, flags, readerVars, th, opened>>
  BY DEF World, ProcGetUserClientIP, ProcP2PConnectMsg, Drop, Lose, ProcMsgP2PConnect,
     CallClient, Move, Unlist, LogIn, routerVars
<1>2. p \in Provider /\ trouble \in Nat /\ p # None
  BY TargetsProvide, Counters, HolePunchAssumption
<1> HIDE DEF p
<1>3. OneInquiry(p) /\ OneEntry(p) /\ OnItsWay(t) /\ p = Target[t]
  BY DEF Smooth, p
<1>4. /\ Ready(p)' = Ready(p) /\ Known(p)' = Known(p) /\ Hears(p)' = Hears(p)
      /\ Sets(p)' = Sets(p) /\ IpSet(p)' = IpSet(p)
  BY <1>1, SameClient DEF IpSet
<1>5. OneEntry(p)'
  BY <1>1, <1>3, EntryStays DEF ConnSet
<1>6. ASSUME \A m \in net' : \/ m \in net \/ m.kind \in {"forwarded", "connack", "call"}
                             \/ m.kind = "ipack" /\ m.info.mac # p
      PROVE  Smooth(t)'
  <2>1. Wanes(p)
    BY <1>4, <1>6 DEF Wanes, Answered
  <2> QED BY <1>1, <1>3, <1>4, <1>5, <2>1, StaysSmooth
<1>7. ASSUME NEW m \in net, ProcGetUserClientIP(m) PROVE Smooth(t)'
  <2>1. m.kind = "getip" /\ m.mac \in Provider /\ m.to = Server
    BY <1>7 DEF ProcGetUserClientIP, HolePunchInv, NetPart, MsgOK, Request, Ack, Call
  <2>2. PICK a : a = [kind |-> "ipack", from |-> Server,
                      info |-> [mac |-> m.mac, addr |-> dir[m.mac]]]
    OBVIOUS
  <2>3. dir[m.mac] # None
    BY <2>1, HomeIsAddress DEF StillPart, StillWorld
  <2>4. net' = (net \ {m}) \cup {a} /\ a.kind = "ipack" /\ a.info.mac = m.mac
    BY <1>7, <2>2, <2>3 DEF ProcGetUserClientIP, Reply
  <2>5. CASE m.mac # p
    BY <1>6, <2>4, <2>5
  <2>6. CASE m.mac = p
    <3>1. Inquired(p)
      BY <2>1, <2>6 DEF Inquired
    <3>2. /\ ~Answered(p) /\ ~Hears(p) /\ ~Sets(p) /\ ~IpSet(p) /\ ~Known(p)
          /\ th[t].pc = "asked"
      BY <1>3, <3>1 DEF OneInquiry, OnItsWay
    <3>3. ~Inquired(p)' /\ \A n \in net' : n.kind = "getip" /\ n.mac = p => n.to = Server
      <4>1. SUFFICES ASSUME NEW n \in net', n.kind = "getip", n.mac = p PROVE FALSE
        BY DEF Inquired
      <4>2. n \in net /\ n # m
        BY <2>4, <4>1
      <4>3. n \in Request /\ m \in Request /\ n.to = Server
        BY <1>3, <2>1, <4>1, <4>2
           DEF HolePunchInv, NetPart, MsgOK, Request, Ack, Call, OneInquiry
      <4> QED BY <2>1, <2>6, <4>1, <4>2, <4>3 DEF Request
    <3>4. OneInquiry(p)'
      BY <1>4, <3>2, <3>3 DEF OneInquiry
    <3>5. OnItsWay(t)'
      BY <1>1, <1>3, <1>4, <3>2, StaysOnItsWay DEF Fresh
    <3> QED BY <1>3, <1>5, <3>4, <3>5 DEF Smooth
  <2> QED BY <2>5, <2>6
<1>8. ASSUME NEW m \in net, ProcP2PConnectMsg(m) \/ Drop(m) PROVE Smooth(t)'
  BY <1>6, <1>8 DEF ProcP2PConnectMsg, Drop, Reply
<1>9. ASSUME NEW q \in Provider, NEW m \in net, ProcMsgP2PConnect(q, m) PROVE Smooth(t)'
  BY <1>6, <1>9 DEF ProcMsgP2PConnect, Reply
<1>10. ASSUME NEW m \in net, Lose(m) PROVE FALSE
  BY <1>2, <1>10 DEF Lose
<1>11. ASSUME NEW q \in Provider, Move(q) \/ Unlist(q) \/ LogIn(q) PROVE Smooth(t)'
  BY <1>6, <1>11 DEF Move, Unlist, LogIn
<1>12. ASSUME NEW q \in Provider, CallClient(q) PROVE Smooth(t)'
  BY <1>6, <1>12 DEF CallClient
<1> QED BY <1>7, <1>8, <1>9, <1>10, <1>11, <1>12 DEF World

LEMMA SmoothStep ==
    ASSUME HolePunchInv, StillPart, Next, trouble' = trouble, Faultless, MaxRounds > 1,
           NEW t \in Thread, Alone(t), Smooth(t)
    PROVE  Smooth(t)'
<1>1. CASE Step(t)
  BY <1>1, SmoothOwn
<1>2. ASSUME NEW s \in Thread, Step(s), ~Step(t) PROVE Smooth(t)'
  BY <1>2, SmoothBesides DEF Faultless
<1>3. CASE Reader /\ ~Step(t)
  BY <1>3, SmoothReads, SmoothIpAck, SmoothConnAck, SmoothAddPeer, SmoothSetFlag,
     SmoothCalls DEF Reader, Faultless
<1>4. CASE World /\ ~Step(t)
  BY <1>4, SmoothWorld DEF Faultless
<1> QED BY <1>1, <1>2, <1>3, <1>4 DEF Next

-----------------------------------------------------------------------------
(* The theorem.                                                            *)

LEMMA AloneInit == Init => AloneInv
<1> SUFFICES ASSUME Init PROVE AloneInv
  OBVIOUS
<1>1. /\ users = <<>> /\ flags = {} /\ net = {} /\ wrote = {} /\ rPc = "idle"
      /\ \A t \in Thread : th[t].pc = "check" /\ th[t].round = 1
  BY DEF Init
<1>2. StillPart
  <2>1. StillWorld
    BY DEF Init, StillWorld, Home
  <2> QED BY <1>1, <2>1
       DEF StillPart, StillNet, StillReader, StillUsers, StillThread
<1>3. ASSUME NEW t \in Thread PROVE TriesPaid(t) /\ Smooth(t)
  <2>1. \A p : At(p) = {} /\ ~Known(p)
    BY <1>1 DEF At, Known, Listed, Replacing
  <2>2. OneInquiry(Target[t])
    BY <1>1, <2>1 DEF OneInquiry, Inquired, Answered, Hears
  <2>3. OneEntry(Target[t])
    BY <1>1, <2>1 DEF OneEntry, Replacing, ConnSet, Acks
  <2>4. OnItsWay(t)
    BY <1>1, <2>1 DEF OnItsWay, Inquired, Answered, Hears, Sets, IpSet
  <2> QED BY <1>1, <2>2, <2>3, <2>4 DEF TriesPaid, Smooth
<1> QED BY <1>2, <1>3 DEF AloneInv

LEMMA AloneStep == HolePunchInv /\ AloneInv /\ [Next]_vars => AloneInv'
<1> SUFFICES ASSUME HolePunchInv, AloneInv, [Next]_vars PROVE AloneInv'
  OBVIOUS
<1>1. CASE UNCHANGED vars
  BY <1>1 DEF vars, readerVars, routerVars, worldVars, faultVars, AloneInv, StillPart,
     StillWorld, StillNet, StillMsg, StillReader, StillUsers, StillThread, TriesPaid,
     IpComing, Inquired, Answered, Hears, Sets, IpSet, Faultless, Smooth, OneInquiry,
     OneEntry, OnItsWay, Fresh, Known, Listed, At, Replacing, Ready, ConnSet, Acks,
     ConnComing, ConnMsg
<1>2. CASE Next
  <2> SUFFICES ASSUME shifts' = 0
               PROVE  /\ StillPart'
                      /\ \A t \in Thread : Alone(t) =>
                            /\ TriesPaid(t)'
                            /\ Faultless' /\ MaxRounds > 1 => Smooth(t)'
    BY DEF AloneInv, Alone
  <2>1. shifts = 0 /\ (Faultless' => Faultless /\ trouble' = trouble)
    BY <1>2, Counters DEF Faultless
  <2>2. StillPart /\ StillPart'
    BY <1>2, <2>1, StillStep DEF AloneInv
  <2>3. ASSUME NEW t \in Thread, Alone(t) PROVE TriesPaid(t)'
    BY <1>2, <2>1, <2>2, <2>3, TriesStep DEF AloneInv
  <2>4. ASSUME NEW t \in Thread, Alone(t), Faultless', MaxRounds > 1 PROVE Smooth(t)'
    BY <1>2, <2>1, <2>2, <2>4, SmoothStep DEF AloneInv
  <2> QED BY <2>2, <2>3, <2>4
<1> QED BY <1>1, <1>2

(* A thread that has its provider to itself ends because it found no       *)
(* address only after as many faults as it has tries, and offers the way   *)
(* through the server only after some fault, as long as no provider moves. *)
(* (With one round a call would end before it sees its punched address.)   *)
LoneGivesUpOnlyAfterFaults ==
    \A t \in Thread : Alone(t) /\ shifts = 0 =>
        /\ th[t].pc = "gone" => trouble >= MaxTry
        /\ th[t].pc = "offer" /\ MaxRounds > 1 => trouble + muddles > 0

(* This holds for any number of threads and providers beside the lone one, *)
(* whose answers, flags and writes share its reader, its list of peers and *)
(* its socket.                                                             *)
THEOREM LoneThreadIsServed == Spec => []LoneGivesUpOnlyAfterFaults
<1>1. HolePunchInv /\ AloneInv => LoneGivesUpOnlyAfterFaults
  <2> SUFFICES ASSUME HolePunchInv, AloneInv, NEW t \in Thread, Alone(t), shifts = 0
               PROVE  /\ th[t].pc = "gone" => trouble >= MaxTry
                      /\ th[t].pc = "offer" /\ MaxRounds > 1 => trouble + muddles > 0
    BY DEF LoneGivesUpOnlyAfterFaults
  <2>1. trouble \in Nat /\ muddles \in Nat /\ MaxTry \in Nat
    BY Bounds DEF HolePunchInv, WorldPart
  <2>2. th[t].pc = "gone" => MaxTry <= trouble
    BY DEF AloneInv, TriesPaid
  <2>3. MaxRounds > 1 /\ trouble = 0 /\ muddles = 0 => th[t].pc # "offer"
    BY DEF AloneInv, Smooth, OnItsWay, Faultless
  <2> QED BY <2>1, <2>2, <2>3
<1>2. Spec => [](HolePunchInv /\ AloneInv)
  BY HolePunchInit, HolePunchStep, AloneInit, AloneStep, PTL DEF Spec
<1> QED BY <1>1, <1>2, PTL
=============================================================================
