-------------------------- MODULE HolePunchProofs --------------------------
(***************************************************************************)
(* Proofs about module HolePunch: flags, peers and punched addresses are   *)
(* right for every number of threads, providers, tries and faults.         *)
(***************************************************************************)
EXTENDS HolePunch, SequenceTheorems, WellFoundedInduction, TLAPS

-----------------------------------------------------------------------------
(* The inductive invariant. It rests on facts that, once true, stay true:  *)
(* a provider is known, an address of it has been punched, or a request    *)
(* for another may have gone astray to it as it called.                    *)

Known(p)   == Listed(p) \/ Replacing(p)
Misled(p)  == p \in Caller /\ trouble > 0
Punched(p) == (\E i \in At(p) : users[i].p2p # None) \/ Replacing(p)

(* Unless another thread wrote in between, the punched address is one the  *)
(* peer has written from.                                                  *)
PeerRight(e) ==
    muddles = 0 /\ e.p2p # None => e.p2p \in wrote /\ e.p2p[1] = e.mac

PeerOK(e) == /\ e \in Peer
             /\ e.mac # None => e.addr \in Address /\ e.addr[1] = e.mac
             /\ PeerRight(e)

UsersPart == users \in Seq(Peer) /\ \A i \in 1..Len(users) : PeerOK(users[i])

(* Whom a request for a connection names is known, and whom it reaches, if *)
(* it did not go astray; an acknowledgement, and a call that comes         *)
(* directly, are from an address of the peer they name.                    *)
MsgOK(m) ==
    /\ m \in Request \cup Ack \cup Call
    /\ m.kind \in {"connect", "forwarded"} =>
          /\ Known(m.mac)
          /\ m.to # Server => Known(m.to[1]) \/ Misled(m.to[1])
    /\ m.kind = "ipack" /\ m.info.mac # None =>
          /\ m.info.addr \in Address
          /\ m.info.addr[1] = m.info.mac
    /\ m.kind = "connack" => /\ Known(m.info.mac) \/ Misled(m.info.mac)
                             /\ m.from \in wrote /\ m.from[1] = m.info.mac
                             /\ m.info.addr[1] = m.info.mac
    /\ m.kind = "call" =>
          /\ m.info.mac \in Caller
          /\ m.from # Server => m.from \in wrote /\ m.from[1] = m.info.mac

NetPart == \A m \in net : MsgOK(m)

(* What the reader has in hand, at each place.                             *)
ReaderPart ==
    /\ rPc \in {"idle", "ipack", "connack", "add", "flag", "call", "called", "crashed"}
    /\ rPc \in {"ipack", "connack", "call"} => MsgOK(rMsg) /\ rMsg.kind = rPc
    /\ rPc = "called" => /\ MsgOK(rMsg) /\ rMsg.kind = "call"
                         /\ muddles = 0 => peer # Server
    /\ WantsSource /\ muddles = 0 => peer = rMsg.from
    /\ rPc = "crashed" => Misled(rMsg.info.mac)
    /\ rPc = "add" => /\ rMsg.kind = "connack"
                      /\ rMsg.info.mac \in Provider /\ PeerOK(rMsg.info)
                      /\ rMsg.info.addr[1] = rMsg.info.mac
                      /\ rMsg.info.p2p # None
    /\ rPc = "flag" =>
          \/ /\ rMsg.kind = "ipack" /\ rMsg.info.mac \in Provider \cup {None}
             /\ rMsg.info.mac # None => Known(rMsg.info.mac)
          \/ /\ rMsg.kind = "connack" /\ rMsg.info.addr \in Address
             /\ Punched(rMsg.info.addr[1])

(* A thread past the look-up has an address and a known provider.          *)
LocalsOK(t, l) ==
    /\ l \in Locals
    /\ l.pc \in {"data", "direct", "relay", "relayed"} => l.cur \in Address \cup {Server}
    /\ l.pc = "direct" => l.cur[1] = Target[t]
    /\ l.pc \in {"fetch", "data", "direct", "relay", "relayed"} => Known(Target[t])
    /\ l.pc = "crashed" => Replacing(Target[t])

ThreadPart == th \in [Thread -> Locals] /\ \A t \in Thread : LocalsOK(t, th[t])

FlagOK(f) ==
    /\ f \in Flag
    /\ f[1] = "ip" /\ f[2] # None => Known(f[2])
    /\ f[1] = "conn" => Punched(f[2][1])

FlagPart == \A f \in flags : FlagOK(f)

(* Addresses and counters.                                                 *)
WorldPart ==
    /\ dir \in [Provider -> Address \cup {None}]
    /\ nat \in [Provider -> Address] /\ known \in [Provider -> Address]
    /\ \A p \in Provider : /\ nat[p][1] = p
                           /\ known[p][1] = p
                           /\ dir[p] # None => dir[p][1] = p
    /\ peer \in Address \cup {Server}
    /\ opened \subseteq Provider /\ wrote \subseteq Address
    /\ trouble \in 0..MaxFaults /\ muddles \in 0..MaxFaults
    /\ shifts \in 0..MaxFaults

HolePunchInv == UsersPart /\ ReaderPart /\ NetPart /\ ThreadPart /\ FlagPart /\ WorldPart

(* What a step leaves true. *)
Stays ==
    /\ \A p \in Provider : /\ Known(p) => Known(p)'
                           /\ Punched(p) => Punched(p)'
    /\ wrote \subseteq wrote' /\ (trouble > 0 => trouble' > 0)

-----------------------------------------------------------------------------
(* The list of peers.                                                      *)

(* There is a first entry among those with a MAC address. *)
LEMMA FirstIsThere ==
    ASSUME users \in Seq(Peer), NEW p, Listed(p)
    PROVE  First(p) \in At(p)
<1>1. At(p) \subseteq Nat
  BY LenProperties DEF At
<1>2. PICK i \in At(p) : \A j \in At(p) : <<j, i>> \notin OpToRel(<, Nat)
  BY <1>1, NatLessThanWellFounded, WFMin DEF Listed
<1>3. \A j \in At(p) : ~(j < i)
  BY <1>1, <1>2 DEF OpToRel
<1>4. \A j \in At(p) : i <= j
  BY <1>1, <1>3
<1> QED BY <1>4 DEF First

(* GetAPeer returns an entry with the MAC address and a last address. *)
LEMMA GetAPeerWorks ==
    ASSUME UsersPart, NEW p \in Provider, Listed(p)
    PROVE  /\ \E i \in At(p) : GetAPeer(p) = users[i]
           /\ GetAPeer(p) \in Peer /\ GetAPeer(p).mac = p
           /\ GetAPeer(p).addr \in Address /\ GetAPeer(p).addr[1] = p
<1>1. First(p) \in At(p) /\ First(p) \in 1..Len(users) /\ users[First(p)].mac = p
  BY FirstIsThere DEF UsersPart, At
<1> QED BY <1>1, HolePunchAssumption DEF GetAPeer, UsersPart, PeerOK

(* An entry added at the end joins the others. *)
LEMMA Adding ==
    ASSUME users \in Seq(Peer), NEW e \in Peer
    PROVE  /\ Append(users, e) \in Seq(Peer)
           /\ Len(users) \in Nat /\ Len(Append(users, e)) = Len(users) + 1
           /\ \A i \in 1..Len(users) : Append(users, e)[i] = users[i]
           /\ Append(users, e)[Len(users) + 1] = e
  BY AppendProperties, LenProperties

(* Deleting a peer takes nothing but an entry of that peer. *)
LEMMA Deleting ==
    ASSUME users \in Seq(Peer), NEW p
    PROVE  /\ Without(p) \in Seq(Peer)
           /\ \A i \in 1..Len(Without(p)) :
                 \E j \in 1..Len(users) : Without(p)[i] = users[j]
           /\ \A j \in 1..Len(users) : users[j].mac # p =>
                 \E i \in 1..Len(Without(p)) : Without(p)[i] = users[j]
<1>0. Len(users) \in Nat /\ users \in [1..Len(users) -> Peer]
  BY LenProperties
<1>1. CASE ~Listed(p)
  BY <1>1 DEF Without
<1>2. CASE Listed(p)
  <2> DEFINE f == First(p)
             n == Len(users) - 1
             w == [i \in 1..n |-> IF i < f THEN users[i] ELSE users[i + 1]]
  <2>1. f \in 1..Len(users) /\ users[f].mac = p
    BY <1>2, FirstIsThere DEF At
  <2> HIDE DEF f
  <2>2. n \in Nat /\ w \in [1..n -> Peer]
    BY <1>0, <2>1
  <2>3. w \in Seq(Peer) /\ Len(w) = n
    BY <2>2, LenProperties, SeqDef
  <2>4. \A i \in 1..n : \E j \in 1..Len(users) : w[i] = users[j]
    BY <1>0, <2>1
  <2>5. ASSUME NEW j \in 1..Len(users), users[j].mac # p
        PROVE  \E i \in 1..n : w[i] = users[j]
    <3>1. CASE j < f
      <4>1. j \in 1..n /\ w[j] = users[j]
        BY <1>0, <2>1, <3>1
      <4> QED BY <4>1
    <3>2. CASE ~(j < f)
      <4>1. j - 1 \in 1..n /\ ~(j - 1 < f) /\ (j - 1) + 1 = j
        BY <1>0, <2>1, <2>5, <3>2
      <4>2. w[j - 1] = users[j]
        BY <4>1
      <4> QED BY <4>1, <4>2
    <3> QED BY <3>1, <3>2
  <2>6. Without(p) = w
    BY <1>2 DEF Without, f
  <2> HIDE DEF w, n
  <2> QED BY <2>3, <2>4, <2>5, <2>6
<1> QED BY <1>1, <1>2

-----------------------------------------------------------------------------
(* How the parts are kept.                                                 *)

(* A step that leaves list and reader alone. *)
LEMMA Undisturbed ==
    ASSUME HolePunchInv, users' = users, readerVars' = readerVars,
           wrote \subseteq wrote', muddles' \in {muddles, muddles + 1},
           trouble' \in {trouble, trouble + 1},
           WantsSource /\ muddles' = muddles => peer' = peer
    PROVE  UsersPart' /\ ReaderPart' /\ Stays
<1>1. rPc' = rPc /\ rMsg' = rMsg /\ users' = users
  BY DEF readerVars
<1>2. \A p : Replacing(p)' = Replacing(p) /\ Listed(p)' = Listed(p) /\ At(p)' = At(p)
  BY <1>1 DEF Replacing, Listed, At
<1>3. \A p : Known(p)' = Known(p) /\ Punched(p)' = Punched(p)
  BY <1>1, <1>2 DEF Known, Punched
<1>4. (muddles' = 0 => muddles = 0) /\ (trouble > 0 => trouble' > 0)
  BY HolePunchAssumption DEF HolePunchInv, WorldPart
<1>5. UsersPart'
  BY <1>1, <1>4 DEF HolePunchInv, UsersPart, PeerOK, PeerRight
<1>6. \A m : MsgOK(m) => MsgOK(m)'
  BY <1>3, <1>4 DEF MsgOK, Misled
<1>7. WantsSource' /\ muddles' = 0 => peer' = peer /\ peer' = rMsg'.from
  BY <1>1, <1>4 DEF HolePunchInv, ReaderPart, WorldPart, WantsSource
<1>8. \A e : PeerOK(e) => PeerOK(e)'
  BY <1>4 DEF PeerOK, PeerRight
<1>9. ReaderPart'
  BY <1>1, <1>3, <1>4, <1>6, <1>7, <1>8
  DEF HolePunchInv, ReaderPart, Misled, WantsSource
<1> QED BY <1>3, <1>4, <1>5, <1>9 DEF Stays

LEMMA MsgStays ==
    ASSUME Stays, NEW m, MsgOK(m)
    PROVE  MsgOK(m)'
<1>1. m.kind \in {"connect", "forwarded"} => m.mac \in Provider
  BY DEF MsgOK, Request, Ack, Call
<1>2. m.kind = "connack" => m.info.mac \in Provider
  BY DEF MsgOK, Request, Ack, Call, Info
<1>3. m.kind \in {"connect", "forwarded"} /\ m.to # Server => m.to[1] \in Provider
  BY DEF MsgOK, Request, Ack, Call, Address
<1>4. \A p : Misled(p) => Misled(p)'
  BY DEF Misled, Stays
<1> QED BY <1>1, <1>2, <1>3, <1>4 DEF MsgOK, Stays

LEMMA KeepsNet ==
    ASSUME HolePunchInv, Stays, \A m \in net' : m \in net \/ MsgOK(m)'
    PROVE  NetPart'
  BY MsgStays DEF HolePunchInv, NetPart

LEMMA FlagStays ==
    ASSUME Stays, NEW f, FlagOK(f)
    PROVE  FlagOK(f)'
<1>1. f[1] = "ip" /\ f[2] # None => f[2] \in Provider
  BY DEF FlagOK, Flag
<1>2. f[1] = "conn" => f[2][1] \in Provider
  BY DEF FlagOK, Flag, Address
<1> QED BY <1>1, <1>2 DEF FlagOK, Stays

LEMMA KeepsFlags ==
    ASSUME HolePunchInv, Stays, \A f \in flags' : f \in flags \/ FlagOK(f)'
    PROVE  FlagPart'
  BY FlagStays DEF HolePunchInv, FlagPart

(* At most one thread moves. *)
Moved(t) == /\ th' \in [Thread -> Locals]
            /\ \A s \in Thread \ {t} : th'[s] = th[s]

LEMMA LocalsStay ==
    ASSUME HolePunchInv, Stays, ~Crashed, NEW t \in Thread, th'[t] = th[t]
    PROVE  LocalsOK(t, th[t])'
<1>1. LocalsOK(t, th[t]) /\ th[t].pc # "crashed" /\ Target[t] \in Provider
  BY HolePunchAssumption DEF HolePunchInv, ThreadPart, Crashed
<1> QED BY <1>1 DEF LocalsOK, Stays

LEMMA KeepsThreads ==
    ASSUME HolePunchInv, Stays, ~Crashed, NEW t \in Thread, Moved(t),
           LocalsOK(t, th[t])'
    PROVE  ThreadPart'
<1>1. \A s \in Thread \ {t} : LocalsOK(s, th[s])'
  BY LocalsStay DEF Moved
<1> QED BY <1>1 DEF ThreadPart, Moved

LEMMA KeepsAllThreads ==
    ASSUME HolePunchInv, Stays, ~Crashed, th' = th
    PROVE  ThreadPart'
  BY LocalsStay DEF ThreadPart, HolePunchInv

Place == {"check", "connect", "lookup", "fetch", "data", "ask", "direct",
          "relay", "asked", "relayed", "gone", "offer", "sent", "crashed"}

LEMMA Bounds ==
    /\ MaxTry \in Nat /\ MaxTry > 0 /\ MaxRounds \in Nat /\ MaxRounds > 0
    /\ MaxSendRetry \in Nat /\ MaxFaults \in Nat
    /\ MaxAddr \in Nat /\ MaxAddr > 0
  BY HolePunchAssumption

(* A record of locals whose fields are replaced. *)
LEMMA Fields ==
    ASSUME NEW P, NEW R, NEW Y, NEW C, NEW F,
           NEW l \in [pc : P, round : R, try : Y, cur : C, fails : F],
           NEW p \in P, NEW r \in R, NEW y \in Y, NEW c \in C, NEW f \in F
    PROVE  /\ l.round \in R /\ l.try \in Y /\ l.fails \in F
           /\ LET m == [l EXCEPT !.pc = p, !.round = r, !.try = y, !.cur = c,
                                 !.fails = f]
              IN  m \in [pc : P, round : R, try : Y, cur : C, fails : F] /\ m.pc = p
           /\ LET m == [l EXCEPT !.pc = p, !.round = r, !.try = y, !.cur = c]
              IN  m \in [pc : P, round : R, try : Y, cur : C, fails : F] /\ m.pc = p
           /\ LET m == [l EXCEPT !.try = y, !.pc = p]
              IN  /\ m \in [pc : P, round : R, try : Y, cur : C, fails : F]
                  /\ m.pc = p /\ m.cur = l.cur
           /\ LET m == [l EXCEPT !.pc = p, !.try = y]
              IN  /\ m \in [pc : P, round : R, try : Y, cur : C, fails : F]
                  /\ m.pc = p /\ m.cur = l.cur
           /\ LET m == [l EXCEPT !.pc = p, !.cur = c]
              IN  /\ m \in [pc : P, round : R, try : Y, cur : C, fails : F]
                  /\ m.pc = p /\ m.cur = c
  OBVIOUS

(* The records a thread goes on with. *)
LEMMA EndLocals ==
    ASSUME NEW l \in Locals, NEW place \in Place, NEW fails \in 0..MaxSendRetry
    PROVE  LET m == [l EXCEPT !.pc = place, !.round = 1, !.try = 0, !.cur = None,
                              !.fails = fails]
           IN  m \in Locals /\ m.pc = place
<1>1. Locals = [pc : Place, round : 1..MaxRounds, try : 0..MaxTry,
                cur : Address \cup {None, Server}, fails : 0..MaxSendRetry]
  BY DEF Locals, Place
<1>2. 1 \in 1..MaxRounds /\ 0 \in 0..MaxTry /\ None \in Address \cup {None, Server}
  BY Bounds
<1> QED BY <1>1, <1>2, Fields

LEMMA PeerLocals ==
    ASSUME NEW l \in Locals, NEW place \in Place, NEW c \in Address \cup {Server}
    PROVE  LET m == [l EXCEPT !.pc = place, !.cur = c]
           IN  m \in Locals /\ m.pc = place /\ m.cur = c
<1>1. Locals = [pc : Place, round : 1..MaxRounds, try : 0..MaxTry,
                cur : Address \cup {None, Server}, fails : 0..MaxSendRetry]
  BY DEF Locals, Place
<1>2. /\ 1 \in 1..MaxRounds /\ 0 \in 0..MaxTry /\ 0 \in 0..MaxSendRetry
      /\ c \in Address \cup {None, Server}
  BY Bounds
<1> QED BY <1>1, <1>2, Fields

LEMMA NewLocals ==
    ASSUME NEW l \in Locals, NEW place \in Place
    PROVE  /\ l.round < MaxRounds =>
                LET m == [l EXCEPT !.pc = place, !.round = @ + 1, !.try = 0, !.cur = None]
                IN  m \in Locals /\ m.pc = place
           /\ l.try < MaxTry =>
                LET m == [l EXCEPT !.try = @ + 1, !.pc = place]
                IN  m \in Locals /\ m.pc = place /\ m.cur = l.cur
           /\ LET m == [l EXCEPT !.pc = place, !.try = 1]
              IN  m \in Locals /\ m.pc = place /\ m.cur = l.cur
<1>1. Locals = [pc : Place, round : 1..MaxRounds, try : 0..MaxTry,
                cur : Address \cup {None, Server}, fails : 0..MaxSendRetry]
  BY DEF Locals, Place
<1>2. l.round \in 1..MaxRounds /\ l.try \in 0..MaxTry
  BY <1>1
<1>3. /\ 1 \in 1..MaxRounds /\ 0 \in 0..MaxTry /\ 1 \in 0..MaxTry
      /\ 0 \in 0..MaxSendRetry /\ None \in Address \cup {None, Server}
      /\ l.round < MaxRounds => l.round + 1 \in 1..MaxRounds
      /\ l.try < MaxTry => l.try + 1 \in 0..MaxTry
  BY <1>2, Bounds
<1> QED BY <1>1, <1>3, Fields

(* The ways a thread moves. *)
LEMMA Going ==
    ASSUME HolePunchInv, NEW t \in Thread, NEW place \in Place, Goto(t, place)
    PROVE  Moved(t) /\ th'[t].pc = place /\ th'[t].cur = th[t].cur
  BY DEF HolePunchInv, ThreadPart, Goto, Moved, Locals, Place

LEMMA Ending ==
    ASSUME HolePunchInv, NEW t \in Thread, NEW place \in Place,
           NEW fails \in 0..MaxSendRetry, Over(t, place, fails)
    PROVE  Moved(t) /\ th'[t].pc = place
<1> DEFINE m == [th[t] EXCEPT !.pc = place, !.round = 1, !.try = 0, !.cur = None,
                              !.fails = fails]
<1>1. th \in [Thread -> Locals] /\ th[t] \in Locals
  BY DEF HolePunchInv, ThreadPart
<1>2. m \in Locals /\ m.pc = place
  BY <1>1, EndLocals, Zenon
<1>3. th' = [th EXCEPT ![t] = m]
  BY DEF Over, Become
<1> HIDE DEF m
<1> QED BY <1>1, <1>2, <1>3 DEF Moved

LEMMA NextRoundMoves ==
    ASSUME HolePunchInv, NEW t \in Thread, NextRound(t)
    PROVE  Moved(t) /\ th'[t].pc \in {"check", "offer"}
<1>1. th \in [Thread -> Locals]
  BY DEF HolePunchInv, ThreadPart
<1>2. CASE th[t].round < MaxRounds
  <2> DEFINE m == [th[t] EXCEPT !.pc = "check", !.round = @ + 1, !.try = 0, !.cur = None]
  <2>0. "check" \in Place
    BY DEF Place
  <2>1. m \in Locals /\ m.pc = "check"
    BY <1>1, <1>2, <2>0, NewLocals, Zenon
  <2>2. th' = [th EXCEPT ![t] = m]
    BY <1>2 DEF NextRound, Become
  <2> HIDE DEF m
  <2> QED BY <1>1, <2>1, <2>2 DEF Moved
<1>3. CASE ~(th[t].round < MaxRounds) /\ th[t].fails < MaxSendRetry
  <2>1. th[t].fails + 1 \in 0..MaxSendRetry
    BY <1>1, <1>3, Bounds DEF Locals
  <2> QED BY <1>3, <2>1, Ending DEF NextRound, Place
<1>4. CASE ~(th[t].round < MaxRounds) /\ ~(th[t].fails < MaxSendRetry)
  BY <1>4, Ending, Bounds DEF NextRound, Place
<1> QED BY <1>2, <1>3, <1>4

LEMMA NextTryMoves ==
    ASSUME HolePunchInv, NEW t \in Thread, NextTry(t)
    PROVE  /\ Moved(t)
           /\ \/ th'[t].pc \in {"ask", "gone", "check", "offer"}
              \/ /\ th'[t].pc = "relay" /\ th'[t].cur = th[t].cur
                 /\ th[t].pc \notin {"ask", "asked"}
<1>1. th \in [Thread -> Locals]
  BY DEF HolePunchInv, ThreadPart
<1>2. CASE th[t].try < MaxTry
  <2> DEFINE place == IF th[t].pc \in {"ask", "asked"} THEN "ask" ELSE "relay"
             m == [th[t] EXCEPT !.try = @ + 1, !.pc = place]
  <2>1. place \in Place
    BY DEF Place
  <2>2. th' = [th EXCEPT ![t] = m]
    BY <1>2 DEF NextTry, Become
  <2>3. place = "ask" \/ (place = "relay" /\ th[t].pc \notin {"ask", "asked"})
    OBVIOUS
  <2> HIDE DEF place
  <2>4. m \in Locals /\ m.pc = place /\ m.cur = th[t].cur
    BY <1>1, <1>2, <2>1, NewLocals
  <2> HIDE DEF m
  <2> QED BY <1>1, <2>2, <2>3, <2>4 DEF Moved
<1>3. CASE ~(th[t].try < MaxTry) /\ th[t].pc \in {"ask", "asked"}
  BY <1>3, Ending, Bounds DEF NextTry, Place
<1>4. CASE ~(th[t].try < MaxTry) /\ th[t].pc \notin {"ask", "asked"}
  BY <1>4, NextRoundMoves DEF NextTry
<1> QED BY <1>2, <1>3, <1>4

-----------------------------------------------------------------------------
(* A sender's thread.                                                      *)

(* A thread sends to a provider. *)
LEMMA TargetsProvide == \A t \in Thread : Target[t] \in Provider
  BY HolePunchAssumption

LEMMA Announces ==
    ASSUME HolePunchInv, Stays, NEW t \in Thread, Listed(Target[t]), Announce(t)
    PROVE  Moved(t) /\ LocalsOK(t, th[t])' /\ flags' \subseteq flags
<1> DEFINE a == GetAPeer(Target[t]).addr
           m == [th[t] EXCEPT !.pc = "direct", !.cur = a]
<1>1. a \in Address /\ a \in Address \cup {Server} /\ a[1] = Target[t]
  BY GetAPeerWorks, TargetsProvide DEF HolePunchInv
<1>2. th \in [Thread -> Locals] /\ th[t] \in Locals /\ "direct" \in Place
  BY DEF HolePunchInv, ThreadPart, Place
<1>3. th' = [th EXCEPT ![t] = m] /\ flags' \subseteq flags
  BY DEF Announce, Become
<1> HIDE DEF a
<1>4. m \in Locals /\ m.pc = "direct" /\ m.cur = a
  <2>1. m \in Locals
    BY <1>1, <1>2, PeerLocals
  <2>2. m.pc = "direct" /\ m.cur = a
    BY <1>2 DEF Locals
  <2> QED BY <2>1, <2>2
<1> HIDE DEF m
<1>5. th'[t] = m /\ Moved(t)
  BY <1>2, <1>3, <1>4 DEF Moved
<1>6. Known(Target[t])'
  BY TargetsProvide DEF Stays, Known
<1> QED BY <1>1, <1>3, <1>4, <1>5, <1>6 DEF LocalsOK

(* The look-ups in the list. *)
LEMMA LookStep ==
    ASSUME HolePunchInv, ~Crashed, NEW t \in Thread,
           Check(t) \/ Connect(t) \/ Lookup(t) \/ Fetch(t)
    PROVE  HolePunchInv'
<1>1. /\ UNCHANGED <<users, peer, readerVars, net, routerVars, worldVars, faultVars>>
      /\ flags' \subseteq flags \/ Announce(t)
  BY DEF Check, Connect, Lookup, Fetch
<1>2. UNCHANGED <<users, peer, readerVars, net, wrote, muddles, trouble>>
  BY <1>1 DEF routerVars, faultVars
<1>3. UsersPart' /\ ReaderPart' /\ Stays
  BY <1>2, Undisturbed
<1>4. NetPart'
  BY <1>2, <1>3, KeepsNet
<1>5. FlagPart'
  <2>1. flags' \subseteq flags
    BY <1>1 DEF Announce
  <2> QED BY <1>3, <2>1, KeepsFlags
<1>6. WorldPart'
  BY <1>1 DEF HolePunchInv, WorldPart, routerVars, worldVars, faultVars
<1>7. Moved(t) /\ LocalsOK(t, th[t])'
  <2>1. ASSUME Goto(t, "connect") \/ Goto(t, "lookup") PROVE Moved(t) /\ LocalsOK(t, th[t])'
    BY <2>1, Going DEF LocalsOK, Moved, Place
  <2>2. CASE Check(t) /\ Listed(Target[t]) /\ GetAPeer(Target[t]).p2p # None
    <3> DEFINE a == GetAPeer(Target[t]).p2p
               m == [th[t] EXCEPT !.pc = "data", !.cur = a]
    <3>1. a \in Address \cup {Server}
      BY <2>2, GetAPeerWorks, TargetsProvide DEF HolePunchInv, Peer
    <3>2. th \in [Thread -> Locals] /\ th[t] \in Locals /\ "data" \in Place
      BY DEF HolePunchInv, ThreadPart, Place
    <3>3. th' = [th EXCEPT ![t] = m]
      BY <2>2 DEF Check, Become
    <3> HIDE DEF a
    <3>4. m \in Locals /\ m.pc = "data" /\ m.cur = a
      <4>1. m \in Locals
        BY <3>1, <3>2, PeerLocals
      <4>2. m.pc = "data" /\ m.cur = a
        BY <3>2 DEF Locals
      <4> QED BY <4>1, <4>2
    <3> HIDE DEF m
    <3>5. th'[t] = m /\ Moved(t)
      BY <3>2, <3>3, <3>4 DEF Moved
    <3>6. Known(Target[t])'
      BY <1>3, <2>2, TargetsProvide DEF Stays, Known
    <3> QED BY <3>1, <3>4, <3>5, <3>6 DEF LocalsOK
  <2>3. CASE Check(t) /\ ~(Listed(Target[t]) /\ GetAPeer(Target[t]).p2p # None)
    BY <2>1, <2>3 DEF Check
  <2>4. CASE (Connect(t) \/ Fetch(t)) /\ Listed(Target[t])
    BY <1>3, <2>4, Announces DEF Connect, Fetch
  <2>5. CASE Connect(t) /\ ~Listed(Target[t])
    BY <2>1, <2>5 DEF Connect
  <2>6. CASE Fetch(t) /\ ~Listed(Target[t])
    <3>1. Known(Target[t]) /\ Replacing(Target[t])
      BY <2>6 DEF Fetch, HolePunchInv, ThreadPart, LocalsOK, Known
    <3>2. Replacing(Target[t])'
      BY <1>2, <3>1 DEF Replacing, readerVars
    <3>3. Goto(t, "crashed")
      BY <2>6 DEF Fetch
    <3> QED BY <3>2, <3>3, Going DEF LocalsOK, Moved, Place
  <2>7. CASE Lookup(t) /\ Listed(Target[t])
    <3>1. Known(Target[t])' /\ Goto(t, "fetch")
      BY <1>3, <2>7, TargetsProvide DEF Stays, Known, Lookup
    <3> QED BY <3>1, Going DEF LocalsOK, Moved, Place
  <2>8. CASE Lookup(t) /\ ~Listed(Target[t])
    <3> DEFINE m == [th[t] EXCEPT !.pc = "ask", !.try = 1]
    <3>1. th \in [Thread -> Locals] /\ th[t] \in Locals /\ "ask" \in Place
      BY DEF HolePunchInv, ThreadPart, Place
    <3>2. th' = [th EXCEPT ![t] = m]
      BY <2>8 DEF Lookup, Become
    <3>3. m \in Locals /\ m.pc = "ask"
      BY <3>1, NewLocals, Zenon
    <3> HIDE DEF m
    <3> QED BY <3>1, <3>2, <3>3 DEF LocalsOK, Moved
  <2> QED BY <2>2, <2>3, <2>4, <2>5, <2>6, <2>7, <2>8
<1>8. ThreadPart'
  BY <1>3, <1>7, KeepsThreads
<1> QED BY <1>3, <1>4, <1>5, <1>6, <1>8 DEF HolePunchInv

(* What a thread becomes after it has sent. *)
LEMMA AfterSendMoves ==
    ASSUME HolePunchInv, Stays, NEW t \in Thread, Sending(t), AfterSend(t)
    PROVE  Moved(t) /\ LocalsOK(t, th[t])'
<1>1. /\ th \in [Thread -> Locals] /\ th[t] \in Locals /\ LocalsOK(t, th[t])
      /\ "relay" \in Place /\ "sent" \in Place /\ "asked" \in Place /\ "relayed" \in Place
  BY DEF HolePunchInv, ThreadPart, Place
<1>2. CASE th[t].pc = "data"
  <2>1. Over(t, "sent", 0) /\ 0 \in 0..MaxSendRetry
    BY <1>2, Bounds DEF AfterSend
  <2> QED BY <1>1, <2>1, Ending DEF Moved, LocalsOK
<1>3. CASE th[t].pc = "ask"
  BY <1>1, <1>3, Going DEF AfterSend, Moved, LocalsOK
<1>4. CASE th[t].pc = "direct"
  <2> DEFINE m == [th[t] EXCEPT !.pc = "relay", !.try = 1]
  <2>1. th' = [th EXCEPT ![t] = m]
    BY <1>4 DEF AfterSend, Become
  <2>2. m \in Locals /\ m.pc = "relay" /\ m.cur = th[t].cur
    BY <1>1, NewLocals, Zenon
  <2> HIDE DEF m
  <2>3. th'[t] = m /\ Moved(t)
    BY <1>1, <2>1, <2>2 DEF Moved
  <2> QED BY <1>1, <1>4, <2>2, <2>3, TargetsProvide DEF LocalsOK, Stays
<1>5. CASE th[t].pc = "relay"
  <2>1. Goto(t, "relayed")
    BY <1>5 DEF AfterSend
  <2> QED BY <1>1, <1>5, <2>1, Going, TargetsProvide DEF LocalsOK, Stays, Moved
<1> QED BY <1>2, <1>3, <1>4, <1>5 DEF Sending

(* What a sender writes may ask for a connection only to a known provider. *)
LEMMA Writes ==
    ASSUME HolePunchInv, Stays, NEW t \in Thread, Sending(t),
           NEW to \in Address \cup {Server}, NEW m \in Datagram(t, to),
           th[t].pc # "ask" /\ to # Server => Known(to[1]) \/ Misled(to[1])'
    PROVE  MsgOK(m)'
<1>1. /\ m.mac = Target[t] /\ m.to = to /\ m \in Request /\ m.kind \in {"getip", "connect"}
      /\ m.kind = "connect" => th[t].pc \in {"direct", "relay"}
  BY TargetsProvide DEF Datagram, Request, Sending
<1>2. m.kind = "connect" => Known(m.mac)'
  BY <1>1, TargetsProvide DEF HolePunchInv, ThreadPart, LocalsOK, Stays
<1>3. to # Server => to[1] \in Provider
  BY DEF Address
<1>4. m.kind = "connect" /\ m.to # Server => Known(m.to[1])' \/ Misled(m.to[1])'
  BY <1>1, <1>3 DEF Stays
<1> QED BY <1>1, <1>2, <1>4 DEF MsgOK

LEMMA DestinationIsOne ==
    ASSUME HolePunchInv, NEW t \in Thread, Sending(t)
    PROVE  /\ Destination(t) \in Address \cup {Server}
           /\ th[t].pc \in {"direct", "relay"} /\ Destination(t) # Server
                 => Known(Destination(t)[1])
  BY DEF HolePunchInv, ThreadPart, LocalsOK, Destination, Sending

LEMMA ReachedIsOne ==
    ASSUME NEW to \in Address \cup {Server}
    PROVE  Reached(to) \subseteq Provider
  BY DEF Reached, Address

LEMMA Counting ==
    ASSUME HolePunchInv, MayFail
    PROVE  /\ trouble + 1 \in 0..MaxFaults /\ muddles + 1 \in 0..MaxFaults
           /\ shifts + 1 \in 0..MaxFaults
  BY Bounds DEF HolePunchInv, WorldPart, MayFail

LEMMA SendStep ==
    ASSUME HolePunchInv, ~Crashed, NEW t \in Thread, Send(t)
    PROVE  HolePunchInv'
<1>1. /\ Sending(t) /\ peer' = Destination(t) /\ AfterSend(t)
      /\ net' = net \cup Datagram(t, peer')
      /\ UNCHANGED <<users, flags, readerVars, wrote, worldVars, trouble>>
  BY DEF Send
<1>2. /\ muddles' \in {muddles, muddles + 1}
      /\ WantsSource /\ muddles' = muddles => peer' = peer
  BY DEF Send, HolePunchInv, WorldPart
<1>3. UsersPart' /\ ReaderPart' /\ Stays
  BY <1>1, <1>2, Undisturbed
<1>4. peer' \in Address \cup {Server}
  BY <1>1, DestinationIsOne
<1>5. NetPart'
  <2> SUFFICES ASSUME NEW m \in net', m \notin net PROVE MsgOK(m)'
    BY <1>3, KeepsNet
  <2>0. PICK to \in Address \cup {Server} : to = peer'
    BY <1>4
  <2>1. m \in Datagram(t, to) /\ th[t].pc # "data"
    BY <1>1, <2>0 DEF Datagram
  <2>2. th[t].pc # "ask" /\ to # Server => Known(to[1])
    BY <1>1, <2>0, <2>1, DestinationIsOne DEF Sending
  <2> QED BY <1>1, <1>3, <2>1, <2>2, Writes
<1>6. FlagPart'
  BY <1>1, <1>3, KeepsFlags
<1>7. ThreadPart'
  BY <1>1, <1>3, AfterSendMoves, KeepsThreads
<1>8. WorldPart'
  <2>1. muddles' \in 0..MaxFaults
    BY Counting DEF Send, HolePunchInv, WorldPart
  <2>2. opened' = opened \cup Reached(peer')
    BY DEF Send
  <2>3. opened' \subseteq Provider
    BY <1>4, <2>2, ReachedIsOne DEF HolePunchInv, WorldPart
  <2> QED BY <1>1, <1>4, <2>1, <2>3 DEF HolePunchInv, WorldPart, worldVars
<1> QED BY <1>3, <1>5, <1>6, <1>7, <1>8 DEF HolePunchInv

(* The other steps of a thread that leave list, reader and routers alone. *)
LEMMA WaitStep ==
    ASSUME HolePunchInv, ~Crashed, NEW t \in Thread,
           SendFails(t) \/ Answer(t) \/ TimeOut(t)
    PROVE  HolePunchInv'
<1>1. /\ UNCHANGED <<users, peer, readerVars, net, routerVars, worldVars, muddles>>
      /\ flags' \subseteq flags
  BY DEF SendFails, Answer, TimeOut, faultVars
<1>2. wrote' = wrote /\ opened' = opened /\ trouble' \in {trouble, trouble + 1}
  BY <1>1 DEF routerVars, faultVars, SendFails, Answer, TimeOut
<1>3. UsersPart' /\ ReaderPart' /\ Stays
  BY <1>1, <1>2, Undisturbed
<1>4. NetPart' /\ FlagPart'
  BY <1>1, <1>3, KeepsNet, KeepsFlags
<1>5. WorldPart'
  <2>1. trouble' \in 0..MaxFaults
    BY Counting DEF SendFails, Answer, TimeOut, faultVars, HolePunchInv, WorldPart
  <2> QED BY <1>1, <1>2, <2>1 DEF HolePunchInv, WorldPart, worldVars
<1>6. LocalsOK(t, th[t]) /\ Target[t] \in Provider
  BY TargetsProvide DEF HolePunchInv, ThreadPart
<1>7. ASSUME NextTry(t), th[t].pc \in {"ask", "asked", "relay", "relayed"}
      PROVE  Moved(t) /\ LocalsOK(t, th[t])'
  <2>1. Moved(t) /\ th'[t] \in Locals
    BY <1>7, NextTryMoves DEF Moved
  <2>2. CASE th'[t].pc \in {"ask", "gone", "check", "offer"}
    BY <2>1, <2>2 DEF LocalsOK
  <2>3. CASE th'[t].pc = "relay" /\ th'[t].cur = th[t].cur
             /\ th[t].pc \notin {"ask", "asked"}
    BY <1>3, <1>6, <1>7, <2>1, <2>3 DEF LocalsOK, Stays
  <2> QED BY <1>7, <2>2, <2>3, NextTryMoves
<1>8. Moved(t) /\ LocalsOK(t, th[t])'
  <2>1. CASE SendFails(t) /\ th[t].pc = "data"
    <3>1. Goto(t, "connect") /\ "connect" \in Place
      BY <2>1 DEF SendFails, Place
    <3> QED BY <3>1, Going DEF LocalsOK, Moved
  <2>2. CASE SendFails(t) /\ th[t].pc = "direct"
    BY <1>3, <2>2, AfterSendMoves DEF SendFails
  <2>3. CASE SendFails(t) /\ th[t].pc \in {"ask", "relay"}
    BY <1>7, <2>3 DEF SendFails
  <2>4. CASE TimeOut(t)
    BY <1>7, <2>4 DEF TimeOut
  <2>5. CASE Answer(t) /\ th[t].pc = "asked"
    <3>1. Goto(t, "fetch") /\ "fetch" \in Place /\ IpFlag(t) \in flags
      BY <2>5 DEF Answer, Place, Awaited
    <3>2. FlagOK(<<"ip", Target[t]>>)
      BY <3>1 DEF IpFlag, HolePunchInv, FlagPart
    <3>3. Known(Target[t])
      BY <1>6, <3>2, HolePunchAssumption DEF FlagOK
    <3> QED BY <1>3, <1>6, <3>1, <3>3, Going DEF LocalsOK, Stays, Moved
  <2>6. CASE Answer(t) /\ th[t].pc = "relayed"
    <3>1. NextRound(t)
      BY <2>6 DEF Answer
    <3> QED BY <3>1, NextRoundMoves DEF LocalsOK, Moved
  <2> QED BY <2>1, <2>2, <2>3, <2>4, <2>5, <2>6 DEF SendFails, Answer, Sending
<1>9. ThreadPart'
  BY <1>3, <1>8, KeepsThreads
<1> QED BY <1>3, <1>4, <1>5, <1>9 DEF HolePunchInv

-----------------------------------------------------------------------------
(* The reader.                                                             *)

(* A datagram is read, alone or in the middle of a thread's write. *)
LEMMA Reading ==
    ASSUME HolePunchInv, NEW m \in net, m \in Ack \cup Call, rPc = "idle",
           users' = users, rMsg' = m, rPc' = m.kind, peer' = m.from,
           wrote' = wrote, muddles' = muddles, trouble' \in {trouble, trouble + 1}
    PROVE  UsersPart' /\ ReaderPart' /\ Stays /\ peer' \in Address \cup {Server}
<1>1. /\ MsgOK(m) /\ m.kind \in {"ipack", "connack", "call"}
      /\ m.from \in Address \cup {Server}
  BY DEF HolePunchInv, NetPart, Ack, Call
<1>2. \A p : ~Replacing(p) /\ ~Replacing(p)' /\ Listed(p)' = Listed(p) /\ At(p)' = At(p)
  BY <1>1 DEF Replacing, Listed, At
<1>3. \A p : Known(p)' = Known(p) /\ Punched(p)' = Punched(p)
  BY <1>2 DEF Known, Punched
<1>4. Stays
  BY <1>3 DEF Stays, HolePunchInv, WorldPart
<1>5. MsgOK(m)'
  BY <1>1, <1>4, MsgStays
<1>6. UsersPart'
  BY DEF HolePunchInv, UsersPart, PeerOK, PeerRight
<1>7. ReaderPart'
  BY <1>1, <1>5 DEF ReaderPart, MsgOK
<1> QED BY <1>1, <1>4, <1>6, <1>7

LEMMA ReadStep ==
    ASSUME HolePunchInv, ~Crashed, NEW m \in net, Read(m)
    PROVE  HolePunchInv'
<1>1. /\ m \in Ack \cup Call /\ rPc = "idle" /\ rMsg' = m /\ rPc' = m.kind /\ peer' = m.from
      /\ net' \subseteq net
      /\ UNCHANGED <<users, flags, th, opened, wrote, worldVars, trouble, muddles>>
  BY DEF Read, routerVars, faultVars
<1>2. UsersPart' /\ ReaderPart' /\ Stays /\ peer' \in Address \cup {Server}
  BY <1>1, Reading
<1>3. NetPart' /\ FlagPart' /\ ThreadPart'
  BY <1>1, <1>2, KeepsNet, KeepsFlags, KeepsAllThreads
<1>4. WorldPart'
  BY <1>1, <1>2 DEF HolePunchInv, WorldPart, worldVars
<1> QED BY <1>2, <1>3, <1>4 DEF HolePunchInv

LEMMA AstrayStep ==
    ASSUME HolePunchInv, ~Crashed, NEW t \in Thread, NEW m \in net, SendAstray(t, m)
    PROVE  HolePunchInv'
<1>1. /\ Sending(t) /\ MayFail /\ AfterSend(t)
      /\ m \in Ack \cup Call /\ rPc = "idle" /\ rMsg' = m /\ rPc' = m.kind /\ peer' = m.from
      /\ net' = (net \ {m}) \cup Datagram(t, m.from)
      /\ opened' = opened \cup Reached(m.from) /\ trouble' = trouble + 1
      /\ UNCHANGED <<users, flags, wrote, worldVars, muddles>>
  BY DEF SendAstray
<1>2. UsersPart' /\ ReaderPart' /\ Stays /\ m.from \in Address \cup {Server}
  BY <1>1, Reading
<1>3. NetPart'
  <2>1. trouble' > 0
    BY <1>1 DEF HolePunchInv, WorldPart
  <2>2. m.from # Server => Known(m.from[1]) \/ Misled(m.from[1])'
    BY <1>1, <2>1 DEF HolePunchInv, NetPart, MsgOK, Ack, Call, Misled
  <2> QED BY <1>1, <1>2, <2>2, Writes, KeepsNet
<1>4. FlagPart' /\ ThreadPart'
  BY <1>1, <1>2, KeepsFlags, AfterSendMoves, KeepsThreads
<1>5. WorldPart'
  <2>1. trouble' \in 0..MaxFaults /\ opened' \subseteq Provider
    BY <1>1, <1>2, Counting, ReachedIsOne DEF HolePunchInv, WorldPart
  <2> QED BY <1>1, <1>2, <2>1 DEF HolePunchInv, WorldPart, worldVars
<1> QED BY <1>2, <1>3, <1>4, <1>5 DEF HolePunchInv

(* The handlers leave everything else alone, but may write to someone. *)
HandlerFrame == /\ UNCHANGED <<th, net, wrote, worldVars, faultVars>>
                /\ peer' \in Address \cup {Server} /\ opened' \subseteq Provider

LEMMA Handlers ==
    ASSUME HolePunchInv, ~Crashed, HandlerFrame, Stays, UsersPart', ReaderPart', FlagPart'
    PROVE  HolePunchInv'
<1>1. /\ UNCHANGED <<th, net, wrote, worldVars, trouble, muddles>>
      /\ peer' \in Address \cup {Server} /\ opened' \subseteq Provider
  BY DEF HandlerFrame, faultVars
<1>2. NetPart' /\ ThreadPart'
  BY <1>1, KeepsNet, KeepsAllThreads
<1>3. WorldPart'
  BY <1>1 DEF HolePunchInv, WorldPart, worldVars
<1> QED BY <1>2, <1>3 DEF HolePunchInv

(* An entry joins the list. *)
LEMMA EntryAdded ==
    ASSUME HolePunchInv, NEW e, PeerOK(e), users' = Append(users, e),
           wrote' = wrote, muddles' = muddles
    PROVE  /\ UsersPart'
           /\ \A p : Listed(p) => Listed(p)'
           /\ \A p : (\E i \in At(p) : users[i].p2p # None)
                        => \E i \in At(p)' : users'[i].p2p # None
           /\ Listed(e.mac)'
           /\ e.p2p # None => \E i \in At(e.mac)' : users'[i].p2p # None
<1>1. users \in Seq(Peer) /\ e \in Peer
  BY DEF HolePunchInv, UsersPart, PeerOK
<1>2. /\ users' \in Seq(Peer) /\ Len(users) \in Nat /\ Len(users') = Len(users) + 1
      /\ \A i \in 1..Len(users) : users'[i] = users[i]
      /\ users'[Len(users) + 1] = e
  BY <1>1, Adding
<1>3. \A p : At(p) \subseteq At(p)' /\ \A i \in At(p) : users'[i] = users[i]
  BY <1>2 DEF At
<1>4. Len(users) + 1 \in At(e.mac)'
  BY <1>2 DEF At
<1>5. \A x : PeerOK(x) => PeerOK(x)'
  BY DEF PeerOK, PeerRight
<1>6. \A i \in 1..Len(users') : \E x : users'[i] = x /\ PeerOK(x)'
  <2> SUFFICES ASSUME NEW i \in 1..Len(users')
               PROVE  \E x : users'[i] = x /\ PeerOK(x)'
    OBVIOUS
  <2>1. i \in 1..Len(users) \/ i = Len(users) + 1
    BY <1>2
  <2> QED BY <2>1, <1>2, <1>5 DEF HolePunchInv, UsersPart
<1>7. UsersPart'
  BY <1>2, <1>6 DEF UsersPart, PeerOK, PeerRight
<1> QED BY <1>2, <1>3, <1>4, <1>7 DEF Listed

LEMMA IpAckStep ==
    ASSUME HolePunchInv, ~Crashed, ProcMsgGetUserClientAck
    PROVE  HolePunchInv'
<1>0. PICK e : e = NewPeer(rMsg.info, None)
  OBVIOUS
<1>1. /\ rPc = "ipack" /\ rPc' = "flag" /\ rMsg' = rMsg /\ flags' = flags
      /\ users' = Append(users, e)
      /\ HandlerFrame
  BY <1>0 DEF ProcMsgGetUserClientAck, HandlerFrame, routerVars, HolePunchInv, WorldPart
<1>2. wrote' = wrote /\ muddles' = muddles /\ trouble' = trouble
  BY <1>1 DEF HandlerFrame, faultVars
<1>3. /\ rMsg \in Ack /\ rMsg.kind = "ipack" /\ rMsg.info \in Info \cup {Empty}
      /\ rMsg.info.mac # None => /\ rMsg.info.addr \in Address
                                 /\ rMsg.info.addr[1] = rMsg.info.mac
  BY <1>1 DEF HolePunchInv, ReaderPart, MsgOK, Ack, Request, Call
<1>4. /\ e.mac = rMsg.info.mac /\ e.p2p = None /\ e.mac \in Provider \cup {None}
      /\ PeerOK(e)
  <2>1. e.mac = rMsg.info.mac /\ e.addr = rMsg.info.addr /\ e.p2p = None
    BY <1>0 DEF NewPeer
  <2>2. e \in Peer
    BY <1>0, <1>3 DEF NewPeer, Peer, Info, Empty
  <2>3. e.mac \in Provider \cup {None}
    BY <2>2 DEF Peer
  <2> QED BY <1>3, <2>1, <2>2, <2>3 DEF PeerOK, PeerRight
<1>5. /\ UsersPart' /\ Listed(e.mac)'
      /\ \A p : Listed(p) => Listed(p)'
      /\ \A p : (\E i \in At(p) : users[i].p2p # None)
                   => \E i \in At(p)' : users'[i].p2p # None
  BY <1>1, <1>2, <1>4, EntryAdded
<1>6. Stays
  BY <1>1, <1>2, <1>5 DEF Stays, Known, Punched, Replacing
<1>7. ReaderPart'
  BY <1>1, <1>3, <1>4, <1>5 DEF ReaderPart, Known, WantsSource
<1>8. FlagPart'
  BY <1>1, <1>6, KeepsFlags
<1> QED BY <1>1, <1>5, <1>6, <1>7, <1>8, Handlers

(* The entry of the peer that acknowledges is kept, or taken out to be     *)
(* replaced: then the reader is just replacing it.                         *)
LEMMA ConnAckStep ==
    ASSUME HolePunchInv, ~Crashed, ProcMsgP2PConnectAck
    PROVE  HolePunchInv'
<1>0. PICK mac, e : mac = rMsg.info.mac /\ e = NewPeer(rMsg.info, peer)
  OBVIOUS
<1>1. rPc = "connack" /\ HandlerFrame /\ flags' = flags
  BY DEF ProcMsgP2PConnectAck, HandlerFrame, routerVars, HolePunchInv, WorldPart
<1>2. wrote' = wrote /\ muddles' = muddles /\ trouble' = trouble
  BY <1>1 DEF HandlerFrame, faultVars
<1>3. /\ rMsg \in Ack /\ rMsg.kind = "connack" /\ rMsg.info \in Info /\ mac \in Provider
      /\ rMsg.from \in wrote /\ rMsg.from[1] = mac /\ rMsg.info.addr[1] = mac
      /\ rMsg.info.addr \in Address
      /\ muddles = 0 => peer = rMsg.from
  BY <1>0, <1>1 DEF HolePunchInv, ReaderPart, MsgOK, Ack, Request, Call, Info, WantsSource
<1>4. ~Replacing(mac) /\ (Listed(mac) \/ Misled(mac))
  BY <1>0, <1>1 DEF HolePunchInv, ReaderPart, MsgOK, Known, Replacing
<1>5. peer \in Address \cup {Server} /\ peer # None
  BY HolePunchDistinct DEF HolePunchInv, WorldPart
<1>8. CASE ~Listed(mac)
  <2>1. rPc' = "crashed" /\ users' = users /\ rMsg' = rMsg
    BY <1>0, <1>8 DEF ProcMsgP2PConnectAck
  <2>2. \A p : ~Replacing(p) /\ Listed(p)' = Listed(p) /\ At(p)' = At(p)
    BY <1>1, <2>1 DEF Replacing, Listed, At
  <2>3. Stays
    BY <1>2, <2>1, <2>2 DEF Stays, Known, Punched
  <2>4. UsersPart'
    BY <1>2, <2>1 DEF HolePunchInv, UsersPart, PeerOK, PeerRight
  <2>5. ReaderPart'
    BY <1>0, <1>2, <1>4, <1>8, <2>1 DEF ReaderPart, WantsSource, Misled
  <2>6. FlagPart'
    BY <1>1, <2>3, KeepsFlags
  <2> QED BY <1>1, <2>3, <2>4, <2>5, <2>6, Handlers
<1>6. CASE Listed(mac) /\ GetAPeer(mac).p2p = peer
  <2>1. rPc' = "flag" /\ users' = users /\ rMsg' = rMsg
    BY <1>0, <1>6 DEF ProcMsgP2PConnectAck
  <2>2. \A p : ~Replacing(p) /\ Listed(p)' = Listed(p) /\ At(p)' = At(p)
    BY <1>1, <2>1 DEF Replacing, Listed, At
  <2>3. Stays
    BY <1>2, <2>1, <2>2 DEF Stays, Known, Punched
  <2>4. Punched(mac)
    BY <1>3, <1>5, <1>6, GetAPeerWorks DEF Punched, HolePunchInv
  <2>5. Punched(mac)'
    BY <1>3, <2>3, <2>4 DEF Stays
  <2>6. UsersPart'
    BY <1>2, <2>1 DEF HolePunchInv, UsersPart, PeerOK, PeerRight
  <2>7. ReaderPart'
    BY <1>0, <1>3, <2>1, <2>5 DEF ReaderPart, WantsSource
  <2>8. FlagPart'
    BY <1>1, <2>3, KeepsFlags
  <2> QED BY <1>1, <2>3, <2>6, <2>7, <2>8, Handlers
<1>7. CASE Listed(mac) /\ GetAPeer(mac).p2p # peer
  <2>1. /\ rPc' = "add" /\ users' = Without(mac)
        /\ rMsg' = [rMsg EXCEPT !.info = e]
    BY <1>0, <1>7 DEF ProcMsgP2PConnectAck
  <2>2. rMsg' \in [kind : {"connack"}, from : Address, info : {e}]
    BY <1>3, <2>1 DEF Ack
  <2>3. rMsg'.info = e /\ rMsg'.kind = "connack"
    BY <2>2
  <2>4. /\ e.mac = mac /\ e.addr = rMsg.info.addr /\ e.p2p = peer
        /\ PeerOK(e)' /\ PeerOK(e)
    BY <1>0, <1>2, <1>3, <1>4, <1>5 DEF NewPeer, PeerOK, PeerRight, Peer, Info
  <2>5. /\ users' \in Seq(Peer)
        /\ \A i \in 1..Len(users') : \E j \in 1..Len(users) : users'[i] = users[j]
        /\ \A j \in 1..Len(users) : users[j].mac # mac =>
              \E i \in 1..Len(users') : users'[i] = users[j]
    BY <2>1, Deleting DEF HolePunchInv, UsersPart
  <2>6. UsersPart'
    BY <1>2, <2>5 DEF HolePunchInv, UsersPart, PeerOK, PeerRight
  <2>7. Replacing(mac)'
    BY <2>1, <2>3, <2>4 DEF Replacing
  <2>8. Stays
    <3> SUFFICES ASSUME NEW p \in Provider
                 PROVE  (Known(p) => Known(p)') /\ (Punched(p) => Punched(p)')
      BY <1>2 DEF Stays
    <3>1. CASE p = mac
      BY <3>1, <2>7 DEF Known, Punched
    <3>2. CASE p # mac
      <4>1. ~Replacing(p)
        BY <1>1 DEF Replacing
      <4>2. ASSUME Listed(p) PROVE Listed(p)'
        <5>1. PICK j \in 1..Len(users) : users[j].mac = p
          BY <4>2 DEF Listed, At
        <5>2. PICK i \in 1..Len(users') : users'[i] = users[j]
          BY <2>5, <3>2, <5>1
        <5>3. i \in At(p)'
          BY <5>1, <5>2 DEF At
        <5> QED BY <5>3 DEF Listed
      <4>3. (\E i \in At(p) : users[i].p2p # None)
               => \E i \in At(p)' : users'[i].p2p # None
        BY <2>5, <3>2 DEF At
      <4> QED BY <4>1, <4>2, <4>3 DEF Known, Punched
    <3> QED BY <3>1, <3>2
  <2>9. ReaderPart'
    BY <1>0, <1>3, <1>5, <2>1, <2>3, <2>4 DEF ReaderPart, PeerOK, PeerRight, WantsSource
  <2>10. FlagPart'
    BY <1>1, <2>8, KeepsFlags
  <2> QED BY <1>1, <2>6, <2>8, <2>9, <2>10, Handlers
<1> QED BY <1>6, <1>7, <1>8

LEMMA AddPeerStep ==
    ASSUME HolePunchInv, ~Crashed, AddPeer
    PROVE  HolePunchInv'
<1>0. PICK e : e = rMsg.info
  OBVIOUS
<1>1. /\ rPc = "add" /\ rPc' = "flag" /\ rMsg' = rMsg /\ flags' = flags
      /\ users' = Append(users, e) /\ HandlerFrame
  BY <1>0 DEF AddPeer, HandlerFrame, routerVars, HolePunchInv, WorldPart
<1>2. wrote' = wrote /\ muddles' = muddles /\ trouble' = trouble
  BY <1>1 DEF HandlerFrame, faultVars
<1>3. /\ PeerOK(e) /\ e.mac \in Provider /\ e.p2p # None /\ e.addr[1] = e.mac
      /\ rMsg.kind = "connack" /\ e.addr \in Address
  BY <1>0, <1>1, HolePunchAssumption DEF HolePunchInv, ReaderPart, PeerOK
<1>4. /\ UsersPart'
      /\ \A p : Listed(p) => Listed(p)'
      /\ \A p : (\E i \in At(p) : users[i].p2p # None)
                   => \E i \in At(p)' : users'[i].p2p # None
      /\ Listed(e.mac)' /\ \E i \in At(e.mac)' : users'[i].p2p # None
  BY <1>1, <1>2, <1>3, EntryAdded
<1>5. Stays
  <2>1. \A p : Replacing(p) => p = e.mac
    BY <1>0 DEF Replacing
  <2> QED BY <1>2, <1>4, <2>1 DEF Stays, Known, Punched
<1>6. ReaderPart'
  BY <1>0, <1>1, <1>3, <1>4 DEF ReaderPart, Punched, WantsSource
<1>7. FlagPart'
  BY <1>1, <1>5, KeepsFlags
<1> QED BY <1>1, <1>4, <1>5, <1>6, <1>7, Handlers

LEMMA SetFlagStep ==
    ASSUME HolePunchInv, ~Crashed, SetFlag
    PROVE  HolePunchInv'
<1>1. /\ rPc = "flag" /\ rPc' = "idle" /\ users' = users /\ HandlerFrame
  BY DEF SetFlag, HandlerFrame, routerVars, HolePunchInv, WorldPart
<1>2. wrote' = wrote /\ muddles' = muddles /\ trouble' = trouble
  BY <1>1 DEF HandlerFrame, faultVars
<1>3. \A p : ~Replacing(p) /\ Listed(p)' = Listed(p) /\ At(p)' = At(p)
  BY <1>1 DEF Replacing, Listed, At
<1>4. Stays
  BY <1>1, <1>2, <1>3 DEF Stays, Known, Punched
<1>5. UsersPart' /\ ReaderPart'
  BY <1>1, <1>2 DEF HolePunchInv, UsersPart, PeerOK, PeerRight, ReaderPart, WantsSource
<1>6. FlagPart'
  <2>1. CASE rMsg.kind = "ipack"
    <3>0. PICK p : p = rMsg.info.mac
      OBVIOUS
    <3>1. flags' = flags \cup {<<"ip", p>>}
      BY <2>1, <3>0 DEF SetFlag
    <3>2. p \in Provider \cup {None} /\ (p # None => Known(p))
      BY <1>1, <2>1, <3>0 DEF HolePunchInv, ReaderPart
    <3>3. FlagOK(<<"ip", p>>)
      BY <3>2 DEF FlagOK, Flag
    <3> QED BY <1>4, <3>1, <3>3, FlagStays, KeepsFlags
  <2>2. CASE rMsg.kind # "ipack"
    <3>0. PICK a : a = rMsg.info.addr
      OBVIOUS
    <3>1. flags' = flags \cup {<<"conn", a>>}
      BY <2>2, <3>0 DEF SetFlag
    <3>2. a \in Address /\ Punched(a[1])
      BY <1>1, <2>2, <3>0 DEF HolePunchInv, ReaderPart
    <3>3. FlagOK(<<"conn", a>>)
      BY <3>2 DEF FlagOK, Flag
    <3> QED BY <1>4, <3>1, <3>3, FlagStays, KeepsFlags
  <2> QED BY <2>1, <2>2
<1> QED BY <1>1, <1>4, <1>5, <1>6, Handlers

(* A call is told from a forwarded one. *)
LEMMA TakeCallStep ==
    ASSUME HolePunchInv, ~Crashed, TakeCall
    PROVE  HolePunchInv'
<1>1. /\ rPc = "call" /\ MsgOK(rMsg) /\ rMsg.kind = "call"
      /\ peer \in Address \cup {Server} /\ opened \subseteq Provider
  BY DEF TakeCall, HolePunchInv, ReaderPart, WorldPart
<1>2. rMsg.info.addr \in Address
  BY <1>1 DEF MsgOK, Request, Ack, Call, Info
<1>3. /\ UNCHANGED <<users, flags, th, net, wrote, worldVars, faultVars>>
      /\ \/ /\ rPc' = "idle" /\ peer' = rMsg.info.addr
            /\ opened' \in {opened, opened \cup Reached(peer')}
         \/ /\ rPc' = "called" /\ peer # Server
            /\ UNCHANGED <<peer, rMsg, opened>>
  BY DEF TakeCall
<1>4. HandlerFrame
  BY <1>1, <1>2, <1>3, ReachedIsOne DEF HandlerFrame
<1>5. wrote' = wrote /\ muddles' = muddles /\ trouble' = trouble
  BY <1>3 DEF faultVars
<1>6. \A p : /\ ~Replacing(p) /\ ~Replacing(p)'
             /\ Listed(p)' = Listed(p) /\ At(p)' = At(p)
  BY <1>1, <1>3 DEF Replacing, Listed, At
<1>7. Stays
  BY <1>3, <1>5, <1>6 DEF Stays, Known, Punched
<1>8. UsersPart'
  BY <1>3, <1>5 DEF HolePunchInv, UsersPart, PeerOK, PeerRight
<1>9. ReaderPart'
  <2>1. CASE rPc' = "idle"
    BY <2>1 DEF ReaderPart, WantsSource
  <2>2. CASE rPc' = "called" /\ peer # Server /\ UNCHANGED <<peer, rMsg>>
    <3>1. MsgOK(rMsg)'
      BY <1>1, <1>7, <2>2, MsgStays DEF MsgOK
    <3>2. muddles = 0 => peer = rMsg.from
      BY <1>1 DEF HolePunchInv, ReaderPart, WantsSource
    <3> QED BY <1>1, <1>5, <2>2, <3>1, <3>2 DEF ReaderPart
  <2> QED BY <1>3, <2>1, <2>2
<1>10. FlagPart'
  BY <1>3, <1>7, KeepsFlags
<1> QED BY <1>4, <1>7, <1>8, <1>9, <1>10, Handlers

(* The caller's blank entry is filled in: it stays where it is. *)
LEMMA EntryFilled ==
    ASSUME HolePunchInv, AnswerCall
    PROVE  /\ users' \in Seq(Peer) /\ Len(users') = Len(users)
           /\ \A i \in 1..Len(users) :
                 \/ users'[i] = users[i]
                 \/ /\ users[i].mac = rMsg.info.mac
                    /\ users'[i] = [users[i] EXCEPT !.p2p = peer]
           /\ \A i \in 1..Len(users) :
                 /\ users'[i].mac = users[i].mac /\ users'[i].addr = users[i].addr
                 /\ users[i].p2p # None => users'[i].p2p # None
           /\ \A p : At(p)' = At(p) /\ Listed(p)' = Listed(p)
<1> DEFINE mac == rMsg.info.mac
           f == First(mac)
           e == [users[f] EXCEPT !.p2p = peer]
<1>1. peer \in Address \cup {Server} /\ users \in Seq(Peer)
  BY DEF HolePunchInv, WorldPart, UsersPart
<1>2. /\ users' \in Seq(Peer) /\ Len(users') = Len(users)
      /\ \A i \in 1..Len(users) :
            \/ users'[i] = users[i]
            \/ /\ users[i].mac = mac /\ users'[i] = [users[i] EXCEPT !.p2p = peer]
  <2>1. CASE Listed(mac) /\ GetAPeer(mac).p2p = None
    <3>1. f \in 1..Len(users) /\ users[f].mac = mac
      BY <1>1, <2>1, FirstIsThere DEF At
    <3>2. users' = [users EXCEPT ![f] = e]
      BY <2>1 DEF AnswerCall
    <3>3. users[f] \in Peer
      BY <1>1, <3>1, ElementOfSeq
    <3>4. e \in Peer
      BY <1>1, <3>3 DEF Peer
    <3> HIDE DEF mac, f
    <3>5. \A i \in 1..Len(users) : users'[i] = IF i = f THEN e ELSE users[i]
      BY <1>1, <3>2, LenProperties
    <3>6. users' \in Seq(Peer) /\ Len(users') = Len(users)
      BY <1>1, <3>1, <3>2, <3>4, ExceptSeq
    <3> QED BY <3>1, <3>5, <3>6
  <2>2. CASE ~(Listed(mac) /\ GetAPeer(mac).p2p = None)
    BY <1>1, <2>2 DEF AnswerCall
  <2> QED BY <2>1, <2>2
<1>3. \A i \in 1..Len(users) : users[i] \in Peer
  BY DEF HolePunchInv, UsersPart, PeerOK
<1> HIDE DEF mac
<1>4. \A i \in 1..Len(users) :
         /\ users'[i].mac = users[i].mac /\ users'[i].addr = users[i].addr
         /\ users[i].p2p # None => users'[i].p2p # None
  <2>1. peer # None
    BY <1>1, HolePunchDistinct
  <2> QED BY <1>2, <1>3, <2>1 DEF Peer
<1>5. \A p : At(p)' = At(p) /\ Listed(p)' = Listed(p)
  BY <1>2, <1>4 DEF Listed, At
<1> QED BY <1>2, <1>4, <1>5 DEF mac

LEMMA AnswerCallStep ==
    ASSUME HolePunchInv, ~Crashed, AnswerCall
    PROVE  HolePunchInv'
<1> DEFINE mac == rMsg.info.mac
<1>1. /\ rPc = "called" /\ MsgOK(rMsg) /\ rMsg.kind = "call"
      /\ peer \in Address \cup {Server} /\ opened \subseteq Provider
      /\ muddles = 0 => peer = rMsg.from /\ peer # Server
  BY DEF AnswerCall, HolePunchInv, ReaderPart, WorldPart, WantsSource
<1>2. /\ UNCHANGED <<flags, peer, th, net, wrote, worldVars, faultVars>>
      /\ opened' \in {opened, opened \cup Reached(peer)} /\ rPc' = "idle"
  BY DEF AnswerCall
<1>3. HandlerFrame
  BY <1>1, <1>2, ReachedIsOne DEF HandlerFrame
<1>4. wrote' = wrote /\ muddles' = muddles /\ trouble' = trouble
  BY <1>2 DEF faultVars
<1>5. /\ users' \in Seq(Peer) /\ Len(users') = Len(users)
      /\ \A i \in 1..Len(users) :
            \/ users'[i] = users[i]
            \/ /\ users[i].mac = mac /\ users'[i] = [users[i] EXCEPT !.p2p = peer]
      /\ \A i \in 1..Len(users) : users[i].p2p # None => users'[i].p2p # None
      /\ \A p : At(p)' = At(p) /\ Listed(p)' = Listed(p)
  BY EntryFilled
<1>6. \A i \in 1..Len(users) : users[i] \in Peer /\ PeerOK(users[i])
  BY DEF HolePunchInv, UsersPart, PeerOK
<1>7. muddles = 0 => peer \in wrote /\ peer[1] = mac
  BY <1>1 DEF MsgOK
<1> HIDE DEF mac
<1>8. UsersPart'
  <2> SUFFICES ASSUME NEW i \in 1..Len(users)
               PROVE  \E x : x = users'[i] /\ PeerOK(x)'
    BY <1>5 DEF UsersPart, PeerOK, PeerRight
  <2>0. PICK x : x = users'[i]
    OBVIOUS
  <2>1. users[i] \in Peer /\ PeerOK(users[i])
    BY <1>6
  <2>2. CASE x = users[i]
    BY <1>4, <2>0, <2>1, <2>2 DEF PeerOK, PeerRight
  <2>3. CASE users[i].mac = mac /\ x = [users[i] EXCEPT !.p2p = peer]
    <3>1. /\ x \in Peer /\ x.mac = mac /\ x.p2p = peer /\ x.addr = users[i].addr
      BY <1>1, <2>1, <2>3 DEF Peer
    <3>2. x.mac # None => x.addr \in Address /\ x.addr[1] = x.mac
      BY <2>1, <2>3, <3>1 DEF PeerOK
    <3>3. PeerRight(x)'
      BY <1>4, <1>7, <3>1 DEF PeerRight
    <3> QED BY <2>0, <3>1, <3>2, <3>3 DEF PeerOK
  <2> QED BY <1>5, <2>0, <2>2, <2>3
<1>9. \A p : ~Replacing(p) /\ \A i \in At(p) : i \in 1..Len(users)
  BY <1>1 DEF Replacing, At
<1>10. Stays
  BY <1>4, <1>5, <1>9 DEF Stays, Known, Punched
<1>11. ReaderPart'
  BY <1>2 DEF ReaderPart, WantsSource
<1>12. FlagPart'
  BY <1>2, <1>10, KeepsFlags
<1> QED BY <1>3, <1>8, <1>10, <1>11, <1>12, Handlers

-----------------------------------------------------------------------------
(* The server, the providers and the network.                              *)

(* The client is left alone; a datagram may go and a sound one come.       *)
ClientFrame == UNCHANGED <<users, flags, peer, readerVars, th, opened, muddles>>

LEMMA Outside ==
    ASSUME HolePunchInv, ~Crashed, ClientFrame, wrote \subseteq wrote',
           trouble' \in {trouble, trouble + 1},
           \A m \in net' : m \in net \/ (Stays => MsgOK(m)'), WorldPart'
    PROVE  HolePunchInv'
<1>1. /\ users' = users /\ flags' = flags /\ peer' = peer /\ th' = th
      /\ readerVars' = readerVars /\ muddles' \in {muddles, muddles + 1}
  BY DEF ClientFrame
<1>2. UsersPart' /\ ReaderPart' /\ Stays
  BY <1>1, Undisturbed
<1>3. NetPart' /\ FlagPart' /\ ThreadPart'
  BY <1>1, <1>2, KeepsNet, KeepsFlags, KeepsAllThreads
<1> QED BY <1>2, <1>3 DEF HolePunchInv

LEMMA GetIpStep ==
    ASSUME HolePunchInv, ~Crashed, NEW m \in net, ProcGetUserClientIP(m)
    PROVE  HolePunchInv'
<1>1. /\ m.kind = "getip" /\ MsgOK(m) /\ m.mac \in Provider
      /\ dir[m.mac] # None => dir[m.mac] \in Address /\ dir[m.mac][1] = m.mac
  BY DEF ProcGetUserClientIP, HolePunchInv, NetPart, WorldPart, MsgOK, Request, Ack, Call
<1> DEFINE info == IF dir[m.mac] = None THEN Empty
                   ELSE [mac |-> m.mac, addr |-> dir[m.mac]]
           a == [kind |-> "ipack", from |-> Server, info |-> info]
<1>2. /\ info \in Info \cup {Empty}
      /\ info.mac # None => info.addr \in Address /\ info.addr[1] = info.mac
  BY <1>1 DEF Info, Empty
<1>3. net' = (net \ {m}) \cup {a}
  BY DEF ProcGetUserClientIP, Reply
<1> HIDE DEF info
<1>4. a \in Ack /\ a.kind = "ipack" /\ a.info = info
  BY <1>2 DEF Ack
<1> HIDE DEF a
<1>5. MsgOK(a)
  BY <1>2, <1>4 DEF MsgOK
<1>6. \A n \in net' : n \in net \/ (Stays => MsgOK(n)')
  BY <1>3, <1>5, MsgStays
<1>7. ClientFrame /\ wrote' = wrote /\ trouble' = trouble /\ WorldPart'
  BY DEF ProcGetUserClientIP, ClientFrame, HolePunchInv, WorldPart,
         routerVars, worldVars, faultVars
<1> QED BY <1>6, <1>7, Outside

LEMMA ForwardStep ==
    ASSUME HolePunchInv, ~Crashed, NEW m \in net, ProcP2PConnectMsg(m)
    PROVE  HolePunchInv'
<1>1. /\ m.kind = "connect" /\ MsgOK(m) /\ m.mac \in Provider /\ Known(m.mac)
      /\ dir[m.mac] # None => dir[m.mac] \in Address /\ dir[m.mac][1] = m.mac
  BY DEF ProcP2PConnectMsg, HolePunchInv, NetPart, WorldPart, MsgOK, Request, Ack, Call
<1> DEFINE f == [kind |-> "forwarded", to |-> dir[m.mac], mac |-> m.mac]
<1>2. dir[m.mac] # None => MsgOK(f)
  BY <1>1 DEF MsgOK, Request
<1>3. \A n \in net' : n \in net \/ (dir[m.mac] # None /\ n = f)
  BY DEF ProcP2PConnectMsg, Reply
<1> HIDE DEF f
<1>4. \A n \in net' : n \in net \/ (Stays => MsgOK(n)')
  BY <1>2, <1>3, MsgStays
<1>5. ClientFrame /\ wrote' = wrote /\ trouble' = trouble /\ WorldPart'
  BY DEF ProcP2PConnectMsg, ClientFrame, HolePunchInv, WorldPart,
         routerVars, worldVars, faultVars
<1> QED BY <1>4, <1>5, Outside

(* The provider that acknowledges is known: the request was sent to it. *)
LEMMA AcknowledgeStep ==
    ASSUME HolePunchInv, ~Crashed, NEW p \in Provider, NEW m \in net,
           ProcMsgP2PConnect(p, m)
    PROVE  HolePunchInv'
<1>1. /\ nat[p] \in Address /\ nat[p][1] = p /\ known[p] \in Address /\ known[p][1] = p
      /\ nat[p] # Server
  BY HolePunchDistinct DEF HolePunchInv, WorldPart
<1>2. MsgOK(m) /\ m.kind \in {"connect", "forwarded"} /\ m.to = nat[p]
  BY DEF ProcMsgP2PConnect, HolePunchInv, NetPart
<1>3. Known(p) \/ Misled(p)
  BY <1>1, <1>2 DEF MsgOK
<1>0. PICK a : a = [kind |-> "connack", from |-> nat[p],
                    info |-> [mac |-> p, addr |-> known[p]]]
  OBVIOUS
<1>4. /\ a \in Ack /\ a.kind = "connack" /\ a.info.mac = p /\ a.from = nat[p]
      /\ a.info.addr = known[p]
  BY <1>0, <1>1 DEF Ack, Info
<1>5. net' = (net \ {m}) \cup {a} /\ wrote' = wrote \cup {nat[p]}
  BY <1>0 DEF ProcMsgP2PConnect, Reply
<1>6. Stays => MsgOK(a)'
  BY <1>1, <1>3, <1>4, <1>5 DEF MsgOK, Stays, Misled
<1>7. ClientFrame /\ UNCHANGED <<opened, worldVars, faultVars, trouble>>
  BY DEF ProcMsgP2PConnect, ClientFrame, faultVars
<1>8. WorldPart'
  BY <1>1, <1>5, <1>7 DEF ClientFrame, HolePunchInv, WorldPart, worldVars, faultVars
<1> QED BY <1>5, <1>6, <1>7, <1>8, Outside

(* A call comes from an address of the caller, or from the server. *)
LEMMA CallStep ==
    ASSUME HolePunchInv, ~Crashed, NEW p \in Provider, CallClient(p)
    PROVE  HolePunchInv'
<1>1. /\ nat[p] \in Address /\ nat[p][1] = p /\ known[p] \in Address
      /\ wrote \subseteq Address
  BY DEF HolePunchInv, WorldPart
<1>2. PICK from \in {nat[p], Server} :
         /\ net' = net \cup {[kind |-> "call", from |-> from,
                              info |-> [mac |-> p, addr |-> known[p]]]}
         /\ wrote' = wrote \cup ({from} \ {Server})
  BY DEF CallClient
<1>3. PICK c : c = [kind |-> "call", from |-> from, info |-> [mac |-> p, addr |-> known[p]]]
  OBVIOUS
<1>4. /\ c \in Call /\ c.kind = "call" /\ c.from = from /\ c.info.mac = p
      /\ p \in Caller
  BY <1>1, <1>3 DEF Call, Info, CallClient
<1>5. MsgOK(c)'
  BY <1>1, <1>2, <1>4 DEF MsgOK
<1>6. ClientFrame /\ UNCHANGED <<opened, worldVars, faultVars, trouble>>
  BY DEF CallClient, ClientFrame, faultVars
<1>7. wrote' \subseteq Address
  BY <1>1, <1>2
<1>8. WorldPart'
  BY <1>6, <1>7 DEF ClientFrame, HolePunchInv, WorldPart, worldVars, faultVars
<1> QED BY <1>2, <1>3, <1>5, <1>6, <1>8, Outside

LEMMA VanishStep ==
    ASSUME HolePunchInv, ~Crashed, NEW m \in net, Drop(m) \/ Lose(m)
    PROVE  HolePunchInv'
<1>1. /\ ClientFrame /\ net' = net \ {m}
      /\ UNCHANGED <<wrote, opened, worldVars, muddles>>
  BY DEF Drop, Lose, ClientFrame, routerVars, faultVars
<1>2. trouble' \in 0..MaxFaults /\ trouble' \in {trouble, trouble + 1}
  BY Counting DEF Drop, Lose, faultVars, HolePunchInv, WorldPart
<1>3. WorldPart'
  BY <1>1, <1>2 DEF ClientFrame, HolePunchInv, WorldPart, worldVars
<1> QED BY <1>1, <1>2, <1>3, Outside

(* A provider moves, disappears from the list, or logs in. *)
LEMMA ShiftStep ==
    ASSUME HolePunchInv, ~Crashed, NEW p \in Provider, Move(p) \/ Unlist(p) \/ LogIn(p)
    PROVE  HolePunchInv'
<1>1. ClientFrame /\ net' = net /\ UNCHANGED <<wrote, opened, faultVars, trouble>>
  BY DEF Move, Unlist, LogIn, ClientFrame, routerVars, faultVars
<1>2. /\ shifts' \in 0..MaxFaults /\ dir' \in [Provider -> Address \cup {None}]
      /\ nat' \in [Provider -> Address] /\ known' \in [Provider -> Address]
      /\ \A q \in Provider : /\ nat'[q][1] = q
                             /\ known'[q][1] = q
                             /\ dir'[q] # None => dir'[q][1] = q
  <2>1. /\ dir \in [Provider -> Address \cup {None}]
        /\ nat \in [Provider -> Address] /\ known \in [Provider -> Address]
        /\ \A q \in Provider : /\ nat[q][1] = q
                               /\ known[q][1] = q
                               /\ dir[q] # None => dir[q][1] = q
        /\ shifts \in 0..MaxFaults
    BY DEF HolePunchInv, WorldPart
  <2>2. CASE Move(p)
    <3> DEFINE a == [nat[p] EXCEPT ![2] = @ + 1]
    <3>1. nat' = [nat EXCEPT ![p] = a] /\ nat[p][2] < MaxAddr
      BY <2>2 DEF Move
    <3>2. a \in Address /\ a[1] = p
      <4>1. PICK n \in 1..MaxAddr : nat[p] = <<p, n>>
        BY <2>1 DEF Address
      <4>2. a = <<p, n + 1>> /\ n + 1 \in 1..MaxAddr
        BY <3>1, <4>1, Bounds
      <4> QED BY <4>2 DEF Address
    <3>3. shifts' \in 0..MaxFaults /\ dir' = dir /\ known' = known
      BY <2>2, Counting DEF Move
    <3> HIDE DEF a
    <3> QED BY <2>1, <3>1, <3>2, <3>3
  <2>3. CASE Unlist(p)
    BY <2>1, <2>3, Counting DEF Unlist
  <2>4. CASE LogIn(p)
    BY <2>1, <2>4 DEF LogIn
  <2> QED BY <2>2, <2>3, <2>4
<1>3. WorldPart'
  BY <1>1, <1>2 DEF ClientFrame, HolePunchInv, WorldPart, faultVars
<1> QED BY <1>1, <1>3, Outside

-----------------------------------------------------------------------------
(* The theorems.                                                           *)

LEMMA HolePunchInit == Init => HolePunchInv
<1> SUFFICES ASSUME Init PROVE HolePunchInv
  OBVIOUS
<1>1. UsersPart /\ ReaderPart /\ NetPart /\ FlagPart
  BY DEF Init, UsersPart, ReaderPart, WantsSource, NetPart, FlagPart
<1>2. ThreadPart
  <2>1. [pc |-> "check", round |-> 1, try |-> 0, cur |-> None, fails |-> 0] \in Locals
    BY Bounds DEF Locals
  <2> QED BY <2>1 DEF Init, ThreadPart, LocalsOK
<1>3. WorldPart
  <2>1. /\ nat \in [Provider -> Address] /\ \A p \in Provider : nat[p][1] = p
        /\ known = nat /\ dir = nat
    BY Bounds DEF Init, Address
  <2> QED BY <2>1, Bounds DEF Init, WorldPart
<1> QED BY <1>1, <1>2, <1>3 DEF HolePunchInv

LEMMA HolePunchStep == HolePunchInv /\ [Next]_vars => HolePunchInv'
<1> SUFFICES ASSUME HolePunchInv, [Next]_vars PROVE HolePunchInv'
  OBVIOUS
<1>1. CASE UNCHANGED vars
  BY <1>1 DEF vars, readerVars, routerVars, worldVars, faultVars, HolePunchInv,
     UsersPart, PeerOK, PeerRight, ReaderPart, WantsSource, MsgOK, NetPart, ThreadPart,
     LocalsOK, FlagPart, FlagOK, WorldPart, Known, Misled, Punched, Replacing, Listed, At
<1>2. CASE Next
  <2>1. ~Crashed
    BY <1>2 DEF Next
  <2>2. CASE \E t \in Thread : Step(t)
    BY <2>1, <2>2, LookStep, SendStep, WaitStep, AstrayStep DEF Step
  <2>3. CASE Reader
    BY <2>1, <2>3, ReadStep, IpAckStep, ConnAckStep, AddPeerStep, SetFlagStep,
       TakeCallStep, AnswerCallStep DEF Reader
  <2>4. CASE World
    BY <2>1, <2>4, GetIpStep, ForwardStep, AcknowledgeStep, CallStep, VanishStep, ShiftStep
    DEF World
  <2> QED BY <1>2, <2>2, <2>3, <2>4 DEF Next
<1> QED BY <1>1, <1>2

(* Peers, datagrams, flags and threads fit together as HolePunchInv says,  *)
(* whichever way threads and reader take turns.                            *)
THEOREM HolePunchInvariant == Spec => []HolePunchInv
  BY HolePunchInit, HolePunchStep, PTL DEF Spec

(* The list of peers, the flags, the threads' locals and what is under way *)
(* have the types the program gives them.                                  *)
THEOREM HolePunchTypeCorrect == Spec => []TypeOK
<1>1. HolePunchInv => TypeOK
  <2> SUFFICES ASSUME HolePunchInv PROVE TypeOK
    OBVIOUS
  <2>1. users \in Seq(Peer) /\ th \in [Thread -> Locals]
    BY DEF HolePunchInv, UsersPart, ThreadPart
  <2>2. flags \subseteq Flag /\ net \subseteq Request \cup Ack \cup Call
    BY DEF HolePunchInv, FlagPart, FlagOK, NetPart, MsgOK
  <2>3. rPc \in {"idle", "ipack", "connack", "add", "flag", "call", "called", "crashed"}
    BY DEF HolePunchInv, ReaderPart
  <2> QED BY <2>1, <2>2, <2>3 DEF HolePunchInv, WorldPart, TypeOK
<1> QED BY <1>1, HolePunchInvariant, PTL

(* A flag that is 1 tells the truth about the list of peers, for any       *)
(* number of threads that wait on the same or on different flags.          *)
THEOREM FlagsAreTrue == Spec => []FlagsTellTheTruth
<1>1. HolePunchInv => FlagsTellTheTruth
  <2> SUFFICES ASSUME HolePunchInv PROVE FlagsTellTheTruth
    OBVIOUS
  <2>1. ASSUME NEW p \in Provider, <<"ip", p>> \in flags
        PROVE  Listed(p) \/ Replacing(p)
    <3>1. FlagOK(<<"ip", p>>) /\ p # None
      BY <2>1, HolePunchAssumption DEF HolePunchInv, FlagPart
    <3> QED BY <3>1 DEF FlagOK, Known
  <2>2. ASSUME NEW a \in Address, <<"conn", a>> \in flags
        PROVE  (\E i \in At(a[1]) : users[i].p2p # None) \/ Replacing(a[1])
    <3>1. FlagOK(<<"conn", a>>)
      BY <2>2 DEF HolePunchInv, FlagPart
    <3> QED BY <3>1 DEF FlagOK, Punched
  <2> QED BY <2>1, <2>2 DEF FlagsTellTheTruth
<1> QED BY <1>1, HolePunchInvariant, PTL

(* A thread follows a pointer to no peer only while the reader is between  *)
(* its DeleteAPeer and its AddPeer, and the reader only as a provider that *)
(* is not listed acknowledges a request that went astray.                  *)
THEOREM NoNullElsewhere == Spec => []NullOnlyInGap
<1>1. HolePunchInv => NullOnlyInGap
  BY DEF HolePunchInv, ReaderPart, ThreadPart, LocalsOK, NullOnlyInGap, Misled
<1> QED BY <1>1, HolePunchInvariant, PTL

(* Unless a thread's write came between the reader's read and its question *)
(* for the source, a punched address is one the peer has written from, be  *)
(* it taken from an acknowledgement or from a call of the peer's own.      *)
THEOREM PunchedIsPeers == Spec => []PunchedAddressIsPeers
<1>1. HolePunchInv => PunchedAddressIsPeers
  BY DEF HolePunchInv, UsersPart, PeerOK, PeerRight, PunchedAddressIsPeers
<1> QED BY <1>1, HolePunchInvariant, PTL
=============================================================================
