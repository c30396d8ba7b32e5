--------------------------- MODULE PresenceProofs ---------------------------
(***************************************************************************)
(* Proofs about module Presence: for every set of clients and every bound, *)
(* however the sweep and the reader interleave, no MAC address is listed   *)
(* twice.                                                                  *)
(***************************************************************************)
EXTENDS Presence, SequenceTheorems, TLAPS

(* UniqueMac and Macs, for any list. *)
Distinct(l) == \A i, j \in 1..Len(l) : l[i].mac = l[j].mac => i = j

MacsIn(l) == {l[i].mac : i \in 1..Len(l)}

(* DeleteAPeer leaves a list of entries, the deleted address is gone, and  *)
(* no other appears; the other entries are kept. *)
LEMMA WithoutRemoves ==
    ASSUME NEW l \in Seq(PeerInfo), Distinct(l), NEW mac
    PROVE  /\ Without(l, mac) \in Seq(PeerInfo)
           /\ Distinct(Without(l, mac))
           /\ MacsIn(Without(l, mac)) \subseteq MacsIn(l) \ {mac}
           /\ \A i \in 1..Len(l) : l[i].mac # mac =>
                 \E j \in 1..Len(Without(l, mac)) : Without(l, mac)[j] = l[i]
<1> DEFINE at == {i \in 1..Len(l) : l[i].mac = mac}
           k == CHOOSE i \in at : \A j \in at : i <= j
           w == [i \in 1..(Len(l) - 1) |-> IF i < k THEN l[i] ELSE l[i + 1]]
<1>0. Len(l) \in Nat /\ \A i \in 1..Len(l) : l[i] \in PeerInfo
  BY ElementOfSeq, LenProperties
<1>1. CASE at = {}
  BY <1>1 DEF Without, MacsIn
<1>2. CASE at # {}
  <2>1. PICK p \in at : TRUE
    BY <1>2
  <2>2. at = {p}
    BY <2>1 DEF Distinct
  <2>3. k = p /\ p \in 1..Len(l) /\ l[p].mac = mac
    <3>1. p \in Int
      BY <2>1, <1>0
    <3>2. \A j \in at : p <= j
      BY <2>2, <3>1
    <3>3. \E i \in at : \A j \in at : i <= j
      BY <2>1, <3>2
    <3>4. k \in at
      BY <3>3
    <3> QED BY <3>4, <2>2, <2>1
  <2> HIDE DEF k
  <2>4. Without(l, mac) = w
    BY <1>2 DEF Without, k
  <2>5. \A i \in 1..(Len(l) - 1) : w[i] = IF i < p THEN l[i] ELSE l[i + 1]
    BY <2>3
  <2>6. /\ Len(l) - 1 \in Nat
        /\ \A i \in 1..(Len(l) - 1) : w[i] \in PeerInfo
    BY <2>3, <2>5, <1>0
  <2> DEFINE n == Len(l) - 1
  <2>7. w \in Seq(PeerInfo) /\ Len(w) = n
    <3> HIDE DEF n
    <3>1. w = [i \in 1..n |-> w[i]]
      BY DEF n
    <3>2. n \in Nat /\ \A i \in 1..n : w[i] \in PeerInfo
      BY <2>6 DEF n
    <3> HIDE DEF w
    <3>3. w \in [1..n -> PeerInfo]
      BY <3>1, <3>2
    <3> QED BY <3>2, <3>3, LenProperties, SeqDef
  <2> HIDE DEF w
  <2>8. Distinct(w)
    <3> SUFFICES ASSUME NEW i \in 1..Len(w), NEW j \in 1..Len(w),
                        w[i].mac = w[j].mac
                 PROVE  i = j
      BY DEF Distinct
    <3> DEFINE old(x) == IF x < p THEN x ELSE x + 1
    <3>1. /\ old(i) \in 1..Len(l) /\ w[i] = l[old(i)]
          /\ old(j) \in 1..Len(l) /\ w[j] = l[old(j)]
      BY <2>3, <2>5, <2>7, <1>0
    <3>2. old(i) = old(j)
      <4> HIDE DEF old
      <4> QED BY <3>1 DEF Distinct
    <3> QED BY <3>2, <2>3, <2>7, <1>0
  <2>9. MacsIn(w) \subseteq MacsIn(l) \ {mac}
    <3> SUFFICES ASSUME NEW i \in 1..Len(w)
                 PROVE  w[i].mac \in MacsIn(l) /\ w[i].mac # mac
      BY DEF MacsIn
    <3>1. PICK j \in 1..Len(l) : w[i] = l[j] /\ j # p
      BY <2>3, <2>5, <2>7, <1>0
    <3>2. l[j].mac # mac
      BY <3>1, <2>2
    <3> QED BY <3>1, <3>2 DEF MacsIn
  <2>10. ASSUME NEW i \in 1..Len(l), l[i].mac # mac
         PROVE  \E j \in 1..Len(w) : w[j] = l[i]
    <3>1. CASE i < p
      <4>1. i \in 1..n
        BY <2>3, <3>1, <1>0
      <4> QED BY <2>5, <2>7, <3>1, <4>1
    <3>2. CASE ~(i < p)
      <4>1. i - 1 \in 1..n /\ ~(i - 1 < p) /\ (i - 1) + 1 = i
        BY <2>3, <2>10, <3>2, <1>0
      <4> QED BY <2>5, <2>7, <4>1
    <3> QED BY <3>1, <3>2
  <2> QED BY <2>4, <2>7, <2>8, <2>9, <2>10
<1> QED BY <1>1, <1>2

(* AddPeer. *)
LEMMA AddedEntry ==
    ASSUME NEW l \in Seq(PeerInfo), Distinct(l),
           NEW e \in PeerInfo, e.mac \notin MacsIn(l)
    PROVE  Append(l, e) \in Seq(PeerInfo) /\ Distinct(Append(l, e))
<1> DEFINE a == Append(l, e)
<1>1. /\ a \in Seq(PeerInfo) /\ Len(a) = Len(l) + 1 /\ Len(l) \in Nat
      /\ \A i \in 1..Len(l) : a[i] = l[i]
      /\ a[Len(l) + 1] = e
  BY AppendProperties, LenProperties
<1> HIDE DEF a
<1>2. \A i \in 1..Len(l) : a[i].mac # e.mac
  BY <1>1 DEF MacsIn
<1>3. Distinct(a)
  <2> SUFFICES ASSUME NEW i \in 1..Len(a), NEW j \in 1..Len(a),
                      a[i].mac = a[j].mac
               PROVE  i = j
    BY DEF Distinct
  <2>1. CASE i \in 1..Len(l) /\ j \in 1..Len(l)
    BY <1>1, <2>1 DEF Distinct
  <2>2. CASE i = Len(l) + 1 \/ j = Len(l) + 1
    BY <1>1, <1>2, <2>2
  <2> QED BY <1>1, <2>1, <2>2
<1> QED BY <1>1, <1>3 DEF a

(* Only the times of the entries change. *)
LEMMA SameMacs ==
    ASSUME NEW l \in Seq(PeerInfo), NEW n \in [1..Len(l) -> PeerInfo],
           \A i \in 1..Len(l) : n[i].mac = l[i].mac
    PROVE  /\ n \in Seq(PeerInfo)
           /\ Distinct(l) => Distinct(n)
           /\ MacsIn(n) = MacsIn(l)
<1>1. Len(l) \in Nat
  BY LenProperties
<1>2. n \in Seq(PeerInfo) /\ Len(n) = Len(l)
  BY <1>1, LenProperties, SeqDef
<1> QED BY <1>2 DEF Distinct, MacsIn

(* What the kinds of messages carry. *)
LEMMA Carries ==
    ASSUME NEW m \in Message
    PROVE  /\ m.type = "login" => m.from \in Address /\ m.info \in PeerInfo
           /\ m.type = "active" => m.from \in Address /\ m.mac \in Client
           /\ m.type = "ack" => m.to \in Address /\ m.info \in PeerInfo
           /\ m.type = "query" => m.to \in Address
  BY DEF Message

LEMMA AgesGrow == \A age \in Ages : Older(age) \in Ages
  BY DEF Ages, Older, Old

(* Where a client is seen is an address. *)
LEMMA OutsideType ==
    ASSUME TypeOK, NEW c \in Client
    PROVE  Outside(c) \in Address
  BY PresenceAssumption DEF TypeOK, Outside, Address

(* Sending a message leaves only messages under way. *)
LEMMA SendType ==
    ASSUME NEW m \in Message, NEW kept \in SUBSET Message, Send(m, kept)
    PROVE  net' \subseteq Message
  BY DEF Send

LEMMA InitInv == Init => PresenceInv
<1> SUFFICES ASSUME Init PROVE PresenceInv
  OBVIOUS
<1>1. list \in Seq(PeerInfo) /\ Len(list) = 0
  BY EmptySeq DEF Init
<1>2. info \in [Client -> PeerInfo]
  BY PresenceAssumption DEF Init, NewInfo, PeerInfo, Address, Ages, Old
<1>3. TypeOK
  <2>1. peer \in Address
    BY PresenceAssumption DEF Init, Address
  <2>2. /\ heard \in [Client -> Ages] /\ tries \in [Client -> 0..MaxTry]
        /\ nat \in [Client -> 1..MaxNat] /\ faults \in 0..MaxFaults
    BY PresenceAssumption DEF Init, Ages, Old
  <2>3. /\ mN \in Nat /\ mI \in 1..(mN + 1)
        /\ net \subseteq Message /\ up \subseteq Client
    BY DEF Init
  <2>4. mPc = "sleep" /\ rPc = "idle"
    BY DEF Init
  <2>5. mCur = Nothing /\ rMsg = Nothing /\ rIp = <<>>
    BY DEF Init
  <2>6. disturbed \in BOOLEAN
    BY DEF Init
  <2> QED BY <1>1, <1>2, <2>1, <2>2, <2>3, <2>4, <2>5, <2>6 DEF TypeOK
<1> QED BY <1>1, <1>3 DEF Init, PresenceInv, UniqueMac

-----------------------------------------------------------------------------
(* The invariant, by the state it is about. *)
ListPart ==
    /\ list \in Seq(PeerInfo)
    /\ Distinct(list)
    /\ rPc = "add" => rMsg.mac \notin MacsIn(list)

SweepPart ==
    /\ mPc \in {"sleep", "look", "delete", "query", "write"}
    /\ mN \in Nat /\ mI \in 1..(mN + 1)
    /\ mCur \in IF mPc \in {"sleep", "look"} THEN {Nothing}
               ELSE [mac : Client, addr : Address, freed : BOOLEAN]
    /\ mPc \in {"delete", "query", "write"} => ~SweepEnds
    /\ disturbed \in BOOLEAN

ReaderPart ==
    /\ peer \in Address
    /\ rPc \in {"idle", "login", "add"}
    /\ rMsg \in IF rPc = "idle" THEN {Nothing} ELSE PeerInfo
    /\ rIp \in IF rPc = "add" THEN Address ELSE {<<>>}

ClientPart ==
    /\ up \subseteq Client
    /\ info \in [Client -> PeerInfo]
    /\ heard \in [Client -> Ages]
    /\ tries \in [Client -> 0..MaxTry]
    /\ nat \in [Client -> 1..MaxNat]
    /\ faults \in 0..MaxFaults

NetPart == net \subseteq Message

LEMMA InvParts ==
    /\ PresenceInv => ListPart /\ SweepPart /\ ReaderPart /\ ClientPart /\ NetPart
    /\ ListPart' /\ SweepPart' /\ ReaderPart' /\ ClientPart' /\ NetPart'
          => PresenceInv'
  BY Zenon DEF PresenceInv, TypeOK, UniqueMac, Macs, Distinct, MacsIn, ListPart,
     SweepPart, ReaderPart, ClientPart, NetPart

(* What a step leaves alone keeps its part. *)
LEMMA Framed ==
    /\ ListPart /\ UNCHANGED <<list, rPc, rMsg>> => ListPart'
    /\ SweepPart /\ UNCHANGED sweepVars => SweepPart'
    /\ ReaderPart /\ UNCHANGED <<peer, rPc, rMsg, rIp>> => ReaderPart'
    /\ ClientPart /\ UNCHANGED <<clientVars, faultVars>> => ClientPart'
    /\ NetPart /\ UNCHANGED net => NetPart'
  BY Zenon DEF ListPart, SweepPart, ReaderPart, ClientPart, NetPart, SweepEnds,
     sweepVars, clientVars, faultVars

-----------------------------------------------------------------------------
(* Steps of the sweep. *)
LEMMA SweepStartStep ==
    ASSUME PresenceInv, SweepStart
    PROVE  PresenceInv'
<1> USE InvParts
<1>1. ListPart'
  <2>1. \A i \in 1..Len(list) : list[i] \in PeerInfo
    BY ElementOfSeq DEF ListPart
  <2>2. /\ list' \in [1..Len(list) -> PeerInfo]
        /\ \A i \in 1..Len(list) : list'[i].mac = list[i].mac
    BY <2>1, AgesGrow DEF SweepStart, PeerInfo
  <2>3. /\ list' \in Seq(PeerInfo) /\ Distinct(list')
        /\ MacsIn(list') = MacsIn(list)
    BY <2>2, SameMacs DEF ListPart
  <2>4. rPc' = rPc /\ (rPc = "add" => rMsg'.mac = rMsg.mac)
    BY DEF SweepStart, ReaderPart, PeerInfo
  <2> QED BY <2>3, <2>4 DEF ListPart
<1>2. SweepPart'
  <2>1. mN' \in Nat /\ mI' \in 1..(mN' + 1)
    BY LenProperties DEF SweepStart, ListPart
  <2>2. mPc' = "look" /\ mCur' = Nothing
    BY DEF SweepStart, SweepPart
  <2>3. disturbed' \in BOOLEAN
    BY DEF SweepStart
  <2> QED BY <2>1, <2>2, <2>3 DEF SweepPart
<1>3. ReaderPart'
  BY AgesGrow DEF SweepStart, ReaderPart, PeerInfo
<1>4. ClientPart'
  <2>1. info' \in [Client -> PeerInfo]
    <3>1. info' = [c \in Client |-> [info[c] EXCEPT !.age = Older(@)]]
      BY DEF SweepStart
    <3>2. \A c \in Client : [info[c] EXCEPT !.age = Older(@)] \in PeerInfo
      BY AgesGrow DEF ClientPart, PeerInfo
    <3> QED BY Zenon, <3>1, <3>2
  <2>2. heard' \in [Client -> Ages]
    <3>1. heard' = [c \in Client |-> Older(heard[c])]
      BY DEF SweepStart
    <3> QED BY <3>1, AgesGrow DEF ClientPart
  <2>3. UNCHANGED <<up, tries, nat, faults>>
    BY DEF SweepStart, faultVars
  <2> QED BY <2>1, <2>2, <2>3 DEF ClientPart
<1>5. NetPart'
  <2> SUFFICES ASSUME NEW m \in net
               PROVE  (IF m.type \in {"login", "ack"}
                       THEN [m EXCEPT !.info.age = Older(@)] ELSE m) \in Message
    BY DEF SweepStart, NetPart
  <2>1. m \in Message
    BY DEF NetPart
  <2>2. CASE m \in [type : {"login"}, from : Address, info : PeerInfo]
    BY <2>2, AgesGrow DEF Message, PeerInfo
  <2>3. CASE m \in [type : {"ack"}, to : Address, info : PeerInfo]
    BY <2>3, AgesGrow DEF Message, PeerInfo
  <2>4. CASE m.type \notin {"login", "ack"}
    BY <2>1, <2>4
  <2> QED BY <2>1, <2>2, <2>3, <2>4 DEF Message
<1> QED BY <1>1, <1>2, <1>3, <1>4, <1>5

LEMMA LookStep ==
    ASSUME PresenceInv, Look
    PROVE  PresenceInv'
<1> USE InvParts
<1>1. ListPart' /\ ReaderPart' /\ ClientPart' /\ NetPart'
  BY Framed DEF Look, readerVars
<1>2. disturbed' \in BOOLEAN
  BY DEF Look, SweepPart
<1>3. CASE SweepEnds
  <2>1. mPc' = "sleep" /\ mI' = 1 /\ mN' = 0 /\ mCur' = Nothing
    BY <1>3 DEF Look, SweepPart
  <2> QED BY <1>1, <1>2, <2>1 DEF SweepPart
<1>4. CASE ~SweepEnds /\ mI > Len(list)
  <2>1. mPc' = "look" /\ mI' = mI + 1 /\ mN' = mN /\ mCur' = Nothing
    BY <1>4 DEF Look, SweepPart
  <2> QED BY <1>1, <1>2, <1>4, <2>1 DEF SweepPart, SweepEnds
<1>5. CASE ~SweepEnds /\ ~(mI > Len(list))
  <2>1. list[mI] \in PeerInfo
    BY <1>5, ElementOfSeq, LenProperties DEF ListPart, SweepPart
  <2>2. mCur' \in [mac : Client, addr : Address, freed : BOOLEAN]
    <3>1. mCur' = [mac |-> list[mI].mac, addr |-> list[mI].addr, freed |-> FALSE]
      BY <1>5 DEF Look
    <3>2. list[mI].mac \in Client /\ list[mI].addr \in Address
      BY <2>1 DEF PeerInfo
    <3> QED BY Zenon, <3>1, <3>2
  <2>3. mPc' \in {"delete", "query"} /\ mI' = mI /\ mN' = mN
    BY <1>5 DEF Look
  <2> QED BY <1>1, <1>2, <1>5, <2>2, <2>3 DEF SweepPart, SweepEnds
<1> QED BY <1>1, <1>3, <1>4, <1>5

LEMMA SweepDeleteStep ==
    ASSUME PresenceInv, SweepDelete
    PROVE  PresenceInv'
<1> USE InvParts
<1>1. ReaderPart' /\ ClientPart' /\ NetPart'
  BY Framed DEF SweepDelete, readerVars
<1>2. ListPart'
  <2>1. /\ list' \in Seq(PeerInfo) /\ Distinct(list')
        /\ MacsIn(list') \subseteq MacsIn(list)
    BY WithoutRemoves DEF SweepDelete, ListPart
  <2> QED BY <2>1 DEF SweepDelete, ListPart, readerVars
<1>3. SweepPart'
  <2>1. disturbed' \in BOOLEAN
    BY DEF SweepDelete, SweepPart
  <2> QED BY <2>1 DEF SweepDelete, SweepPart
<1> QED BY <1>1, <1>2, <1>3

LEMMA QueryStep ==
    ASSUME PresenceInv, SweepSetPeer \/ SweepWrite
    PROVE  PresenceInv'
<1> USE InvParts
<1>1. CASE SweepSetPeer
  <2>1. ListPart' /\ ClientPart' /\ NetPart'
    BY <1>1, Framed DEF SweepSetPeer, readerVars
  <2>2. ReaderPart'
    BY <1>1 DEF SweepSetPeer, SweepPart, ReaderPart, readerVars
  <2>3. SweepPart'
    <3>1. disturbed' \in BOOLEAN
      BY <1>1 DEF SweepSetPeer, SweepPart
    <3> QED BY <1>1, <3>1 DEF SweepSetPeer, SweepPart, SweepEnds
  <2> QED BY <2>1, <2>2, <2>3
<1>2. CASE SweepWrite
  <2>1. ListPart' /\ ReaderPart' /\ ClientPart'
    BY <1>2, Framed DEF SweepWrite, readerVars
  <2>2. SweepPart'
    <3>1. disturbed' \in BOOLEAN
      BY <1>2 DEF SweepWrite, SweepPart
    <3> QED BY <1>2, <3>1 DEF SweepWrite, SweepPart, SweepEnds
  <2>3. NetPart'
    <3>1. [type |-> "query", to |-> peer] \in Message
      BY DEF Message, ReaderPart
    <3> QED BY <1>2, <3>1, SendType DEF SweepWrite, NetPart
  <2> QED BY <2>1, <2>2, <2>3
<1> QED BY <1>1, <1>2

-----------------------------------------------------------------------------
(* Steps of the reader. *)
LEMMA ReadStep ==
    ASSUME PresenceInv, NEW m \in net, ReadLogin(m) \/ ReadActive(m)
    PROVE  PresenceInv'
<1> USE InvParts
<1>1. m \in Message
  BY DEF NetPart
<1>2. CASE ReadLogin(m)
  <2>1. SweepPart' /\ ClientPart'
    BY <1>2, Framed DEF ReadLogin
  <2>2. ListPart'
    BY <1>2 DEF ReadLogin, ListPart
  <2>3. ReaderPart'
    BY <1>1, <1>2, Carries DEF ReadLogin, ReaderPart
  <2>4. NetPart'
    BY <1>2 DEF ReadLogin, NetPart
  <2> QED BY <2>1, <2>2, <2>3, <2>4
<1>3. CASE ReadActive(m)
  <2>1. SweepPart' /\ ClientPart'
    BY <1>3, Framed DEF ReadActive
  <2>2. ListPart'
    <3>1. \A i \in 1..Len(list) : list[i] \in PeerInfo
      BY ElementOfSeq DEF ListPart
    <3>2. list' = [i \in 1..Len(list) |->
                     IF list[i].mac = m.mac THEN [list[i] EXCEPT !.age = 0]
                                            ELSE list[i]]
      BY <1>3 DEF ReadActive
    <3>3. /\ list' \in [1..Len(list) -> PeerInfo]
          /\ \A i \in 1..Len(list) : list'[i].mac = list[i].mac
      BY <3>1, <3>2 DEF PeerInfo, Ages, Old
    <3>4. /\ list' \in Seq(PeerInfo) /\ Distinct(list')
          /\ MacsIn(list') = MacsIn(list)
      BY <3>3, SameMacs DEF ListPart
    <3> QED BY <1>3, <3>4 DEF ReadActive, readerVars, ListPart
  <2>3. ReaderPart'
    BY <1>1, <1>3, Carries DEF ReadActive, ReaderPart, readerVars
  <2>4. NetPart'
    BY <1>3 DEF ReadActive, NetPart
  <2> QED BY <2>1, <2>2, <2>3, <2>4
<1> QED BY <1>2, <1>3

LEMMA LoginDeleteStep ==
    ASSUME PresenceInv, LoginDelete
    PROVE  PresenceInv'
<1> USE InvParts
<1>1. ClientPart' /\ NetPart'
  BY Framed DEF LoginDelete
<1>2. rMsg \in PeerInfo /\ rMsg' \in PeerInfo /\ rMsg'.mac = rMsg.mac
  <2>1. rMsg \in PeerInfo /\ peer \in Address
    BY DEF LoginDelete, ReaderPart
  <2>2. rMsg' \in {rMsg, [rMsg EXCEPT !.addr = peer, !.age = 0]}
    BY DEF LoginDelete, LoginAddress
  <2>3. 0 \in Ages
    BY DEF Ages, Old
  <2>4. /\ [rMsg EXCEPT !.addr = peer, !.age = 0] \in PeerInfo
        /\ [rMsg EXCEPT !.addr = peer, !.age = 0].mac = rMsg.mac
    BY <2>1, <2>3 DEF PeerInfo
  <2> QED BY <2>1, <2>2, <2>4
<1>3. ListPart'
  BY <1>2, WithoutRemoves DEF LoginDelete, ListPart
<1>4. ReaderPart'
  BY <1>2 DEF LoginDelete, ReaderPart
<1>5. SweepPart'
  <2>1. disturbed' \in BOOLEAN
    BY DEF LoginDelete
  <2>2. UNCHANGED <<mPc, mI, mN>>
    BY DEF LoginDelete
  <2>3. CASE mCur = Nothing
    BY <2>1, <2>2, <2>3 DEF LoginDelete, SweepPart, SweepEnds
  <2>4. CASE mCur # Nothing
    <3>1. mCur' \in {mCur, [mCur EXCEPT !.freed = TRUE]}
      BY DEF LoginDelete
    <3>2. mCur \in [mac : Client, addr : Address, freed : BOOLEAN]
      BY <2>4 DEF SweepPart
    <3>3. mCur' \in [mac : Client, addr : Address, freed : BOOLEAN]
      BY <3>1, <3>2
    <3> QED BY <2>1, <2>2, <2>4, <3>3 DEF SweepPart, SweepEnds
  <2> QED BY <2>3, <2>4
<1> QED BY <1>1, <1>3, <1>4, <1>5

LEMMA LoginAddStep ==
    ASSUME PresenceInv, LoginAdd
    PROVE  PresenceInv'
<1> USE InvParts
<1>1. ClientPart'
  BY Framed DEF LoginAdd
<1>2. rMsg \in PeerInfo /\ rIp \in Address
  BY DEF LoginAdd, ReaderPart
<1>3. ListPart'
  BY <1>2, AddedEntry DEF LoginAdd, ListPart
<1>4. ReaderPart'
  BY <1>2 DEF LoginAdd, ReaderPart
<1>5. SweepPart'
  <2>1. disturbed' \in BOOLEAN
    BY DEF LoginAdd
  <2>2. UNCHANGED <<mPc, mI, mN, mCur>>
    BY DEF LoginAdd
  <2> QED BY <2>1, <2>2 DEF SweepPart, SweepEnds
<1>6. NetPart'
  <2>1. [type |-> "ack", to |-> rIp, info |-> rMsg] \in Message
    BY <1>2 DEF Message
  <2> QED BY <2>1, SendType DEF LoginAdd, NetPart
<1> QED BY <1>1, <1>3, <1>4, <1>5, <1>6

-----------------------------------------------------------------------------
(* Steps of the clients. *)
LEMMA LoginStep ==
    ASSUME PresenceInv, NEW c \in Client, Login(c)
    PROVE  PresenceInv'
<1> USE InvParts
<1>1. ListPart' /\ SweepPart' /\ ReaderPart'
  BY Framed DEF Login, DoLogin, Retry, GiveUp, readerVars
<1>2. ClientPart'
  <2>1. UNCHANGED <<up, info, heard, nat, faults>>
    BY DEF Login, DoLogin, Retry, GiveUp, faultVars
  <2>2. tries' \in [Client -> 0..MaxTry]
    BY PresenceAssumption DEF Login, DoLogin, Retry, GiveUp, ClientPart
  <2> QED BY <2>1, <2>2 DEF ClientPart
<1>3. NetPart'
  <2>1. LoginFrom(c) \in Message
    <3>1. TypeOK
      BY DEF PresenceInv
    <3> QED BY <3>1, OutsideType DEF LoginFrom, Message, ClientPart
  <2> QED BY <2>1, SendType DEF Login, DoLogin, Retry, GiveUp, NetPart
<1> QED BY <1>1, <1>2, <1>3

LEMMA ReceiveStep ==
    ASSUME PresenceInv, NEW c \in Client, NEW m \in net,
           ReceiveAck(c, m) \/ ReceiveQuery(c, m)
    PROVE  PresenceInv'
<1> USE InvParts
<1>1. ListPart' /\ SweepPart' /\ ReaderPart'
  BY Framed DEF ReceiveAck, ReceiveQuery, readerVars
<1>2. m \in Message
  BY DEF NetPart
<1>3. CASE ReceiveAck(c, m)
  <2>1. m.info \in PeerInfo
    BY <1>2, <1>3, Carries DEF ReceiveAck
  <2>2. ClientPart'
    BY <1>3, <2>1, PresenceAssumption
    DEF ReceiveAck, ClientPart, faultVars, Ages, Old
  <2>3. NetPart'
    BY <1>3 DEF ReceiveAck, NetPart
  <2> QED BY <1>1, <2>2, <2>3
<1>4. CASE ReceiveQuery(c, m)
  <2>1. ClientPart'
    BY <1>4 DEF ReceiveQuery, ClientPart, faultVars, Ages, Old
  <2>2. NetPart'
    <3>1. info[c].mac \in Client
      BY DEF ClientPart, PeerInfo
    <3>2. Outside(c) \in Address
      BY OutsideType DEF PresenceInv
    <3>3. [type |-> "active", from |-> Outside(c), mac |-> info[c].mac] \in Message
      BY <3>1, <3>2 DEF Message
    <3> QED BY <1>4, <3>3, SendType DEF ReceiveQuery, NetPart
  <2> QED BY <1>1, <2>1, <2>2
<1> QED BY <1>3, <1>4

(* Faults. *)
LEMMA FaultStep ==
    ASSUME PresenceInv,
           \/ \E c \in Client : NatChange(c) \/ Crash(c) \/ Start(c)
           \/ \E m \in net : Lose(m)
           \/ ServerRestart
    PROVE  PresenceInv'
<1> USE InvParts
<1>1. ASSUME NEW c \in Client, NatChange(c) \/ Crash(c) \/ Start(c)
      PROVE  PresenceInv'
  <2>1. ListPart' /\ SweepPart' /\ ReaderPart' /\ NetPart'
    BY <1>1, Framed DEF NatChange, Crash, Start, readerVars
  <2>2. NewInfo(c) \in PeerInfo
    BY PresenceAssumption DEF NewInfo, PeerInfo, Address, Ages, Old
  <2>3. /\ up' \subseteq Client
        /\ info' \in [Client -> PeerInfo]
        /\ heard' \in [Client -> Ages]
        /\ tries' \in [Client -> 0..MaxTry]
    BY <1>1, <2>2, PresenceAssumption
    DEF NatChange, Crash, Start, ClientPart, clientVars, Ages, Old
  <2>4. nat' \in [Client -> 1..MaxNat] /\ faults' \in 0..MaxFaults
    BY <1>1, PresenceAssumption
    DEF NatChange, Crash, Start, Fault, ClientPart, faultVars
  <2> QED BY <2>1, <2>3, <2>4 DEF ClientPart
<1>2. ASSUME NEW m \in net, Lose(m)
      PROVE  PresenceInv'
  <2>1. ListPart' /\ SweepPart' /\ ReaderPart' /\ ClientPart'
    BY <1>2, Framed DEF Lose, readerVars
  <2> QED BY <1>2, <2>1 DEF Lose, NetPart
<1>3. CASE ServerRestart
  <2>1. NetPart'
    BY <1>3 DEF ServerRestart, NetPart
  <2>2. ListPart'
    BY <1>3, EmptySeq DEF ServerRestart, ListPart, Distinct
  <2>3. SweepPart'
    <3>1. disturbed' \in BOOLEAN
      BY <1>3 DEF ServerRestart, SweepPart
    <3> QED BY <1>3, <3>1 DEF ServerRestart, SweepPart
  <2>4. ReaderPart'
    BY <1>3 DEF ServerRestart, ReaderPart
  <2>5. ClientPart'
    BY <1>3, PresenceAssumption DEF ServerRestart, Fault, ClientPart, clientVars
  <2> QED BY <2>1, <2>2, <2>3, <2>4, <2>5
<1> QED BY <1>1, <1>2, <1>3

-----------------------------------------------------------------------------
LEMMA PresenceKept == PresenceInv /\ [Next]_vars => PresenceInv'
<1> SUFFICES ASSUME PresenceInv, [Next]_vars PROVE PresenceInv'
  OBVIOUS
<1>1. CASE UNCHANGED vars
  BY <1>1, Framed, InvParts DEF vars, readerVars
<1>2. CASE Sweep
  BY <1>2, SweepStartStep, LookStep, SweepDeleteStep, QueryStep DEF Sweep
<1>3. CASE Reader
  BY <1>3, ReadStep, LoginDeleteStep, LoginAddStep DEF Reader
<1>4. ASSUME NEW c \in Client, Login(c) \/ Receive(c)
      PROVE  PresenceInv'
  BY <1>4, LoginStep, ReceiveStep DEF Receive
<1> QED BY <1>1, <1>2, <1>3, <1>4, FaultStep DEF Next

(* The invariant of the online list and of the protocol around it: however *)
(* the sweep, the reader and the clients interleave, and whatever is lost  *)
(* or restarts.                                                            *)
THEOREM PresenceInvariant == Spec => []PresenceInv
  BY InitInv, PresenceKept, PTL DEF Spec

(* Type correctness for all clients, retry limits, addresses and faults.   *)
THEOREM PresenceTypeCorrect == Spec => []TypeOK
<1>1. PresenceInv => TypeOK
  BY DEF PresenceInv
<1> QED BY <1>1, PresenceInvariant, PTL

(* The server lists no MAC address twice: DeleteAPeer and AddPeer lock the *)
(* list one at a time, but only one thread ever adds.                      *)
THEOREM EveryMacIsUnique == Spec => []UniqueMac
<1>1. PresenceInv => UniqueMac
  BY DEF PresenceInv
<1> QED BY <1>1, PresenceInvariant, PTL

-----------------------------------------------------------------------------
(* The list as a directory.                                                *)
AddressIn(l, c) ==
    IF c \in MacsIn(l) THEN l[CHOOSE i \in 1..Len(l) : l[i].mac = c].addr ELSE <<>>

Entries(l) == [c \in Client |-> AddressIn(l, c)]

(* The address of a client is the one of the only entry of it. *)
LEMMA AddressOf ==
    ASSUME NEW l, Distinct(l), NEW i \in 1..Len(l)
    PROVE  AddressIn(l, l[i].mac) = l[i].addr
<1> DEFINE k == CHOOSE j \in 1..Len(l) : l[j].mac = l[i].mac
<1>1. k \in 1..Len(l) /\ l[k].mac = l[i].mac
  OBVIOUS
<1> HIDE DEF k
<1>2. k = i
  BY <1>1 DEF Distinct
<1>3. l[i].mac \in MacsIn(l)
  BY DEF MacsIn
<1> QED BY <1>2, <1>3 DEF AddressIn, k

(* A list that keeps an entry of a client keeps its address. *)
LEMMA SameAddress ==
    ASSUME NEW l, NEW n, Distinct(l), Distinct(n), NEW c,
           NEW i \in 1..Len(l), l[i].mac = c,
           NEW j \in 1..Len(n), n[j].mac = l[i].mac, n[j].addr = l[i].addr
    PROVE  AddressIn(n, c) = AddressIn(l, c)
<1>1. AddressIn(l, l[i].mac) = l[i].addr
  BY AddressOf
<1>2. AddressIn(n, n[j].mac) = n[j].addr
  BY AddressOf
<1> QED BY <1>1, <1>2

LEMMA SameEntries ==
    ASSUME NEW l, NEW n, Distinct(l), Distinct(n), Len(n) = Len(l),
           \A i \in 1..Len(l) : n[i].mac = l[i].mac /\ n[i].addr = l[i].addr
    PROVE  Entries(n) = Entries(l)
<1> SUFFICES ASSUME NEW c \in Client PROVE AddressIn(n, c) = AddressIn(l, c)
  BY DEF Entries
<1>1. CASE c \in MacsIn(l)
  <2>1. PICK i \in 1..Len(l) : l[i].mac = c
    BY <1>1 DEF MacsIn
  <2> QED BY <2>1, SameAddress
<1>2. CASE c \notin MacsIn(l)
  <2>1. c \notin MacsIn(n)
    BY <1>2 DEF MacsIn
  <2> QED BY <1>2, <2>1 DEF AddressIn
<1> QED BY <1>1, <1>2

(* DeleteAPeer removes one client. *)
LEMMA RemovedEntry ==
    ASSUME NEW l \in Seq(PeerInfo), Distinct(l), NEW mac \in Client
    PROVE  Entries(Without(l, mac)) = [Entries(l) EXCEPT ![mac] = <<>>]
<1>0. PICK w : w = Without(l, mac)
  OBVIOUS
<1>1. /\ Distinct(w) /\ MacsIn(w) \subseteq MacsIn(l) \ {mac}
      /\ \A i \in 1..Len(l) : l[i].mac # mac => \E j \in 1..Len(w) : w[j] = l[i]
  BY <1>0, WithoutRemoves
<1>2. AddressIn(w, mac) = <<>>
  BY <1>1 DEF AddressIn
<1>3. ASSUME NEW c \in Client, c # mac
      PROVE  AddressIn(w, c) = AddressIn(l, c)
  <2>1. CASE c \in MacsIn(l)
    <3>1. PICK i \in 1..Len(l) : l[i].mac = c
      BY <2>1 DEF MacsIn
    <3>2. PICK j \in 1..Len(w) : w[j] = l[i]
      BY <1>1, <1>3, <3>1
    <3> QED BY <1>1, <3>1, <3>2, SameAddress
  <2>2. CASE c \notin MacsIn(l)
    BY <1>1, <2>2 DEF AddressIn
  <2> QED BY <2>1, <2>2
<1> QED BY <1>0, <1>2, <1>3 DEF Entries

(* AddPeer registers one client that was not listed. *)
LEMMA RegisteredEntry ==
    ASSUME NEW l \in Seq(PeerInfo), Distinct(l),
           NEW e \in PeerInfo, e.mac \notin MacsIn(l)
    PROVE  /\ Entries(l)[e.mac] = <<>>
           /\ Entries(Append(l, e)) = [Entries(l) EXCEPT ![e.mac] = e.addr]
<1>0. PICK a : a = Append(l, e)
  OBVIOUS
<1>1. /\ Distinct(a) /\ Len(l) \in Nat /\ Len(a) = Len(l) + 1
      /\ \A i \in 1..Len(l) : a[i] = l[i]
      /\ a[Len(l) + 1] = e /\ e.mac \in Client
  <2>1. Distinct(a)
    BY <1>0, AddedEntry
  <2>2. e.mac \in Client
    BY DEF PeerInfo
  <2>3. /\ Len(l) \in Nat /\ Len(a) = Len(l) + 1
        /\ \A i \in 1..Len(l) : a[i] = l[i]
        /\ a[Len(l) + 1] = e
    BY <1>0, AppendProperties, LenProperties
  <2> QED BY <2>1, <2>2, <2>3
<1>2. AddressIn(a, e.mac) = e.addr
  <2>1. Len(l) + 1 \in 1..Len(a)
    BY <1>1
  <2>2. AddressIn(a, a[Len(l) + 1].mac) = a[Len(l) + 1].addr
    BY <1>1, <2>1, AddressOf
  <2> QED BY <1>1, <2>2
<1>3. ASSUME NEW c \in Client, c # e.mac
      PROVE  AddressIn(a, c) = AddressIn(l, c)
  <2>1. CASE c \in MacsIn(l)
    <3>1. PICK i \in 1..Len(l) : l[i].mac = c
      BY <2>1 DEF MacsIn
    <3>2. i \in 1..Len(a) /\ a[i] = l[i]
      BY <1>1
    <3> QED BY <1>1, <3>1, <3>2, SameAddress
  <2>2. CASE c \notin MacsIn(l)
    <3>1. \A i \in 1..Len(a) : i \in 1..Len(l) \/ i = Len(l) + 1
      BY <1>1
    <3>2. c \notin MacsIn(a)
      BY <1>1, <1>3, <2>2, <3>1 DEF MacsIn
    <3> QED BY <2>2, <3>2 DEF AddressIn
  <2> QED BY <2>1, <2>2
<1>4. Entries(l)[e.mac] = <<>>
  BY <1>1 DEF Entries, AddressIn
<1> QED BY <1>0, <1>2, <1>3, <1>4 DEF Entries

LEMMA DirectoryEntries ==
    /\ [c \in Client |-> ListedAddress(c)] = Entries(list)
    /\ [c \in Client |-> ListedAddress(c)]' = Entries(list')
  BY DEF ListedAddress, Entries, AddressIn, Macs, MacsIn

(* What a step does to the list is a step of the directory or none. *)
LEMMA DirectoryStep ==
    ASSUME PresenceInv, [Next]_vars
    PROVE  [Dir!Next]_[c \in Client |-> ListedAddress(c)]
<1>0. PICK old, new : old = Entries(list) /\ new = Entries(list')
  OBVIOUS
<1>1. ListPart /\ SweepPart /\ ReaderPart /\ ListPart' /\ NetPart
  <2>1. PresenceInv'
    BY PresenceKept
  <2>2. PresenceInv' => ListPart'
    BY Zenon DEF PresenceInv, TypeOK, UniqueMac, Macs, Distinct, MacsIn, ListPart
  <2> QED BY <2>1, <2>2, InvParts
<1>2. ASSUME new = old
      PROVE  [Dir!Next]_[c \in Client |-> ListedAddress(c)]
  BY <1>0, <1>2, DirectoryEntries
<1>3. ASSUME NEW c \in Client, new = [old EXCEPT ![c] = <<>>]
      PROVE  Dir!Next
  BY <1>0, <1>3, DirectoryEntries DEF Dir!Next, Dir!Remove
<1>4. ASSUME NEW c \in Client, NEW a \in Address, old[c] = <<>>,
             new = [old EXCEPT ![c] = a]
      PROVE  Dir!Next
  BY <1>0, <1>4, DirectoryEntries DEF Dir!Next, Dir!Register
<1>5. CASE list' = list
  BY <1>0, <1>2, <1>5
<1>6. CASE SweepStart \/ \E m \in net : ReadActive(m)
  <2>1. \A i \in 1..Len(list) : list[i] \in PeerInfo
    BY <1>1, ElementOfSeq DEF ListPart
  <2>2. /\ list' = [i \in 1..Len(list) |-> list'[i]]
        /\ \A i \in 1..Len(list) : /\ list'[i] \in PeerInfo
                                   /\ list'[i].mac = list[i].mac
                                   /\ list'[i].addr = list[i].addr
    BY <1>6, <2>1, AgesGrow DEF SweepStart, ReadActive, PeerInfo, Ages, Old
  <2>3. Len(list') = Len(list)
    <3>1. Len(list) \in Nat
      BY <1>1, LenProperties DEF ListPart
    <3> QED BY <2>2, <3>1, LenProperties, SeqDef
  <2>4. new = old
    BY <1>0, <1>1, <2>2, <2>3, SameEntries DEF ListPart
  <2> QED BY <1>2, <2>4
<1>7. CASE SweepDelete /\ list' # list
  <2>1. list' = Without(list, mCur.mac) /\ mCur.mac \in Client
    BY <1>1, <1>7 DEF SweepDelete, SweepPart
  <2> QED BY <1>0, <1>1, <1>3, <2>1, RemovedEntry DEF ListPart
<1>8. CASE LoginDelete
  <2>1. list' = Without(list, rMsg.mac) /\ rMsg.mac \in Client
    BY <1>1, <1>8 DEF LoginDelete, ReaderPart, PeerInfo
  <2> QED BY <1>0, <1>1, <1>3, <2>1, RemovedEntry DEF ListPart
<1>9. CASE LoginAdd
  <2>1. /\ list' = Append(list, rMsg) /\ rMsg \in PeerInfo
        /\ rMsg.mac \in Client /\ rMsg.addr \in Address
        /\ rMsg.mac \notin MacsIn(list)
    BY <1>1, <1>9 DEF LoginAdd, ReaderPart, ListPart, PeerInfo
  <2> QED BY <1>0, <1>1, <1>4, <2>1, RegisteredEntry DEF ListPart
<1>10. CASE ServerRestart
  <2>1. list' = <<>> /\ Len(list') = 0
    BY <1>10, EmptySeq DEF ServerRestart
  <2>2. new = [c \in Client |-> <<>>]
    BY <1>0, <2>1 DEF Entries, AddressIn, MacsIn
  <2>3. Dir!Clear
    BY <1>0, <2>2, DirectoryEntries DEF Dir!Clear
  <2> QED BY <2>3 DEF Dir!Next
<1>11. \/ list' = list
       \/ SweepStart \/ \E m \in net : ReadActive(m)
       \/ SweepDelete \/ LoginDelete \/ LoginAdd \/ ServerRestart
  BY DEF Next, vars, Sweep, Reader, Look, SweepSetPeer, SweepWrite, ReadLogin, Login,
     DoLogin, Retry, GiveUp, Receive, ReceiveAck, ReceiveQuery, NatChange, Crash,
     Start, Lose
<1> QED BY <1>5, <1>6, <1>7, <1>8, <1>9, <1>10, <1>11

(* Those who ask the server for a client, however its threads interleave,  *)
(* ask a directory that changes for one client at a time and never shows   *)
(* a forgotten older entry.                                                *)
THEOREM PresenceImplementsDirectory == Spec => ImplementsDirectory
<1>1. Init => Dir!Init
  <2> SUFFICES ASSUME Init PROVE Dir!Init
    OBVIOUS
  <2>1. list = <<>> /\ Len(list) = 0
    BY EmptySeq DEF Init
  <2>2. Entries(list) = [c \in Client |-> <<>>]
    BY <2>1 DEF Entries, AddressIn, MacsIn
  <2> QED BY <2>2, DirectoryEntries DEF Dir!Init
<1>2. PresenceInv /\ [Next]_vars => [Dir!Next]_[c \in Client |-> ListedAddress(c)]
  BY DirectoryStep
<1> QED BY <1>1, <1>2, PresenceInvariant, PTL DEF Spec, ImplementsDirectory, Dir!Spec
-----------------------------------------------------------------------------
(* What a sweep has done so far.                                           *)

(* As long as no login disturbs the sweep, the list is no longer than its  *)
(* bound, and what lies before its index is not stale; an entry to be      *)
(* deleted is the one at the index, and one to be queried is not stale.    *)
SweepCovers ==
    mPc # "sleep" /\ ~disturbed =>
      /\ Len(list) <= mN
      /\ \A i \in 1..Len(list) : i < mI => list[i].age < Old
      /\ mPc = "delete" => /\ mI <= Len(list)
                           /\ mCur.mac = list[mI].mac
                           /\ ~mCur.freed
      /\ mPc \in {"query", "write"} => mI <= Len(list) /\ list[mI].age < Old

(* Deleting the entry at an index makes the list one shorter and moves     *)
(* only what lies behind it.                                               *)
LEMMA WithoutNth ==
    ASSUME NEW l \in Seq(PeerInfo), Distinct(l), NEW p \in 1..Len(l)
    PROVE  /\ Len(Without(l, l[p].mac)) = Len(l) - 1
           /\ \A i \in 1..(Len(l) - 1) :
                 i < p => Without(l, l[p].mac)[i] = l[i]
<1> DEFINE at == {i \in 1..Len(l) : l[i].mac = l[p].mac}
           k == CHOOSE i \in at : \A j \in at : i <= j
           w == [i \in 1..(Len(l) - 1) |-> IF i < k THEN l[i] ELSE l[i + 1]]
<1>1. Len(l) \in Nat /\ p \in Nat /\ Len(l) - 1 \in Nat
  BY LenProperties
<1>2. at = {p}
  BY DEF Distinct
<1>3. k = p
  <2>1. \A j \in at : p <= j
    BY <1>1, <1>2
  <2>2. \E i \in at : \A j \in at : i <= j
    BY <2>1, <1>2
  <2>3. k \in at
    BY <2>2
  <2> QED BY <2>3, <1>2
<1> HIDE DEF k
<1>4. Without(l, l[p].mac) = w
  BY <1>2 DEF Without, k
<1>5. Len(w) = Len(l) - 1
  BY <1>1
<1> QED BY <1>3, <1>4, <1>5

(* The age of two sweeps is certain to be found too old. *)
LEMMA NotStale ==
    ASSUME NEW age \in Ages, NEW stale \in Stale(age)
    PROVE  stale \in BOOLEAN /\ (stale = FALSE => age < Old)
<1>1. CASE age = 0
  <2>1. Stale(age) = BOOLEAN
    BY <1>1 DEF Stale, Old
  <2>2. stale \in BOOLEAN
    BY <2>1
  <2>3. age < Old
    BY <1>1 DEF Old
  <2> QED BY <2>2, <2>3
<1>2. CASE age = 1
  <2>1. Stale(age) = IF SlowSweep THEN BOOLEAN ELSE {FALSE}
    BY <1>2 DEF Stale, Old
  <2>2. stale \in BOOLEAN
    BY <2>1
  <2>3. age < Old
    BY <1>2 DEF Old
  <2> QED BY <2>2, <2>3
<1>3. CASE age = Old
  <2>1. Stale(age) = {TRUE}
    BY <1>3 DEF Stale, Old
  <2>2. stale = TRUE
    BY <2>1
  <2> QED BY <2>2
<1>4. age = 0 \/ age = 1 \/ age = Old
  BY DEF Ages, Old
<1> QED BY Zenon, <1>1, <1>2, <1>3, <1>4

(* Each step of the sweep itself. *)
LEMMA SweepStepCovers ==
    ASSUME PresenceInv, SweepCovers, Sweep
    PROVE  SweepCovers'
<1> USE InvParts
<1>0. Len(list) \in Nat /\ \A i \in 1..Len(list) : list[i] \in PeerInfo
  BY LenProperties, ElementOfSeq DEF ListPart
<1>1. CASE SweepStart
  <2>1. /\ Len(list') = Len(list) /\ mN' = Len(list) /\ mI' = 1
        /\ mPc' = "look"
    BY <1>1, <1>0 DEF SweepStart
  <2> QED BY <1>0, <2>1 DEF SweepCovers
<1>2. CASE Look
  <2>0. list' = list /\ disturbed' = disturbed
    BY <1>2 DEF Look
  <2>1. CASE SweepEnds
    BY <1>2, <2>1 DEF Look, SweepCovers
  <2>2. CASE ~SweepEnds /\ mI > Len(list)
    <3>1. mPc' = "look" /\ mN' = mN /\ mI' = mI + 1 /\ mPc = "look"
      BY <1>2, <2>2 DEF Look
    <3>2. \A i \in 1..Len(list) : i < mI
      BY <1>0, <2>2 DEF SweepPart
    <3> QED BY <2>0, <3>1, <3>2 DEF SweepCovers
  <2>3. CASE ~SweepEnds /\ ~(mI > Len(list))
    <3>1. PICK stale \in Stale(list[mI].age) :
             mPc' = IF stale THEN "delete" ELSE "query"
      BY <1>2, <2>3 DEF Look
    <3>2. /\ mPc = "look" /\ mI' = mI /\ mN' = mN /\ mI \in 1..Len(list)
          /\ mCur' = [mac |-> list[mI].mac, addr |-> list[mI].addr, freed |-> FALSE]
      BY <1>0, <1>2, <2>3 DEF Look, SweepPart
    <3>3. mCur'.mac = list[mI].mac /\ ~mCur'.freed
      BY <3>2
    <3>4. list[mI].age \in Ages
      BY <1>0, <3>2 DEF PeerInfo
    <3>5. mPc' = "query" => list[mI].age < Old
      <4>1. stale \in BOOLEAN /\ (stale = FALSE => list[mI].age < Old)
        BY <3>4, NotStale
      <4> QED BY <3>1, <4>1
    <3>6. mPc' \in {"delete", "query"}
      BY <3>1
    <3> QED BY <1>0, <2>0, <3>2, <3>3, <3>5, <3>6 DEF SweepCovers
  <2> QED BY <2>1, <2>2, <2>3
<1>3. CASE SweepDelete
  <2> SUFFICES ASSUME ~disturbed PROVE SweepCovers'
    BY <1>3 DEF SweepDelete, SweepCovers
  <2>1. /\ mPc = "delete" /\ mPc' = "look" /\ mI' = mI /\ mN' = mN
        /\ mI \in 1..Len(list) /\ mCur.mac = list[mI].mac /\ ~mCur.freed
        /\ Len(list) <= mN
        /\ \A i \in 1..Len(list) : i < mI => list[i].age < Old
    BY <1>0, <1>3 DEF SweepDelete, SweepCovers, SweepPart
  <2>2. list' = Without(list, list[mI].mac)
    BY <1>3, <2>1 DEF SweepDelete
  <2>3. /\ Len(list') = Len(list) - 1
        /\ \A i \in 1..(Len(list) - 1) : i < mI => list'[i] = list[i]
    BY <2>1, <2>2, WithoutNth DEF ListPart
  <2>4. Len(list') <= mN'
    BY <1>0, <2>1, <2>3 DEF SweepPart
  <2>5. \A i \in 1..Len(list') : i < mI' => list'[i].age < Old
    BY <1>0, <2>1, <2>3
  <2> QED BY <2>1, <2>4, <2>5 DEF SweepCovers
<1>4. CASE SweepSetPeer
  BY <1>4 DEF SweepSetPeer, SweepCovers
<1>5. CASE SweepWrite
  <2>1. /\ mPc = "write" /\ mPc' = "look" /\ mI' = mI + 1
        /\ UNCHANGED <<list, mN, disturbed>>
    BY <1>5 DEF SweepWrite
  <2>2. \A i \in 1..Len(list) : i < mI + 1 <=> (i < mI \/ i = mI)
    BY <1>0 DEF SweepPart
  <2> QED BY <2>1, <2>2 DEF SweepCovers
<1> QED BY <1>1, <1>2, <1>3, <1>4, <1>5 DEF Sweep

(* What others do to the list under the sweep: a client that answers is    *)
(* young again, and a login is noted.                                      *)
LEMMA StepCovers ==
    ASSUME PresenceInv, SweepCovers, [Next]_vars
    PROVE  SweepCovers'
<1> USE InvParts
<1>1. CASE UNCHANGED <<list, mPc, mI, mN, mCur, disturbed>>
  BY <1>1 DEF SweepCovers
<1>2. CASE LoginDelete \/ LoginAdd
  BY <1>2 DEF LoginDelete, LoginAdd, SweepCovers
<1>3. CASE ServerRestart
  BY <1>3 DEF ServerRestart, SweepCovers
<1>4. ASSUME NEW m \in net, ReadActive(m)
      PROVE  SweepCovers'
  <2>1. /\ list' = [i \in 1..Len(list) |->
                      IF list[i].mac = m.mac THEN [list[i] EXCEPT !.age = 0]
                                             ELSE list[i]]
        /\ UNCHANGED <<mPc, mI, mN, mCur, disturbed>>
    BY <1>4 DEF ReadActive, sweepVars
  <2>2. Len(list) \in Nat /\ \A i \in 1..Len(list) : list[i] \in PeerInfo
    BY LenProperties, ElementOfSeq DEF ListPart
  <2>3. Len(list') = Len(list)
    BY <2>1, <2>2
  <2>4. \A i \in 1..Len(list) : /\ list'[i].mac = list[i].mac
                                /\ list[i].age < Old => list'[i].age < Old
    BY <2>1, <2>2 DEF PeerInfo, Old
  <2>5. mPc # "sleep" => mI \in Nat \ {0}
    BY DEF SweepPart
  <2>6. mI <= Len(list) /\ mI \in Nat \ {0} => mI \in 1..Len(list)
    BY <2>2
  <2> QED BY <2>1, <2>3, <2>4, <2>5, <2>6 DEF SweepCovers
<1>5. ASSUME NEW m \in net, ReadLogin(m) \/ Lose(m)
      PROVE  UNCHANGED <<list, mPc, mI, mN, mCur, disturbed>>
  BY <1>5 DEF ReadLogin, Lose, sweepVars
<1>6. ASSUME NEW c \in Client,
             Login(c) \/ Receive(c) \/ NatChange(c) \/ Crash(c) \/ Start(c)
      PROVE  UNCHANGED <<list, mPc, mI, mN, mCur, disturbed>>
  BY <1>6 DEF Login, DoLogin, Retry, GiveUp, Receive, ReceiveAck, ReceiveQuery,
              NatChange, Crash, Start, sweepVars
<1>7. CASE UNCHANGED vars
  BY <1>1, <1>7 DEF vars, sweepVars
<1> QED
  BY <1>1, <1>2, <1>3, <1>4, <1>5, <1>6, <1>7, SweepStepCovers DEF Next, Reader

(* For any number of clients and any loss, delay or restart: the sweep     *)
(* covers the list up to its index, although deletions shift the entries   *)
(* under it and answers are read meanwhile.                                *)
THEOREM SweepIsCovering == Spec => []SweepCovers
<1>1. Init => SweepCovers
  BY DEF Init, SweepCovers
<1> QED BY <1>1, StepCovers, PresenceInvariant, PTL DEF Spec

(* A sweep no login disturbed ends with no entry in the list that has      *)
(* missed two sweeps.                                                      *)
THEOREM SweepLeavesNoneStale == Spec => SweepMissesNone
<1>1. PresenceInv /\ SweepCovers /\ [Next]_vars
        => [(mPc = "look" /\ SweepEnds /\ Look /\ ~disturbed)
              => \A i \in 1..Len(list) : list[i].age < Old]_vars
  <2> SUFFICES ASSUME PresenceInv, SweepCovers, mPc = "look", SweepEnds,
                      ~disturbed, NEW i \in 1..Len(list)
               PROVE  list[i].age < Old
    OBVIOUS
  <2>1. Len(list) \in Nat /\ mN \in Nat /\ mI \in Nat
    BY InvParts, LenProperties DEF ListPart, SweepPart
  <2>2. i < mI
    BY <2>1 DEF SweepEnds, SweepCovers
  <2> QED BY <2>2 DEF SweepCovers
<1> QED BY <1>1, PresenceInvariant, SweepIsCovering, PTL DEF Spec, SweepMissesNone
=============================================================================
