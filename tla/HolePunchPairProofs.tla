------------------------ MODULE HolePunchPairProofs ------------------------
(***************************************************************************)
(* Proofs about module HolePunch: where at most two threads of the client  *)
(* share a provider, neither gives up without a fault, for every number of *)
(* other threads and providers, and any number of tries from those of the  *)
(* program on.                                                             *)
(***************************************************************************)
EXTENDS HolePunchAloneProofs, FiniteSetTheorems

-----------------------------------------------------------------------------
(* The entries of a provider before its first punched one: while there are *)
(* any, a look-up finds a blank one.                                       *)

Ahead(p) == {i \in At(p) : \A j \in At(p) : j <= i => users[j].p2p = None}

Blanks(p) == Cardinality(Ahead(p))

One(b) == IF b THEN 1 ELSE 0

LEMMA BlanksAreCounted ==
    ASSUME users \in Seq(Peer), NEW p
    PROVE  /\ IsFiniteSet(Ahead(p)) /\ Blanks(p) \in Nat
           /\ Blanks(p) = 0 <=> Ahead(p) = {}
<1>1. Len(users) \in Int /\ IsFiniteSet(1..Len(users))
  BY LenProperties, FS_Interval
<1>2. Ahead(p) \in SUBSET (1..Len(users))
  BY DEF Ahead, At
<1>3. IsFiniteSet(Ahead(p))
  BY <1>1, <1>2, FS_Subset
<1> QED BY <1>3, FS_CardinalityType, FS_EmptySet DEF Blanks

(* The entry a look-up finds is the first. *)
LEMMA FirstIsLeast ==
    ASSUME users \in Seq(Peer), NEW p, Listed(p)
    PROVE  First(p) \in At(p) /\ \A j \in At(p) : First(p) <= j
<1>1. At(p) \subseteq Nat
  BY LenProperties DEF At
<1>2. PICK i \in At(p) : \A j \in At(p) : <<j, i>> \notin OpToRel(<, Nat)
  BY <1>1, NatLessThanWellFounded, WFMin DEF Listed
<1>3. \A j \in At(p) : ~(j < i)
  BY <1>1, <1>2 DEF OpToRel
<1>4. \A j \in At(p) : i <= j
  BY <1>1, <1>3
<1> QED BY <1>4 DEF First

LEMMA FoundBlank ==
    ASSUME users \in Seq(Peer), NEW p, Listed(p)
    PROVE  /\ Ahead(p) = {} <=> GetAPeer(p).p2p # None
           /\ GetAPeer(p).p2p = None => First(p) \in Ahead(p)
           /\ GetAPeer(p).p2p # None => Ready(p)
<1>1. First(p) \in At(p) /\ \A j \in At(p) : First(p) <= j
  BY FirstIsLeast
<1>2. At(p) \subseteq Nat
  BY LenProperties DEF At
<1>3. \A j \in At(p) : j <= First(p) => j = First(p)
  BY <1>1, <1>2
<1>4. ASSUME GetAPeer(p).p2p = None PROVE First(p) \in Ahead(p)
  BY <1>1, <1>3, <1>4 DEF Ahead, GetAPeer
<1>5. ASSUME GetAPeer(p).p2p # None PROVE Ahead(p) = {} /\ Ready(p)
  BY <1>1, <1>5 DEF Ahead, GetAPeer, Ready
<1> QED BY <1>4, <1>5

LEMMA BlanksAfterAdding ==
    ASSUME users \in Seq(Peer), NEW e \in Peer, NEW p, users' = Append(users, e)
    PROVE  /\ e.mac # p \/ e.p2p # None \/ Ready(p) => Blanks(p)' = Blanks(p)
           /\ e.mac = p /\ e.p2p = None /\ ~Ready(p) => Blanks(p)' = Blanks(p) + 1
           /\ Ready(p)' <=> Ready(p) \/ (e.mac = p /\ e.p2p # None)
<1> DEFINE n == Len(users)
<1>1. /\ n \in Nat /\ Len(users') = n + 1 /\ users'[n + 1] = e
      /\ \A i \in 1..n : users'[i] = users[i]
  BY Adding
<1> HIDE DEF n
<1>2. At(p)' = At(p) \cup (IF e.mac = p THEN {n + 1} ELSE {}) /\ At(p) \subseteq 1..n
  BY <1>1 DEF At, n
<1>3. \A i \in At(p) : users'[i] = users[i] /\ i <= n /\ i \in Nat
  BY <1>1, <1>2
<1>4. Ready(p)' <=> Ready(p) \/ (e.mac = p /\ e.p2p # None)
  BY <1>1, <1>2, <1>3 DEF Ready
<1>5. \A i \in At(p) : i \in Ahead(p)' <=> i \in Ahead(p)
  BY <1>1, <1>2, <1>3 DEF Ahead
<1>6. e.mac = p => (n + 1 \in Ahead(p)' <=> e.p2p = None /\ ~Ready(p))
  BY <1>1, <1>2, <1>3 DEF Ahead, Ready
<1>7. CASE e.mac # p \/ e.p2p # None \/ Ready(p)
  <2>1. Ahead(p)' = Ahead(p)
    BY <1>2, <1>5, <1>6, <1>7 DEF Ahead
  <2> QED BY <1>4, <1>7, <2>1 DEF Blanks
<1>8. CASE e.mac = p /\ e.p2p = None /\ ~Ready(p)
  <2>1. Ahead(p)' = Ahead(p) \cup {n + 1}
    BY <1>2, <1>5, <1>6, <1>8 DEF Ahead
  <2>2. n + 1 \notin Ahead(p)
    BY <1>1, <1>2 DEF Ahead
  <2>3. Blanks(p)' = Blanks(p) + 1
    BY <2>1, <2>2, BlanksAreCounted, FS_AddElement DEF Blanks
  <2> QED BY <1>4, <1>8, <2>3
<1> QED BY <1>7, <1>8

(* Deleting a blank first entry takes one of the blanks; other providers'  *)
(* entries only move.                                                      *)
LEMMA BlanksAfterDeleting ==
    ASSUME users \in Seq(Peer), NEW q, NEW p, users' = Without(q), Listed(q),
           p = q => GetAPeer(q).p2p = None
    PROVE  /\ Blanks(p)' = Blanks(p) - One(p = q)
           /\ Ready(p)' <=> Ready(p)
           /\ p = q => Blanks(p) > 0
<1> DEFINE f == First(q)
           n == Len(users) - 1
           w == [i \in 1..n |-> IF i < f THEN users[i] ELSE users[i + 1]]
           g == [i \in 1..n |-> IF i < f THEN i ELSE i + 1]
<1>0. Len(users) \in Nat /\ users \in [1..Len(users) -> Peer]
  BY LenProperties
<1>1. f \in 1..Len(users) /\ users[f].mac = q
  BY FirstIsThere DEF At
<1>2. users' = w
  BY DEF Without
<1>3. p = q => f \in Ahead(p)
  BY FoundBlank
<1>4. p # q => f \notin Ahead(p)
  BY <1>1 DEF Ahead, At
<1>5. p = q => users[f].p2p = None
  BY DEF GetAPeer
<1> HIDE DEF f
<1>6. n \in Nat /\ w \in [1..n -> Peer]
  BY <1>0, <1>1
<1>7. Len(w) = n
  BY <1>6, LenProperties, SeqDef
<1>8. \A i \in 1..n : g[i] \in 1..Len(users) /\ g[i] # f /\ w[i] = users[g[i]]
  BY <1>0, <1>1
<1>9. \A i, j \in 1..n : (g[i] = g[j] => i = j) /\ (i <= j <=> g[i] <= g[j])
  BY <1>1, <1>6
<1>10. \A k \in 1..Len(users) : k # f => \E i \in 1..n : g[i] = k
  <2> SUFFICES ASSUME NEW k \in 1..Len(users), k # f PROVE \E i \in 1..n : g[i] = k
    OBVIOUS
  <2>1. CASE k < f
    <3>1. k \in 1..n /\ g[k] = k
      BY <1>0, <1>1, <2>1
    <3> QED BY <3>1
  <2>2. CASE ~(k < f)
    <3>1. k - 1 \in 1..n /\ g[k - 1] = k
      BY <1>0, <1>1, <2>2
    <3> QED BY <3>1
  <2> QED BY <2>1, <2>2
<1>11. DOMAIN g = 1..n
  OBVIOUS
<1> HIDE DEF w, n, g
<1>12. \A i \in 1..n : i \in At(p)' <=> g[i] \in At(p)
  BY <1>2, <1>7, <1>8 DEF At
<1>13. At(p)' \subseteq 1..n /\ At(p) \subseteq 1..Len(users)
  BY <1>2, <1>7 DEF At
<1>14. \A i \in 1..n : i \in Ahead(p)' <=> g[i] \in Ahead(p)
  <2>1. ASSUME NEW i \in 1..n, i \in Ahead(p)' PROVE g[i] \in Ahead(p)
    <3> SUFFICES ASSUME NEW k \in At(p), k <= g[i] PROVE users[k].p2p = None
      BY <1>12, <2>1 DEF Ahead
    <3>1. CASE k = f
      BY <1>1, <1>5, <3>1 DEF At
    <3>2. CASE k # f
      <4>1. PICK j \in 1..n : g[j] = k
        BY <1>10, <1>13, <3>2
      <4>2. j \in At(p)' /\ j <= i
        BY <1>9, <1>12, <4>1
      <4> QED BY <1>2, <1>8, <2>1, <4>1, <4>2 DEF Ahead
    <3> QED BY <3>1, <3>2
  <2>2. ASSUME NEW i \in 1..n, g[i] \in Ahead(p) PROVE i \in Ahead(p)'
    <3>1. i \in At(p)'
      BY <1>12, <2>2 DEF Ahead
    <3>2. ASSUME NEW j \in At(p)', j <= i PROVE users'[j].p2p = None
      <4>1. j \in 1..n /\ g[j] \in At(p) /\ g[j] <= g[i] /\ users'[j] = users[g[j]]
        BY <1>2, <1>8, <1>9, <1>12, <1>13, <3>2
      <4> QED BY <2>2, <4>1 DEF Ahead
    <3> QED BY <3>1, <3>2 DEF Ahead
  <2> QED BY <2>1, <2>2
<1>15. Ahead(p)' \subseteq 1..n /\ Ahead(p) \subseteq 1..Len(users)
  BY <1>13 DEF Ahead
<1>16. Ready(p)' <=> Ready(p)
  <2>1. ASSUME Ready(p)' PROVE Ready(p)
    <3>1. PICK i \in At(p)' : users'[i].p2p # None
      BY <2>1 DEF Ready
    <3>2. i \in 1..n /\ g[i] \in At(p) /\ users'[i] = users[g[i]]
      BY <1>2, <1>8, <1>12, <1>13
    <3> QED BY <3>1, <3>2 DEF Ready
  <2>2. ASSUME Ready(p) PROVE Ready(p)'
    <3>1. PICK k \in At(p) : users[k].p2p # None
      BY <2>2 DEF Ready
    <3>2. k # f
      BY <1>1, <1>5, <3>1 DEF At
    <3>3. PICK i \in 1..n : g[i] = k
      BY <1>10, <1>13, <3>2
    <3>4. i \in At(p)' /\ users'[i] = users[k]
      BY <1>2, <1>8, <1>12, <3>3
    <3> QED BY <3>1, <3>4 DEF Ready
  <2> QED BY <2>1, <2>2
<1>17. PICK h : h = [i \in Ahead(p)' |-> g[i]]
  OBVIOUS
<1>18. h \in Bijection(Ahead(p)', Ahead(p) \ {f})
  <2>1. h \in [Ahead(p)' -> Ahead(p) \ {f}]
    BY <1>8, <1>14, <1>15, <1>17
  <2>2. \A i, j \in Ahead(p)' : h[i] = h[j] => i = j
    BY <1>9, <1>15, <1>17
  <2>3. \A k \in Ahead(p) \ {f} : \E i \in Ahead(p)' : h[i] = k
    <3> SUFFICES ASSUME NEW k \in Ahead(p) \ {f} PROVE \E i \in Ahead(p)' : h[i] = k
      OBVIOUS
    <3>1. PICK i \in 1..n : g[i] = k
      BY <1>10, <1>15
    <3> QED BY <1>14, <1>17, <3>1
  <2> QED BY <2>1, <2>2, <2>3 DEF Bijection, Injection, Surjection, IsInjective
<1>19. IsFiniteSet(Ahead(p)) /\ Blanks(p) \in Nat
  BY BlanksAreCounted
<1>20. IsFiniteSet(Ahead(p)')
  <2>1. Ahead(p)' \in SUBSET (1..n) /\ IsFiniteSet(1..n)
    BY <1>6, <1>15, FS_Interval
  <2> QED BY <2>1, FS_Subset
<1>21. Cardinality(Ahead(p)') = Cardinality(Ahead(p) \ {f})
  BY <1>18, <1>20, FS_Bijection DEF ExistsBijection
<1>22. CASE p = q
  <2>1. Blanks(p)' = Blanks(p) - 1
    BY <1>3, <1>19, <1>21, <1>22, FS_RemoveElement DEF Blanks
  <2>2. Blanks(p) # 0
    BY <1>3, <1>22, BlanksAreCounted
  <2> QED BY <1>16, <1>19, <1>22, <2>1, <2>2 DEF One
<1>23. CASE p # q
  <2>1. Ahead(p) \ {f} = Ahead(p)
    BY <1>4, <1>23
  <2>2. Blanks(p)' = Blanks(p)
    BY <1>21, <2>1 DEF Blanks
  <2> QED BY <1>16, <1>19, <1>23, <2>2 DEF One
<1> QED BY <1>22, <1>23

-----------------------------------------------------------------------------
(* The invariant, for one provider.                                        *)

(* At most two threads send to the provider.                               *)
Few(p) == \A s, t, u \in Thread :
             Target[s] = p /\ Target[t] = p /\ Target[u] = p => s = t \/ t = u \/ s = u

(* The numbers of the program: two tries, and twice two rounds.            *)
EnoughTries == MaxTry >= 2 /\ MaxRounds >= 2 /\ MaxSendRetry >= 1

(* A thread has yet to ask for the provider's address, asks for it, or is  *)
(* through, for good: without faults no list is empty once it was punched. *)
Beginning(t) == th[t].round = 1 /\ th[t].fails = 0
                /\ th[t].pc \in {"check", "connect", "lookup"}
Asking(t)    == th[t].pc \in {"ask", "asked"}
Through(t)   == ~Beginning(t) /\ ~Asking(t)

OtherThrough(t) == \E s \in Thread \ {t} : Target[s] = Target[t] /\ Through(s)

(* What has come of inquiries so far, in the list or on the way there,     *)
(* until the first punched entry joins the list; and how much of it can be *)
(* put down to a thread. A thread that got through took one answer.        *)
Load(p) == Blanks(p) + One(Replacing(p)) + One(Inquired(p)) + One(Answered(p))
           + One(Hears(p))

Asked(t) == IF th[t].pc = "asked" THEN th[t].try
            ELSE IF th[t].pc = "ask" THEN th[t].try - 1
            ELSE One(Through(t))

PairLoad(t, u) ==
    (\A s \in Thread : Target[s] = Target[t] => s \in {t, u})
    /\ ~(t # u /\ Through(t) /\ Through(u))
    => Load(Target[t]) <= IF t = u THEN Asked(t) ELSE Asked(t) + Asked(u)

(* Somebody has asked for a connection and the answer is not in the list.  *)
Asks(m, p) == \/ m.kind \in {"connect", "forwarded"} /\ m.mac = p
              \/ m.kind = "connack" /\ m.info.mac = p

ConnAsked(p) ==
    \/ \E m \in net : Asks(m, p)
    \/ rPc \in {"connack", "add"} /\ rMsg.kind = "connack" /\ rMsg.info.mac = p

Handling(p) == Replacing(p) \/ Acks(p)

(* The rounds a thread has been through in vain, two calls counting as the *)
(* second does; and whether the round it is in has seen an acknowledgement *)
(* handled.                                                                *)
Spent(t) == (IF th[t].fails = 0 THEN 0 ELSE 2) + th[t].round - 1

Told(t) == \/ th[t].pc \in {"direct", "relay", "relayed"} /\ ConnSet(Target[t])
           \/ th[t].pc = "relayed" /\ ~ConnComing(Target[t])

(* Each of two threads times out at most once before it is through, when   *)
(* the other has taken its flag; and each acknowledgement handled replaces *)
(* a blank entry that would send it round again.                           *)
Course(t) ==
    /\ th[t].pc \notin {"gone", "offer"}
    /\ Spent(t) > 0 => /\ Ready(Target[t])
                       /\ th[t].pc \notin {"lookup", "fetch", "ask", "asked"}
    /\ Asking(t) => /\ th[t].try \in {1, 2}
                    /\ th[t].try = 2 => OtherThrough(t)
    /\ th[t].pc = "asked" /\ ~IpComing(Target[t]) => th[t].try = 1 /\ OtherThrough(t)
    /\ th[t].pc \in {"relay", "relayed"} => Target[t] \in opened
    /\ th[t].pc = "relayed" => ConnComing(Target[t]) \/ Ready(Target[t])
    /\ Blanks(Target[t]) > 0 =>
          Blanks(Target[t]) + Spent(t) + One(Told(t)) + One(Handling(Target[t])) <= 3
    /\ Spent(t) >= 3 => th[t].pc \in {"check", "data"}

PairPart(p) ==
    /\ ConnSet(p) \/ Acks(p) => Ready(p)
    /\ ConnAsked(p) => \E s \in Thread : Target[s] = p /\ Through(s)
    /\ ~Ready(p) => /\ Load(p) <= 3
                    /\ \A t, u \in Thread :
                          Target[t] = p /\ Target[u] = p => PairLoad(t, u)
    /\ \A t \in Thread : Target[t] = p => Course(t)

(* Without faults a request goes where it was sent.                        *)
Straight ==
    \A m \in net : /\ m.kind = "getip" => m.to = Server
                   /\ m.kind = "connect" /\ m.to # Server => m.to = Home(m.mac)

PairInv ==
    shifts = 0 /\ Faultless =>
        Straight /\ \A p \in Provider : Few(p) => PairPart(p)

-----------------------------------------------------------------------------
(* Steps of others: the reader's, the world's, those of threads that send  *)
(* to another provider.                                                    *)

LEMMA Counts ==
    ASSUME HolePunchInv, NEW p
    PROVE  /\ Blanks(p) \in Nat /\ Load(p) \in Nat
           /\ Blanks(p) + One(Replacing(p)) <= Load(p)
           /\ \A b : One(b) \in {0, 1}
           /\ \A t \in Thread : /\ th[t].try \in Nat /\ Spent(t) \in Nat
                                /\ th[t].round \in Nat /\ th[t].round >= 1
                                /\ th[t].round <= MaxRounds
                                /\ th[t].fails \in Nat /\ th[t].fails <= MaxSendRetry
<1>1. Blanks(p) \in Nat
  BY BlanksAreCounted DEF HolePunchInv, UsersPart
<1>2. \A b : One(b) \in {0, 1}
  BY DEF One
<1>3. ASSUME NEW t \in Thread
      PROVE  /\ th[t].try \in Nat /\ th[t].round \in Nat /\ th[t].round >= 1
             /\ th[t].round <= MaxRounds
             /\ th[t].fails \in Nat /\ th[t].fails <= MaxSendRetry
  BY Bounds DEF HolePunchInv, ThreadPart, Locals
<1>4. ASSUME NEW t \in Thread PROVE Spent(t) \in Nat
  BY <1>3 DEF Spent
<1>5. Load(p) \in Nat /\ Blanks(p) + One(Replacing(p)) <= Load(p)
  BY <1>1, <1>2 DEF Load
<1> QED BY <1>1, <1>2, <1>3, <1>4, <1>5

Passes(p) ==
    /\ \A t \in Thread : Target[t] = p => th'[t] = th[t]
    /\ opened \subseteq opened'
    /\ Ready(p) => Ready(p)'
    /\ ConnSet(p)' \/ Acks(p)' => Ready(p)'
    /\ ConnAsked(p)' => ConnAsked(p)
    /\ IpComing(p) => IpComing(p)'
    /\ p \in opened /\ ConnComing(p) => ConnComing(p)'
    /\ Blanks(p)' \in Nat
    /\ ~Ready(p)' => Load(p)' <= Load(p) /\ Blanks(p)' + One(Replacing(p)') <= Load(p)'
    /\ Ready(p)' /\ Blanks(p)' > 0 =>
          /\ Blanks(p)' <= Blanks(p)
          /\ \/ /\ Blanks(p)' + One(Handling(p)') <= Blanks(p) + One(Handling(p))
                /\ ConnSet(p)' => ConnSet(p)
             \/ Handling(p) /\ ~Handling(p)'

LEMMA PassingStep ==
    ASSUME HolePunchInv, HolePunchInv', NEW p \in Provider, PairPart(p), Passes(p)
    PROVE  PairPart(p)'
<1>1. \A t \in Thread : Target[t] = p =>
         /\ th'[t] = th[t] /\ Spent(t)' = Spent(t) /\ Through(t)' = Through(t)
         /\ Asking(t)' = Asking(t) /\ Asked(t)' = Asked(t)
  BY DEF Passes, Spent, Through, Beginning, Asking, Asked
<1>2. ASSUME NEW t \in Thread, Target[t] = p PROVE OtherThrough(t)' = OtherThrough(t)
  BY <1>1, <1>2 DEF OtherThrough
<1>3. Load(p) \in Nat /\ Blanks(p) \in Nat /\ Load(p)' \in Nat /\ Blanks(p)' \in Nat
  <2>1. Load(p) \in Nat /\ Blanks(p) \in Nat /\ Blanks(p)' \in Nat
    BY Counts DEF Passes
  <2>2. Load(p)' \in Nat
    BY <2>1 DEF Load, One
  <2> QED BY <2>1, <2>2
<1>4. ASSUME NEW t \in Thread, Target[t] = p PROVE Course(t)'
  <2>1. Course(t)
    BY <1>4 DEF PairPart
  <2>2. th[t].pc = "relayed" => (ConnComing(p) => ConnComing(p)') /\ (ConnComing(p) \/ Ready(p))
    BY <1>4, <2>1 DEF Course, Passes
  <2>3. Told(t)' => Told(t) \/ ConnSet(p)'
    BY <1>1, <1>4, <2>2 DEF Told
  <2>4. /\ Spent(t) \in Nat
        /\ One(Told(t)) \in {0, 1} /\ One(Told(t)') \in {0, 1}
        /\ One(Handling(p)) \in {0, 1} /\ One(Handling(p)') \in {0, 1}
    BY Counts DEF One
  <2>5. ASSUME Blanks(p)' > 0
        PROVE  Blanks(p)' + Spent(t) + One(Told(t)') + One(Handling(p)') <= 3
    <3>1. CASE ~Ready(p)'
      <4>1. Spent(t) = 0
        BY <1>4, <2>1, <2>4, <3>1 DEF Course, Passes
      <4>2. One(Told(t)') = 0
        BY <1>1, <1>4, <2>2, <3>1 DEF Told, Passes, One
      <4>3. One(Handling(p)') = One(Replacing(p)')
        BY <3>1 DEF Handling, Passes, One
      <4>4. Load(p)' <= 3
        BY <1>3, <3>1 DEF Passes, PairPart
      <4> QED BY <1>3, <2>4, <3>1, <4>1, <4>2, <4>3, <4>4 DEF Passes
    <3>2. CASE Ready(p)'
      <4>1. Blanks(p) + Spent(t) + One(Told(t)) + One(Handling(p)) <= 3
        BY <1>3, <1>4, <2>1, <2>5, <3>2 DEF Course, Passes
      <4>2. CASE /\ Blanks(p)' + One(Handling(p)') <= Blanks(p) + One(Handling(p))
                 /\ ConnSet(p)' => ConnSet(p)
        <5>1. Told(t)' => Told(t)
          BY <1>1, <1>4, <2>1, <2>3, <4>2 DEF Told
        <5>2. One(Told(t)') <= One(Told(t))
          BY <5>1 DEF One
        <5> QED BY <1>3, <2>4, <4>1, <4>2, <5>2
      <4>3. CASE Handling(p) /\ ~Handling(p)' /\ Blanks(p)' <= Blanks(p)
        <5>1. One(Handling(p)) = 1 /\ One(Handling(p)') = 0 /\ Blanks(p)' <= Blanks(p)
          BY <4>3 DEF One
        <5> QED BY <1>3, <2>4, <4>1, <5>1
      <4> QED BY <2>5, <3>2, <4>2, <4>3 DEF Passes
    <3> QED BY <3>1, <3>2
  <2> QED BY <1>1, <1>2, <1>4, <2>1, <2>2, <2>5 DEF Course, Passes
<1>5. (ConnAsked(p)' => \E s \in Thread : Target[s] = p /\ Through(s)')
  BY <1>1 DEF Passes, PairPart
<1>6. ASSUME ~Ready(p)' PROVE Load(p)' <= 3 /\ Load(p)' <= Load(p) /\ ~Ready(p)
  BY <1>3, <1>6 DEF Passes, PairPart
<1>7. ASSUME ~Ready(p)', NEW t \in Thread, NEW u \in Thread, Target[t] = p, Target[u] = p
      PROVE  PairLoad(t, u)'
  <2>1. PairLoad(t, u)
    BY <1>6, <1>7 DEF PairPart
  <2>2. Asked(t) \in Int /\ Asked(u) \in Int
    BY Counts DEF Asked
  <2> QED BY <1>1, <1>3, <1>6, <1>7, <2>1, <2>2 DEF PairLoad
<1> QED BY <1>4, <1>5, <1>6, <1>7 DEF PairPart, Passes

LEMMA SameList ==
    ASSUME NEW p, users' = users
    PROVE  At(p)' = At(p) /\ Blanks(p)' = Blanks(p) /\ Ready(p)' = Ready(p)
           /\ Listed(p)' = Listed(p)
<1>1. At(p)' = At(p)
  BY DEF At
<1>2. Ahead(p)' = Ahead(p)
  BY <1>1 DEF Ahead
<1> QED BY <1>1, <1>2 DEF Blanks, Ready, Listed

(* What goes on of itself. *)
LEMMA Goes ==
    ASSUME HolePunchInv, StillPart, Next, trouble' = trouble, trouble = 0,
           NEW p \in Provider,
           \A s \in Thread : Step(s) => p # Target[s]
    PROVE  /\ IpComing(p) => IpComing(p)'
           /\ p \in opened /\ ConnComing(p) => ConnComing(p)'
<1>1. trouble \in Nat
  BY Counters
<1> QED BY <1>1, InquiryGoesOn, PunchGoesOn

(* A step that changes no entry of the list and hears no acknowledgement.  *)
LEMMA PassesBy ==
    ASSUME HolePunchInv, StillPart, Next, trouble' = trouble, trouble = 0,
           NEW p \in Provider,
           PairPart(p), \A s \in Thread : Step(s) => p # Target[s],
           \A t \in Thread : Target[t] = p => th'[t] = th[t],
           opened \subseteq opened', users' = users,
           Replacing(p)' <=> Replacing(p), Acks(p)' <=> Acks(p),
           ConnSet(p)' => ConnSet(p), ConnAsked(p)' => ConnAsked(p),
           One(Inquired(p)') + One(Answered(p)') + One(Hears(p)')
           <= One(Inquired(p)) + One(Answered(p)) + One(Hears(p))
    PROVE  Passes(p)
<1>1. Blanks(p) \in Nat
  BY Counts
<1>2. Blanks(p)' = Blanks(p) /\ Ready(p)' = Ready(p)
  BY SameList
<1>3. One(Replacing(p)') = One(Replacing(p)) /\ One(Handling(p)') = One(Handling(p))
  BY DEF One, Handling
<1>4. /\ One(Replacing(p)) \in {0, 1} /\ One(Handling(p)) \in {0, 1}
      /\ One(Inquired(p)) \in {0, 1} /\ One(Inquired(p)') \in {0, 1}
      /\ One(Answered(p)) \in {0, 1} /\ One(Answered(p)') \in {0, 1}
      /\ One(Hears(p)) \in {0, 1} /\ One(Hears(p)') \in {0, 1}
  BY DEF One
<1>5. Load(p)' <= Load(p) /\ Blanks(p)' + One(Replacing(p)') <= Load(p)'
  BY <1>1, <1>2, <1>3, <1>4 DEF Load
<1>6. Blanks(p)' + One(Handling(p)') <= Blanks(p) + One(Handling(p))
  BY <1>1, <1>2, <1>3, <1>4
<1>7. ConnSet(p)' \/ Acks(p)' => Ready(p)'
  BY <1>2 DEF PairPart
<1> QED BY <1>1, <1>2, <1>5, <1>6, <1>7, Goes DEF Passes

LEMMA OnesFall ==
    ASSUME NEW a, NEW b, NEW c, NEW d, NEW e, NEW f, a => d, b => e, c => f
    PROVE  One(a) + One(b) + One(c) <= One(d) + One(e) + One(f)
  BY DEF One

(* A thread that sends to another provider.                                *)
LEMMA PassesThread ==
    ASSUME HolePunchInv, StillPart, Next, trouble' = trouble, trouble = 0,
           NEW p \in Provider,
           PairPart(p), \A s \in Thread : Step(s) => p # Target[s],
           NEW s \in Thread, Step(s)
    PROVE  Passes(p)
<1>1. p # Target[s] /\ trouble \in Nat
  BY Counters
<1>2. /\ users' = users /\ UNCHANGED readerVars /\ opened \subseteq opened' /\ Others(s)
      /\ \A m \in net' : m \in net \/ /\ m.kind \in {"getip", "connect"}
                                      /\ m.mac = Target[s]
  BY <1>1, ThreadFrames DEF ThreadFrame
<1>3. /\ Replacing(p)' <=> Replacing(p)
      /\ Acks(p)' <=> Acks(p)
      /\ Hears(p)' <=> Hears(p)
  BY <1>2, SameClient
<1>4. ConnSet(p)' => ConnSet(p)
  BY <1>1, FlagsTaken
<1>5. ConnAsked(p)' => ConnAsked(p)
  BY <1>1, <1>2 DEF ConnAsked, Asks, readerVars
<1>6. (Inquired(p)' => Inquired(p)) /\ (Answered(p)' => Answered(p))
  BY <1>1, <1>2 DEF Inquired, Answered
<1>7. One(Inquired(p)') + One(Answered(p)') + One(Hears(p)')
      <= One(Inquired(p)) + One(Answered(p)) + One(Hears(p))
  BY <1>3, <1>6, OnesFall
<1>8. \A t \in Thread : Target[t] = p => th'[t] = th[t]
  BY <1>1, <1>2 DEF Others
<1> QED BY <1>2, <1>3, <1>4, <1>5, <1>7, <1>8, PassesBy

(* The reader reads: an answer is heard where it was under way.            *)
LEMMA PassesRead ==
    ASSUME HolePunchInv, StillPart, Next, trouble' = trouble, trouble = 0,
           NEW p \in Provider,
           PairPart(p), \A s \in Thread : Step(s) => p # Target[s],
           NEW m \in net, Read(m)
    PROVE  Passes(p)
<1>1. /\ m \in Ack \cup Call /\ rPc = "idle" /\ rMsg' = m /\ rPc' = m.kind
      /\ net' = net \ {m} /\ UNCHANGED <<users, flags, th, opened>>
  BY DEF Read, routerVars
<1>2. m.kind \in {"ipack", "connack", "call"} /\ p # None
  BY <1>1, HolePunchAssumption DEF Ack, Call
<1>3. /\ ~Replacing(p) /\ ~Replacing(p)' /\ ~Acks(p) /\ ~Acks(p)' /\ ~Hears(p)
      /\ ConnSet(p)' = ConnSet(p)
  BY <1>1, <1>2 DEF Replacing, Acks, Hears, ConnSet
<1>4. ConnAsked(p)' => ConnAsked(p)
  BY <1>1, <1>2 DEF ConnAsked, Asks
<1>5. Inquired(p)' => Inquired(p)
  BY <1>1 DEF Inquired
<1>6. One(Inquired(p)') + One(Answered(p)') + One(Hears(p)')
      <= One(Inquired(p)) + One(Answered(p)) + One(Hears(p))
  <2>1. CASE m.kind = "ipack" /\ m.info.mac = p
    <3>1. Answered(p)
      BY <2>1 DEF Answered
    <3>2. ~Answered(p)'
      <4>1. SUFFICES ASSUME NEW n \in net', n.kind = "ipack", n.info.mac = p PROVE FALSE
        BY DEF Answered
      <4>2. /\ n \in Ack /\ m \in Ack /\ n # m /\ n.from = Server /\ m.from = Server
            /\ n.info \in Info /\ m.info \in Info
        BY <1>1, <1>2, <2>1, <4>1
           DEF HolePunchInv, NetPart, MsgOK, Request, Ack, Call, Info, Empty
      <4>3. n.info.addr = Home(p) /\ m.info.addr = Home(p)
        BY <1>1, <2>1, <4>1 DEF StillPart, StillNet, StillMsg
      <4>4. n.info = m.info
        BY <2>1, <4>1, <4>2, <4>3 DEF Info
      <4> QED BY <1>1, <2>1, <4>1, <4>2, <4>4 DEF Ack
    <3>3. /\ One(Answered(p)') = 0 /\ One(Answered(p)) = 1 /\ One(Hears(p)') \in {0, 1}
          /\ One(Hears(p)) = 0 /\ One(Inquired(p)) \in {0, 1} /\ One(Inquired(p)') \in {0, 1}
          /\ One(Inquired(p)') <= One(Inquired(p))
      BY <1>3, <1>5, <3>1, <3>2 DEF One
    <3> QED BY <3>3
  <2>2. CASE ~(m.kind = "ipack" /\ m.info.mac = p)
    <3>1. (Answered(p)' => Answered(p)) /\ ~Hears(p)'
      BY <1>1, <2>2 DEF Answered, Hears
    <3> QED BY <1>5, <3>1, OnesFall
  <2> QED BY <2>1, <2>2
<1> QED BY <1>1, <1>3, <1>4, <1>6, PassesBy

(* An answer joins the list: blank, so that it counts only while no        *)
(* punched entry is there.                                                 *)
LEMMA PassesIpAck ==
    ASSUME HolePunchInv, StillPart, Next, trouble' = trouble, trouble = 0,
           NEW p \in Provider,
           PairPart(p), \A s \in Thread : Step(s) => p # Target[s],
           ProcMsgGetUserClientAck
    PROVE  Passes(p)
<1> DEFINE e == NewPeer(rMsg.info, None)
<1>1. /\ users' = Append(users, e) /\ rPc = "ipack" /\ rPc' = "flag" /\ rMsg' = rMsg
      /\ UNCHANGED <<flags, net, th, opened>>
  BY DEF ProcMsgGetUserClientAck, routerVars
<1>2. /\ rMsg.kind = "ipack" /\ rMsg.info \in Info \cup {Empty} /\ users \in Seq(Peer)
  BY <1>1 DEF HolePunchInv, ReaderPart, UsersPart, MsgOK, Request, Ack, Call
<1>3. e \in Peer /\ e.mac = rMsg.info.mac /\ e.p2p = None
  BY <1>2 DEF NewPeer, Peer, Info, Empty
<1> HIDE DEF e
<1>4. /\ ~Replacing(p) /\ ~Replacing(p)' /\ ~Acks(p) /\ ~Acks(p)' /\ ~Hears(p)'
      /\ ConnSet(p)' = ConnSet(p) /\ Hears(p) = (rMsg.info.mac = p)
      /\ Inquired(p)' = Inquired(p) /\ Answered(p)' = Answered(p)
  BY <1>1, <1>2 DEF Replacing, Acks, Hears, ConnSet, Inquired, Answered
<1>5. ConnAsked(p)' => ConnAsked(p)
  BY <1>1, <1>2 DEF ConnAsked, Asks
<1>6. /\ e.mac # p \/ Ready(p) => Blanks(p)' = Blanks(p)
      /\ e.mac = p /\ ~Ready(p) => Blanks(p)' = Blanks(p) + 1
      /\ Ready(p)' <=> Ready(p)
  BY <1>1, <1>2, <1>3, BlanksAfterAdding
<1>7. /\ One(Replacing(p)) = 0 /\ One(Replacing(p)') = 0 /\ One(Hears(p)') = 0
      /\ One(Hears(p)) = IF e.mac = p THEN 1 ELSE 0
      /\ One(Handling(p)) = 0 /\ One(Handling(p)') = 0
      /\ One(Inquired(p)) \in {0, 1} /\ One(Inquired(p)') = One(Inquired(p))
      /\ One(Answered(p)) \in {0, 1} /\ One(Answered(p)') = One(Answered(p))
  BY <1>3, <1>4 DEF One, Handling
<1>8. Blanks(p) \in Nat
  BY Counts
<1>9. ~Ready(p) => Load(p)' <= Load(p) /\ Blanks(p)' + One(Replacing(p)') <= Load(p)'
  BY <1>6, <1>7, <1>8 DEF Load
<1>10. Ready(p) => Blanks(p)' = Blanks(p)
                   /\ Blanks(p)' + One(Handling(p)') <= Blanks(p) + One(Handling(p))
  BY <1>6, <1>7, <1>8
<1>11. Blanks(p)' \in Nat
  BY <1>6, <1>8
<1>12. ConnSet(p)' \/ Acks(p)' => Ready(p)'
  BY <1>4, <1>6 DEF PairPart
<1> QED BY <1>1, <1>4, <1>5, <1>6, <1>8, <1>9, <1>10, <1>11, <1>12, Goes DEF Passes

(* An acknowledgement takes a blank entry, or finds the punched one first. *)
LEMMA PassesConnAck ==
    ASSUME HolePunchInv, StillPart, Next, trouble' = trouble, trouble = 0,
           NEW p \in Provider,
           PairPart(p), \A s \in Thread : Step(s) => p # Target[s],
           muddles = 0, ProcMsgP2PConnectAck
    PROVE  Passes(p)
<1> DEFINE q == rMsg.info.mac
<1>1. /\ rPc = "connack" /\ UNCHANGED <<flags, net, th, opened>>
  BY DEF ProcMsgP2PConnectAck, routerVars
<1>2. /\ MsgOK(rMsg) /\ rMsg.kind = "connack" /\ peer = rMsg.from /\ StillMsg(rMsg)
      /\ users \in Seq(Peer) /\ UsersPart
  BY <1>1 DEF HolePunchInv, ReaderPart, WantsSource, UsersPart, StillPart, StillReader
<1>3. /\ rMsg \in Ack /\ rMsg.info \in Info /\ q \in Provider /\ peer = Home(q)
      /\ Known(q) /\ peer # None
  BY <1>2, HomeIsAddress DEF MsgOK, Misled, Request, Ack, Call, Info, StillMsg
<1>4. Listed(q)
  BY <1>1, <1>3 DEF Known, Replacing
<1>5. \/ /\ GetAPeer(q).p2p = peer /\ rPc' = "flag" /\ rMsg' = rMsg /\ users' = users
      \/ /\ GetAPeer(q).p2p # peer /\ rPc' = "add" /\ users' = Without(q)
         /\ rMsg' = [rMsg EXCEPT !.info = NewPeer(@, peer)]
  BY <1>4 DEF ProcMsgP2PConnectAck
<1>6. rMsg'.kind = "connack" /\ rMsg'.info.mac = q
  BY <1>2, <1>3, <1>5 DEF Ack, NewPeer
<1>7. PICK i \in At(q) : GetAPeer(q) = users[i]
  BY <1>2, <1>3, <1>4, GetAPeerWorks
<1>8. ConnAsked(p)' => ConnAsked(p)
  BY <1>1, <1>2, <1>5, <1>6 DEF ConnAsked, Asks
<1> HIDE DEF q
<1>9. /\ ~Replacing(p) /\ ConnSet(p)' = ConnSet(p) /\ ~Hears(p)' /\ ~Hears(p) /\ ~Acks(p)
      /\ Inquired(p)' = Inquired(p) /\ Answered(p)' = Answered(p)
      /\ Replacing(p)' = (rPc' = "add" /\ p = q) /\ Acks(p)' = (rPc' = "flag" /\ p = q)
  BY <1>1, <1>2, <1>5, <1>6 DEF Replacing, ConnSet, Hears, Acks, Inquired, Answered
<1>10. Blanks(p) \in Nat
  BY Counts
<1>11. /\ One(Replacing(p)) = 0 /\ One(Hears(p)') = 0 /\ One(Hears(p)) = 0
       /\ One(Handling(p)) = 0
       /\ One(Inquired(p)) \in {0, 1} /\ One(Inquired(p)') = One(Inquired(p))
       /\ One(Answered(p)) \in {0, 1} /\ One(Answered(p)') = One(Answered(p))
  BY <1>9 DEF One, Handling
<1>12. CASE users' = users /\ rPc' = "flag" /\ GetAPeer(q).p2p = peer
  <2>1. Blanks(p)' = Blanks(p) /\ Ready(p)' = Ready(p)
    BY <1>12, SameList
  <2>2. p = q => Blanks(p) = 0 /\ Ready(p)
    BY <1>2, <1>3, <1>4, <1>12, FoundBlank, BlanksAreCounted
  <2>3. One(Replacing(p)') = 0
    BY <1>9, <1>12 DEF One
  <2>4. p # q => One(Handling(p)') = 0
    BY <1>9, <1>12 DEF One, Handling
  <2>5. Load(p)' <= Load(p) /\ Blanks(p)' + One(Replacing(p)') <= Load(p)'
    BY <1>10, <1>11, <2>1, <2>3 DEF Load
  <2>6. Blanks(p)' > 0 => Blanks(p)' + One(Handling(p)') <= Blanks(p) + One(Handling(p))
    BY <1>10, <1>11, <2>1, <2>2, <2>4
  <2>7. ConnSet(p)' \/ Acks(p)' => Ready(p)'
    BY <1>9, <2>1, <2>2 DEF PairPart
  <2> QED BY <1>1, <1>8, <1>9, <1>10, <2>1, <2>5, <2>6, <2>7, Goes DEF Passes
<1>13. CASE GetAPeer(q).p2p # peer /\ rPc' = "add" /\ users' = Without(q)
  <2>1. GetAPeer(q).p2p = None
    <3> SUFFICES ASSUME users[i].p2p # None PROVE FALSE
      BY <1>7
    <3>1. users[i].p2p \in wrote /\ users[i].p2p[1] = q
      BY <1>2, <1>7 DEF UsersPart, PeerOK, PeerRight, At
    <3>2. users[i].p2p = Home(q)
      BY <3>1 DEF StillPart
    <3> QED BY <1>3, <1>7, <1>13, <3>2
  <2>2. /\ Blanks(p)' = Blanks(p) - One(p = q) /\ (Ready(p)' <=> Ready(p))
        /\ p = q => Blanks(p) > 0
    BY <1>2, <1>4, <1>13, <2>1, BlanksAfterDeleting
  <2>3. PICK k \in {0, 1} : /\ Blanks(p)' = Blanks(p) - k /\ k <= Blanks(p)
                            /\ One(Replacing(p)') = k /\ One(Handling(p)') = k
    <3>1. CASE p = q
      <4>1. Blanks(p)' = Blanks(p) - 1 /\ 1 <= Blanks(p)
        BY <1>10, <2>2, <3>1 DEF One
      <4>2. One(Replacing(p)') = 1 /\ One(Handling(p)') = 1
        BY <1>9, <1>13, <3>1 DEF One, Handling
      <4> QED BY <4>1, <4>2
    <3>2. CASE p # q
      <4>1. Blanks(p)' = Blanks(p) - 0 /\ 0 <= Blanks(p)
        BY <1>10, <2>2, <3>2 DEF One
      <4>2. One(Replacing(p)') = 0 /\ One(Handling(p)') = 0
        BY <1>9, <1>13, <3>2 DEF One, Handling
      <4> QED BY <4>1, <4>2
    <3> QED BY <3>1, <3>2
  <2>4. Blanks(p)' \in Nat
    BY <1>10, <2>3
  <2>5. Load(p)' <= Load(p) /\ Blanks(p)' + One(Replacing(p)') <= Load(p)'
    BY <1>10, <1>11, <2>3, <2>4 DEF Load
  <2>6. Blanks(p)' <= Blanks(p)
        /\ Blanks(p)' + One(Handling(p)') <= Blanks(p) + One(Handling(p))
    BY <1>10, <1>11, <2>3
  <2>7. ConnSet(p)' \/ Acks(p)' => Ready(p)'
    BY <1>9, <1>13, <2>2 DEF PairPart
  <2> QED BY <1>1, <1>8, <1>9, <2>2, <2>4, <2>5, <2>6, <2>7, Goes DEF Passes
<1> QED BY <1>5, <1>12, <1>13

(* A punched entry joins the list where one was taken from.                *)
LEMMA PassesAddPeer ==
    ASSUME HolePunchInv, StillPart, Next, trouble' = trouble, trouble = 0,
           NEW p \in Provider,
           PairPart(p), \A s \in Thread : Step(s) => p # Target[s],
           AddPeer
    PROVE  Passes(p)
<1> DEFINE e == rMsg.info
<1>1. /\ users' = Append(users, e) /\ rPc = "add" /\ rPc' = "flag" /\ rMsg' = rMsg
      /\ UNCHANGED <<flags, net, th, opened>>
  BY DEF AddPeer, routerVars
<1>2. /\ rMsg.kind = "connack" /\ e \in Peer /\ e.p2p # None /\ users \in Seq(Peer)
  BY <1>1 DEF HolePunchInv, ReaderPart, PeerOK, UsersPart
<1>3. /\ Replacing(p) = (e.mac = p) /\ ~Replacing(p)' /\ ~Acks(p) /\ Acks(p)' = (e.mac = p)
      /\ ~Hears(p) /\ ~Hears(p)' /\ ConnSet(p)' = ConnSet(p)
      /\ Inquired(p)' = Inquired(p) /\ Answered(p)' = Answered(p)
  BY <1>1, <1>2 DEF Replacing, Acks, Hears, ConnSet, Inquired, Answered
<1>4. ConnAsked(p)' => ConnAsked(p)
  BY <1>1, <1>2 DEF ConnAsked, Asks
<1> HIDE DEF e
<1>5. Blanks(p)' = Blanks(p) /\ (Ready(p)' <=> Ready(p) \/ e.mac = p)
  BY <1>1, <1>2, BlanksAfterAdding
<1>6. Blanks(p) \in Nat
  BY Counts
<1>7. /\ One(Replacing(p)') = 0 /\ One(Replacing(p)) \in {0, 1}
      /\ One(Hears(p)) = 0 /\ One(Hears(p)') = 0
      /\ One(Handling(p)) \in {0, 1} /\ One(Handling(p)') = One(Handling(p))
      /\ One(Inquired(p)) \in {0, 1} /\ One(Inquired(p)') = One(Inquired(p))
      /\ One(Answered(p)) \in {0, 1} /\ One(Answered(p)') = One(Answered(p))
  BY <1>3 DEF One, Handling
<1>8. Load(p)' <= Load(p) /\ Blanks(p)' + One(Replacing(p)') <= Load(p)'
  BY <1>5, <1>6, <1>7 DEF Load
<1>9. Blanks(p)' + One(Handling(p)') <= Blanks(p) + One(Handling(p))
  BY <1>5, <1>6, <1>7
<1>10. ConnSet(p)' \/ Acks(p)' => Ready(p)'
  BY <1>3, <1>5 DEF PairPart
<1> QED BY <1>1, <1>3, <1>4, <1>5, <1>6, <1>8, <1>9, <1>10, Goes DEF Passes

(* The flag is set: an acknowledgement is dealt with.                      *)
LEMMA PassesSetFlag ==
    ASSUME HolePunchInv, StillPart, Next, trouble' = trouble, trouble = 0,
           NEW p \in Provider,
           PairPart(p), \A s \in Thread : Step(s) => p # Target[s],
           SetFlag
    PROVE  Passes(p)
<1>1. /\ rPc = "flag" /\ rPc' = "idle" /\ UNCHANGED <<users, net, th, opened>>
  BY DEF SetFlag, routerVars
<1>2. Blanks(p)' = Blanks(p) /\ Ready(p)' = Ready(p)
  BY <1>1, SameList
<1>3. /\ ~Replacing(p) /\ ~Replacing(p)' /\ ~Acks(p)' /\ ~Hears(p) /\ ~Hears(p)'
      /\ Inquired(p)' = Inquired(p) /\ Answered(p)' = Answered(p)
  BY <1>1 DEF Replacing, Acks, Hears, Inquired, Answered
<1>4. ConnSet(p)' => ConnSet(p) \/ Acks(p)
  <2>1. CASE rMsg.kind = "ipack"
    BY <1>1, <2>1 DEF SetFlag, ConnSet
  <2>2. CASE rMsg.kind # "ipack"
    <3>1. rMsg.kind = "connack" /\ rMsg.info.addr = Home(rMsg.info.mac)
      BY <1>1, <2>2 DEF HolePunchInv, ReaderPart, StillPart, StillReader, StillMsg
    <3>2. flags' = flags \cup {<<"conn", Home(rMsg.info.mac)>>}
      BY <2>2, <3>1 DEF SetFlag
    <3> QED BY <1>1, <3>1, <3>2 DEF ConnSet, Acks, Home
  <2> QED BY <2>1, <2>2
<1>5. ConnAsked(p)' => ConnAsked(p)
  BY <1>1 DEF ConnAsked, Asks
<1>6. Blanks(p) \in Nat
  BY Counts
<1>7. /\ One(Replacing(p)) = 0 /\ One(Replacing(p)') = 0 /\ One(Hears(p)) = 0
      /\ One(Hears(p)') = 0 /\ One(Handling(p)') = 0 /\ One(Handling(p)) \in {0, 1}
      /\ One(Inquired(p)) \in {0, 1} /\ One(Inquired(p)') = One(Inquired(p))
      /\ One(Answered(p)) \in {0, 1} /\ One(Answered(p)') = One(Answered(p))
  BY <1>3 DEF One, Handling
<1>8. Load(p)' <= Load(p) /\ Blanks(p)' + One(Replacing(p)') <= Load(p)'
  BY <1>2, <1>6, <1>7 DEF Load
<1>9. /\ Blanks(p)' <= Blanks(p)
      /\ \/ /\ Blanks(p)' + One(Handling(p)') <= Blanks(p) + One(Handling(p))
            /\ ConnSet(p)' => ConnSet(p)
         \/ Handling(p) /\ ~Handling(p)'
  <2>1. Blanks(p)' <= Blanks(p)
        /\ Blanks(p)' + One(Handling(p)') <= Blanks(p) + One(Handling(p))
    BY <1>2, <1>6, <1>7
  <2>2. (ConnSet(p)' => ConnSet(p)) \/ (Handling(p) /\ ~Handling(p)')
    BY <1>3, <1>4 DEF Handling
  <2> QED BY <2>1, <2>2
<1>10. ConnSet(p)' \/ Acks(p)' => Ready(p)'
  BY <1>2, <1>3, <1>4 DEF PairPart
<1> QED BY <1>1, <1>2, <1>5, <1>6, <1>8, <1>9, <1>10, Goes DEF Passes

(* A call fills in the entry a look-up finds, and then none is before it.  *)
LEMMA BlanksAfterFilling ==
    ASSUME HolePunchInv, AnswerCall, NEW p
    PROVE  \/ Blanks(p)' = Blanks(p) /\ Ready(p)' = Ready(p)
           \/ Blanks(p)' = 0 /\ Ready(p)'
<1> DEFINE mac == rMsg.info.mac
           f == First(mac)
<1>1. /\ peer \in Address \cup {Server} /\ users \in Seq(Peer) /\ peer # None
      /\ users \in [1..Len(users) -> Peer]
  BY HolePunchDistinct, LenProperties DEF HolePunchInv, WorldPart, UsersPart
<1>2. At(p)' = At(p) /\ \A i \in 1..Len(users) : users[i].mac # mac => users'[i] = users[i]
  BY EntryFilled
<1> HIDE DEF mac
<1>3. CASE users' = users
  BY <1>3, SameList
<1>4. CASE p # mac
  <2>1. \A i \in At(p) : users'[i] = users[i]
    BY <1>2, <1>4 DEF At
  <2>2. Ahead(p)' = Ahead(p) /\ Ready(p)' = Ready(p)
    BY <1>2, <2>1 DEF Ahead, Ready
  <2> QED BY <2>2 DEF Blanks
<1>5. CASE p = mac /\ Listed(mac) /\ users' = [users EXCEPT ![f].p2p = peer]
  <2>1. f \in At(p) /\ \A j \in At(p) : f <= j
    BY <1>1, <1>5, FirstIsLeast
  <2> HIDE DEF f
  <2>2. f \in 1..Len(users) /\ users[f] \in Peer
    BY <1>1, <2>1 DEF At
  <2>3. users'[f] = [users[f] EXCEPT !.p2p = peer]
    BY <1>1, <1>5, <2>2
  <2>4. users'[f].p2p # None
    BY <1>1, <2>2, <2>3 DEF Peer
  <2>5. Ready(p)' /\ Ahead(p)' = {}
    BY <1>2, <2>1, <2>4 DEF Ready, Ahead
  <2> QED BY <2>5, FS_EmptySet DEF Blanks
<1> QED BY <1>3, <1>4, <1>5 DEF AnswerCall, mac

LEMMA PassesCall ==
    ASSUME HolePunchInv, StillPart, Next, trouble' = trouble, trouble = 0,
           NEW p \in Provider, PairPart(p), \A s \in Thread : Step(s) => p # Target[s],
           TakeCall \/ AnswerCall
    PROVE  Passes(p)
<1>1. /\ rPc \in {"call", "called"} /\ rPc' \in {"idle", "called"}
      /\ UNCHANGED <<flags, net, th>> /\ opened \subseteq opened'
  BY DEF TakeCall, AnswerCall
<1>2. /\ ~Replacing(p) /\ ~Replacing(p)' /\ ~Acks(p) /\ ~Acks(p)' /\ ~Hears(p) /\ ~Hears(p)'
      /\ ConnSet(p)' = ConnSet(p) /\ Inquired(p)' = Inquired(p) /\ Answered(p)' = Answered(p)
  BY <1>1 DEF Replacing, Acks, Hears, ConnSet, Inquired, Answered
<1>3. ConnAsked(p)' => ConnAsked(p)
  BY <1>1 DEF ConnAsked, Asks
<1>4. Blanks(p) \in Nat
  BY Counts
<1>5. \/ Blanks(p)' = Blanks(p) /\ Ready(p)' = Ready(p)
      \/ Blanks(p)' = 0 /\ Ready(p)'
  BY BlanksAfterFilling, SameList DEF TakeCall
<1>6. /\ One(Replacing(p)) = 0 /\ One(Replacing(p)') = 0
      /\ One(Hears(p)) = 0 /\ One(Hears(p)') = 0
      /\ One(Handling(p)) = 0 /\ One(Handling(p)') = 0
      /\ One(Inquired(p)) \in {0, 1} /\ One(Inquired(p)') = One(Inquired(p))
      /\ One(Answered(p)) \in {0, 1} /\ One(Answered(p)') = One(Answered(p))
  BY <1>2 DEF One, Handling
<1>7. Load(p)' <= Load(p) /\ Blanks(p)' + One(Replacing(p)') <= Load(p)'
  BY <1>4, <1>5, <1>6 DEF Load
<1>8. Blanks(p)' + One(Handling(p)') <= Blanks(p) + One(Handling(p)) /\ Blanks(p)' <= Blanks(p)
  BY <1>4, <1>5, <1>6
<1>9. ConnSet(p)' \/ Acks(p)' => Ready(p)'
  BY <1>2, <1>5 DEF PairPart
<1> QED BY <1>1, <1>2, <1>3, <1>4, <1>5, <1>7, <1>8, <1>9, Goes DEF Passes

(* The server and the providers pass on what they get, once.               *)
LEMMA PassesWorld ==
    ASSUME HolePunchInv, StillPart, Straight, Next, trouble' = trouble, trouble = 0,
           NEW p \in Provider, PairPart(p), \A s \in Thread : Step(s) => p # Target[s],
           World
    PROVE  Passes(p)
<1>1. /\ UNCHANGED <<users, flags, readerVars, th, opened>>
  BY DEF World, ProcGetUserClientIP, ProcP2PConnectMsg, Drop, Lose, ProcMsgP2PConnect,
     CallClient, Move, Unlist, LogIn, routerVars
<1>2. trouble \in Nat /\ p # None
  BY Counters, HolePunchAssumption
<1>3. /\ Replacing(p)' <=> Replacing(p)
      /\ Acks(p)' <=> Acks(p)
      /\ Hears(p)' <=> Hears(p)
      /\ ConnSet(p)' => ConnSet(p)
  BY <1>1, SameClient DEF ConnSet
<1>4. ASSUME \A m \in net' : Asks(m, p) => ConnAsked(p)
      PROVE  ConnAsked(p)' => ConnAsked(p)
  BY <1>1, <1>4 DEF ConnAsked, readerVars
<1>5. ASSUME NEW m \in net, Asks(m, p) PROVE ConnAsked(p)
  BY <1>5 DEF ConnAsked
<1>6. ASSUME ConnAsked(p)' => ConnAsked(p),
             One(Inquired(p)') + One(Answered(p)') + One(Hears(p)')
             <= One(Inquired(p)) + One(Answered(p)) + One(Hears(p))
      PROVE  Passes(p)
  BY <1>1, <1>3, <1>6, PassesBy
<1>7. ASSUME \A m \in net' : m.kind \in {"getip", "ipack"} => m \in net
      PROVE  One(Inquired(p)') + One(Answered(p)') + One(Hears(p)')
             <= One(Inquired(p)) + One(Answered(p)) + One(Hears(p))
  BY <1>3, <1>7, OnesFall DEF Inquired, Answered
<1>8. ASSUME NEW m \in net, ProcGetUserClientIP(m) PROVE Passes(p)
  <2>1. m.kind = "getip" /\ m.mac \in Provider /\ m.to = Server
    BY <1>8 DEF ProcGetUserClientIP, HolePunchInv, NetPart, MsgOK, Request, Ack, Call
  <2>2. PICK a : a = [kind |-> "ipack", from |-> Server,
                      info |-> [mac |-> m.mac, addr |-> dir[m.mac]]]
    OBVIOUS
  <2>3. dir[m.mac] # None
    BY <2>1, HomeIsAddress DEF StillPart, StillWorld
  <2>4. net' = (net \ {m}) \cup {a} /\ a.kind = "ipack" /\ a.info.mac = m.mac
    BY <1>8, <2>2, <2>3 DEF ProcGetUserClientIP, Reply
  <2>5. ConnAsked(p)' => ConnAsked(p)
    BY <1>4, <1>5, <2>4 DEF Asks
  <2>6. CASE m.mac # p
    <3>1. (Inquired(p)' => Inquired(p)) /\ (Answered(p)' => Answered(p))
      BY <2>4, <2>6 DEF Inquired, Answered
    <3>2. One(Inquired(p)') + One(Answered(p)') + One(Hears(p)')
          <= One(Inquired(p)) + One(Answered(p)) + One(Hears(p))
      BY <1>3, <3>1, OnesFall
    <3> QED BY <1>6, <2>5, <3>2
  <2>7. CASE m.mac = p
    <3>1. Inquired(p)
      BY <2>1, <2>7 DEF Inquired
    <3>2. ~Inquired(p)'
      <4>1. SUFFICES ASSUME NEW n \in net', n.kind = "getip", n.mac = p PROVE FALSE
        BY DEF Inquired
      <4>2. n \in net /\ n # m
        BY <2>4, <4>1
      <4>3. n \in Request /\ m \in Request /\ n.to = Server
        BY <2>1, <4>1, <4>2 DEF HolePunchInv, NetPart, MsgOK, Request, Ack, Call, Straight
      <4> QED BY <2>1, <2>7, <4>1, <4>2, <4>3 DEF Request
    <3>3. /\ One(Inquired(p)) = 1 /\ One(Inquired(p)') = 0
          /\ One(Answered(p)) \in {0, 1} /\ One(Answered(p)') \in {0, 1}
          /\ One(Hears(p)) \in {0, 1} /\ One(Hears(p)') = One(Hears(p))
      BY <1>3, <3>1, <3>2 DEF One
    <3>4. One(Inquired(p)') + One(Answered(p)') + One(Hears(p)')
          <= One(Inquired(p)) + One(Answered(p)) + One(Hears(p))
      BY <3>3
    <3> QED BY <1>6, <2>5, <3>4
  <2> QED BY <2>6, <2>7
<1>9. ASSUME NEW m \in net, ProcP2PConnectMsg(m) PROVE Passes(p)
  <2>1. PICK a : a = [kind |-> "forwarded", to |-> dir[m.mac], mac |-> m.mac]
    OBVIOUS
  <2>2. m.kind = "connect" /\ \A n \in net' : n \in net \/ n = a
    BY <1>9, <2>1 DEF ProcP2PConnectMsg, Reply
  <2>3. ConnAsked(p)' => ConnAsked(p)
    BY <1>4, <1>5, <2>1, <2>2 DEF Asks
  <2>4. \A n \in net' : n.kind \in {"getip", "ipack"} => n \in net
    BY <2>1, <2>2
  <2> QED BY <1>6, <1>7, <2>3, <2>4
<1>10. ASSUME NEW q \in Provider, NEW m \in net, ProcMsgP2PConnect(q, m) PROVE Passes(p)
  <2>1. PICK a : a = [kind |-> "connack", from |-> nat[q],
                      info |-> [mac |-> q, addr |-> known[q]]]
    OBVIOUS
  <2>2. /\ m.kind \in {"connect", "forwarded"} /\ m.to = Home(q)
        /\ \A n \in net' : n \in net \/ n = a
    BY <1>10, <2>1 DEF ProcMsgP2PConnect, Reply, StillPart, StillWorld
  <2>3. m.to = Home(m.mac)
    BY <2>2, HomeIsAddress DEF Straight, StillPart, StillNet, StillMsg
  <2>4. m.mac = q
    BY <2>2, <2>3 DEF Home
  <2>5. ConnAsked(p)' => ConnAsked(p)
    BY <1>4, <1>5, <2>1, <2>2, <2>4 DEF Asks
  <2>6. \A n \in net' : n.kind \in {"getip", "ipack"} => n \in net
    BY <2>1, <2>2
  <2> QED BY <1>6, <1>7, <2>5, <2>6
<1>11. ASSUME net' \subseteq net PROVE Passes(p)
  <2>1. ConnAsked(p)' => ConnAsked(p)
    BY <1>4, <1>5, <1>11
  <2> QED BY <1>6, <1>7, <1>11, <2>1
<1>12. ASSUME NEW m \in net, Drop(m) PROVE Passes(p)
  BY <1>11, <1>12 DEF Drop
<1>13. ASSUME NEW m \in net, Lose(m) PROVE FALSE
  BY <1>2, <1>13 DEF Lose
<1>14. ASSUME NEW q \in Provider, Move(q) \/ Unlist(q) \/ LogIn(q) PROVE Passes(p)
  BY <1>11, <1>14 DEF Move, Unlist, LogIn
<1>15. ASSUME NEW q \in Provider, CallClient(q) PROVE Passes(p)
  <2>1. \A n \in net' : n \in net \/ n.kind = "call"
    BY <1>15 DEF CallClient
  <2>2. ConnAsked(p)' => ConnAsked(p)
    BY <1>4, <1>5, <2>1 DEF Asks
  <2> QED BY <1>6, <1>7, <2>1, <2>2
<1> QED BY <1>8, <1>9, <1>10, <1>12, <1>13, <1>14, <1>15 DEF World

(* Whoever steps, unless it is a thread that sends to the provider.        *)
LEMMA OthersPass ==
    ASSUME HolePunchInv, HolePunchInv', StillPart, Straight, Next, trouble' = trouble,
           Faultless, NEW p \in Provider, PairPart(p),
           \A s \in Thread : Step(s) => p # Target[s]
    PROVE  PairPart(p)'
<1>1. Passes(p)
  BY PassesThread, PassesRead, PassesIpAck, PassesConnAck, PassesAddPeer, PassesSetFlag,
     PassesCall, PassesWorld DEF Next, Reader, Faultless
<1> QED BY <1>1, PassingStep

-----------------------------------------------------------------------------
(* Steps of a thread that sends to the provider.                           *)

OwnFrame(s) ==
    /\ users' = users /\ UNCHANGED readerVars
    /\ flags' \subseteq flags /\ net \subseteq net'
    /\ opened \subseteq opened' /\ Others(s)

LEMMA OwnFrames ==
    ASSUME HolePunchInv, Faultless, trouble' = trouble, NEW s \in Thread, Step(s)
    PROVE  /\ OwnFrame(s)
           /\ ~SendFails(s) /\ ~(\E m \in net : SendAstray(s, m))
           /\ TimeOut(s) => Quiet
<1>1. /\ users' = users /\ UNCHANGED readerVars /\ net \subseteq net'
      /\ opened \subseteq opened' /\ Others(s)
  BY ThreadFrames DEF ThreadFrame, Faultless
<1>2. ~SendFails(s) /\ ~(\E m \in net : SendAstray(s, m)) /\ (TimeOut(s) => Quiet)
  BY DEF SendFails, SendAstray, TimeOut, Faultless
<1>3. flags' \subseteq flags
  BY <1>2 DEF Step, Check, Connect, Lookup, Fetch, Announce, Send, Answer, TimeOut
<1> QED BY <1>1, <1>2, <1>3 DEF OwnFrame

LEMMA OwnSame ==
    ASSUME NEW s, NEW p, OwnFrame(s)
    PROVE  /\ Blanks(p)' = Blanks(p) /\ (Ready(p)' <=> Ready(p))
           /\ Replacing(p)' <=> Replacing(p)
           /\ Acks(p)' <=> Acks(p)
           /\ Handling(p)' <=> Handling(p)
           /\ One(Handling(p)') = One(Handling(p))
           /\ ConnSet(p)' => ConnSet(p)
           /\ ConnComing(p) => ConnComing(p)' \/ ConnSet(p)
           /\ IpComing(p) => IpComing(p)' \/ (IpSet(p) /\ ~IpSet(p)')
<1>1. users' = users /\ UNCHANGED readerVars /\ flags' \subseteq flags /\ net \subseteq net'
  BY DEF OwnFrame
<1>2. Blanks(p)' = Blanks(p) /\ (Ready(p)' <=> Ready(p))
  BY <1>1, SameList
<1>3. /\ Replacing(p)' <=> Replacing(p)
      /\ Acks(p)' <=> Acks(p)
  BY <1>1, SameClient
<1>4. (Handling(p)' <=> Handling(p)) /\ One(Handling(p)') = One(Handling(p))
  BY <1>3 DEF Handling, One
<1>5. ConnSet(p)' => ConnSet(p)
  BY <1>1 DEF ConnSet
<1>6. ConnComing(p) => ConnComing(p)' \/ ConnSet(p)
  BY <1>1 DEF ConnComing, Acks, readerVars
<1>7. IpComing(p) => IpComing(p)' \/ (IpSet(p) /\ ~IpSet(p)')
  BY <1>1 DEF IpComing, Answered, Hears, Sets, readerVars
<1> QED BY <1>2, <1>3, <1>4, <1>5, <1>6, <1>7

(* The threads beside the one that steps.                                  *)
LEMMA OwnBesides ==
    ASSUME HolePunchInv, NEW p \in Provider, PairPart(p),
           NEW s \in Thread, Target[s] = p, OwnFrame(s), Through(s) => Through(s)',
           NEW u \in Thread, u # s, Target[u] = p,
           IpSet(p) /\ ~IpSet(p)' /\ th[u].pc = "asked" => th[u].try = 1 /\ Through(s)'
    PROVE  Course(u)'
<1>1. th'[u] = th[u]
  BY DEF OwnFrame, Others
<1>2. Course(u)
  BY DEF PairPart
<1>3. /\ Blanks(p)' = Blanks(p) /\ (Ready(p)' <=> Ready(p))
      /\ One(Handling(p)') = One(Handling(p))
      /\ ConnSet(p)' => ConnSet(p)
      /\ ConnComing(p) => ConnComing(p)' \/ ConnSet(p)
      /\ IpComing(p) => IpComing(p)' \/ (IpSet(p) /\ ~IpSet(p)')
      /\ opened \subseteq opened'
  BY OwnSame DEF OwnFrame
<1>4. Spent(u)' = Spent(u)
  BY <1>1 DEF Spent
<1>5. OtherThrough(u) \/ Through(s)' => OtherThrough(u)'
  <2>1. Through(s)' => OtherThrough(u)'
    BY DEF OtherThrough
  <2>2. ASSUME NEW v \in Thread \ {u}, v # s, Target[v] = Target[u], Through(v)
        PROVE  OtherThrough(u)'
    <3>1. th'[v] = th[v]
      BY <2>2 DEF OwnFrame, Others
    <3>2. Through(v)'
      BY <2>2, <3>1 DEF Through, Beginning, Asking
    <3> QED BY <2>2, <3>2 DEF OtherThrough
  <2> QED BY <2>1, <2>2 DEF OtherThrough
<1>6. Told(u)' => Told(u)
  BY <1>1, <1>3 DEF Told
<1>7. th[u].pc = "asked" /\ ~IpComing(p)' => th[u].try = 1 /\ OtherThrough(u)'
  BY <1>2, <1>3, <1>5 DEF Course
<1>8. th[u].pc = "relayed" => ConnComing(p)' \/ Ready(p)
  BY <1>2, <1>3 DEF Course, PairPart
<1>9. ASSUME Blanks(p)' > 0
      PROVE  Blanks(p)' + Spent(u)' + One(Told(u)') + One(Handling(p)') <= 3
  <2>1. Blanks(p) + Spent(u) + One(Told(u)) + One(Handling(p)) <= 3
    BY <1>2, <1>3, <1>9 DEF Course
  <2>2. One(Told(u)') <= One(Told(u)) /\ One(Told(u)') \in {0, 1} /\ One(Told(u)) \in {0, 1}
        /\ One(Handling(p)) \in {0, 1}
    BY <1>6 DEF One
  <2>3. Blanks(p) \in Nat /\ Spent(u) \in Nat
    BY Counts
  <2> QED BY <1>3, <1>4, <2>1, <2>2, <2>3
<1>10. Asking(u)' = Asking(u)
  BY <1>1 DEF Asking
<1> QED BY <1>1, <1>2, <1>3, <1>4, <1>5, <1>7, <1>8, <1>9, <1>10 DEF Course

LEMMA OwnKeeps ==
    ASSUME HolePunchInv, NEW p \in Provider, PairPart(p),
           NEW s \in Thread, Target[s] = p, OwnFrame(s), Through(s) => Through(s)',
           \A u \in Thread \ {s} :
              Target[u] = p /\ IpSet(p) /\ ~IpSet(p)' /\ th[u].pc = "asked"
                 => th[u].try = 1 /\ Through(s)',
           ConnAsked(p)' => ConnAsked(p) \/ Through(s)',
           ~Ready(p) => /\ Load(p)' <= 3
                        /\ \/ Load(p)' <= Load(p) + Asked(s)' - Asked(s)
                           \/ Load(p)' <= Load(p) /\ OtherThrough(s) /\ Through(s)',
           Course(s)', Asked(s)' \in Int
    PROVE  PairPart(p)'
<1>1. \A u \in Thread \ {s} : Target[u] = p => Course(u)'
  BY OwnBesides
<1>2. \A u \in Thread \ {s} : /\ Through(u)' = Through(u)
                              /\ Asked(u)' = Asked(u)
  BY DEF OwnFrame, Others, Through, Beginning, Asking, Asked
<1>3. /\ Ready(p)' <=> Ready(p)
      /\ Acks(p)' <=> Acks(p)
      /\ ConnSet(p)' => ConnSet(p)
  BY OwnSame
<1>4. ASSUME ConnAsked(p)' PROVE \E u \in Thread : Target[u] = p /\ Through(u)'
  <2>1. CASE Through(s)'
    BY <2>1
  <2>2. CASE ConnAsked(p)
    <3>1. PICK u \in Thread : Target[u] = p /\ Through(u)
      BY <2>2 DEF PairPart
    <3> QED BY <1>2, <3>1
  <2> QED BY <1>4, <2>1, <2>2
<1>5. ASSUME ~Ready(p)', NEW t \in Thread, NEW u \in Thread, Target[t] = p, Target[u] = p
      PROVE  PairLoad(t, u)'
  <2> SUFFICES ASSUME \A v \in Thread : Target[v] = p => v \in {t, u},
                      ~(t # u /\ Through(t)' /\ Through(u)')
               PROVE  Load(p)' <= IF t = u THEN Asked(t)' ELSE Asked(t)' + Asked(u)'
    BY <1>5 DEF PairLoad
  <2>1. s \in {t, u}
    OBVIOUS
  <2>2. ~(t # u /\ Through(t) /\ Through(u))
    BY <1>2, <2>1
  <2>3. Load(p) <= IF t = u THEN Asked(t) ELSE Asked(t) + Asked(u)
    BY <1>3, <1>5, <2>2 DEF PairPart, PairLoad
  <2>4. ~(OtherThrough(s) /\ Through(s)')
    BY <1>2, <2>1 DEF OtherThrough
  <2>5. Load(p)' <= Load(p) + Asked(s)' - Asked(s)
    BY <1>3, <1>5, <2>4
  <2>6. /\ Load(p) \in Nat /\ Load(p)' \in Nat
        /\ \A v \in Thread : Asked(v) \in Int
    <3>1. Blanks(p) \in Nat /\ Load(p) \in Nat /\ Blanks(p)' = Blanks(p)
      BY Counts, OwnSame
    <3>2. Load(p)' \in Nat
      BY <3>1 DEF Load, One
    <3>3. \A v \in Thread : Asked(v) \in Int
      BY Counts DEF Asked
    <3> QED BY <3>1, <3>2, <3>3
  <2>7. CASE t = u
    BY <2>1, <2>3, <2>5, <2>6, <2>7
  <2>8. CASE t # u /\ t = s
    <3>1. Asked(u)' = Asked(u) /\ Asked(u) \in Int /\ Asked(s) \in Int
      BY <1>2, <2>6, <2>8
    <3> QED BY <2>3, <2>5, <2>6, <2>8, <3>1
  <2>9. CASE t # u /\ u = s
    <3>1. Asked(t)' = Asked(t) /\ Asked(t) \in Int /\ Asked(s) \in Int
      BY <1>2, <2>6, <2>9
    <3> QED BY <2>3, <2>5, <2>6, <2>9, <3>1
  <2> QED BY <2>1, <2>7, <2>8, <2>9
<1> QED BY <1>1, <1>3, <1>4, <1>5 DEF PairPart

(* A step by which the thread inquires of nothing.                         *)
LEMMA OwnMoves ==
    ASSUME HolePunchInv, NEW p \in Provider, PairPart(p),
           NEW s \in Thread, Target[s] = p, OwnFrame(s), Through(s) => Through(s)',
           \A u \in Thread \ {s} :
              Target[u] = p /\ IpSet(p) /\ ~IpSet(p)' /\ th[u].pc = "asked"
                 => th[u].try = 1 /\ Through(s)',
           \A m \in net' : m \in net \/ (m.kind = "connect" /\ Through(s)'),
           \/ Asked(s)' >= Asked(s)
           \/ OtherThrough(s) /\ Through(s)',
           Course(s)', Asked(s)' \in Int
    PROVE  PairPart(p)'
<1>1. UNCHANGED readerVars /\ net \subseteq net'
  BY DEF OwnFrame
<1>2. ConnAsked(p)' => ConnAsked(p) \/ Through(s)'
  BY <1>1 DEF ConnAsked, Asks, readerVars
<1>3. /\ Inquired(p)' <=> Inquired(p)
      /\ Answered(p)' <=> Answered(p)
      /\ Hears(p)' <=> Hears(p)
  BY <1>1 DEF Inquired, Answered, Hears, readerVars
<1>4. /\ Blanks(p)' = Blanks(p) /\ One(Replacing(p)') = One(Replacing(p))
      /\ One(Inquired(p)') = One(Inquired(p)) /\ One(Answered(p)') = One(Answered(p))
      /\ One(Hears(p)') = One(Hears(p))
  BY <1>3, OwnSame DEF One
<1>5. Load(p)' = Load(p)
  BY <1>4 DEF Load
<1>6. Load(p) \in Nat /\ Asked(s) \in Int
  BY Counts DEF Asked
<1>7. ~Ready(p) => /\ Load(p)' <= 3
                   /\ \/ Load(p)' <= Load(p) + Asked(s)' - Asked(s)
                      \/ Load(p)' <= Load(p) /\ OtherThrough(s) /\ Through(s)'
  BY <1>5, <1>6 DEF PairPart
<1> QED BY <1>2, <1>7, OwnKeeps

(* A thread that has spent no round is in its first.                       *)
LEMMA NothingSpent ==
    ASSUME HolePunchInv, NEW t \in Thread
    PROVE  /\ Spent(t) = 0 <=> th[t].round = 1 /\ th[t].fails = 0
           /\ Spent(t) \in Nat /\ One(Told(t)) \in {0, 1}
           /\ Asked(t) \in Int
<1>1. /\ th[t].round \in Nat /\ th[t].round >= 1 /\ th[t].fails \in Nat
      /\ Spent(t) \in Nat /\ th[t].try \in Nat
  BY Counts
<1>2. Spent(t) = 0 <=> th[t].round = 1 /\ th[t].fails = 0
  BY <1>1 DEF Spent
<1> QED BY <1>1, <1>2 DEF One, Asked

(* A move to a place where it does not ask.                                *)
LEMMA CourseAfter ==
    ASSUME HolePunchInv, NEW s \in Thread, PairPart(Target[s]), OwnFrame(s),
           th'[s].pc \notin {"gone", "offer", "ask", "asked"},
           Spent(s)' > 0 => Ready(Target[s]) /\ th'[s].pc \notin {"lookup", "fetch"},
           th'[s].pc \in {"relay", "relayed"} => Target[s] \in opened',
           th'[s].pc = "relayed" => ConnComing(Target[s])' \/ Ready(Target[s]),
           Spent(s)' >= 3 => th'[s].pc \in {"check", "data"},
           Spent(s)' + One(Told(s)') <= Spent(s) + One(Told(s)),
           Spent(s)' \in Nat
    PROVE  Course(s)'
<1> DEFINE p == Target[s]
<1>1. Course(s) /\ Blanks(p) \in Nat
  BY Counts DEF PairPart
<1>2. /\ Blanks(p)' = Blanks(p) /\ (Ready(p)' <=> Ready(p))
      /\ One(Handling(p)') = One(Handling(p))
  BY OwnSame
<1>3. /\ Spent(s) \in Nat /\ One(Told(s)) \in {0, 1} /\ One(Told(s)') \in {0, 1}
      /\ One(Handling(p)) \in {0, 1}
  BY NothingSpent DEF One
<1>4. Blanks(p)' > 0 => Blanks(p)' + Spent(s)' + One(Told(s)') + One(Handling(p)') <= 3
  <2>1. Blanks(p) > 0 => Blanks(p) + Spent(s) + One(Told(s)) + One(Handling(p)) <= 3
    BY <1>1 DEF Course
  <2> QED BY <1>1, <1>2, <1>3, <2>1
<1> HIDE DEF p
<1> QED BY <1>2, <1>4 DEF Course, Asking, p

LEMMA AnnounceTo ==
    ASSUME HolePunchInv, StillPart, NEW s \in Thread, Listed(Target[s]), Announce(s)
    PROVE  /\ th'[s].pc = "direct" /\ th'[s].round = th[s].round
           /\ th'[s].fails = th[s].fails
           /\ flags' = flags \ {<<"conn", Home(Target[s])>>}
<1>1. Target[s] \in Provider /\ th \in [Thread -> Locals] /\ th[s] \in Locals
  BY TargetsProvide DEF HolePunchInv, ThreadPart
<1>2. PICK i \in At(Target[s]) : GetAPeer(Target[s]) = users[i]
  BY <1>1, GetAPeerWorks DEF HolePunchInv
<1>3. GetAPeer(Target[s]).addr = Home(Target[s])
  BY <1>2 DEF At, StillPart, StillUsers
<1>4. PICK a : a = Home(Target[s])
  OBVIOUS
<1>5. Become(s, [th[s] EXCEPT !.pc = "direct", !.cur = a]) /\ flags' = flags \ {<<"conn", a>>}
  BY <1>3, <1>4 DEF Announce
<1>6. th'[s] = [th[s] EXCEPT !.pc = "direct", !.cur = a]
  BY <1>1, <1>5 DEF Become
<1> QED BY <1>1, <1>4, <1>5, <1>6 DEF Locals

(* The provider is found: its flag is reset, and nothing told counts.      *)
LEMMA OwnAnnounce ==
    ASSUME HolePunchInv, StillPart, NEW s \in Thread, PairPart(Target[s]), OwnFrame(s),
           net' = net, Listed(Target[s]), Announce(s), th[s].pc \in {"connect", "fetch"}
    PROVE  PairPart(Target[s])'
<1>1. /\ th'[s].pc = "direct" /\ th'[s].round = th[s].round
      /\ th'[s].fails = th[s].fails
      /\ flags' = flags \ {<<"conn", Home(Target[s])>>}
  BY AnnounceTo
<1>2. Course(s) /\ Target[s] \in Provider /\ Spent(s) \in Nat /\ One(Told(s)) \in {0, 1}
  BY NothingSpent, TargetsProvide DEF PairPart
<1>3. Spent(s)' = Spent(s)
  BY <1>1 DEF Spent
<1>4. One(Told(s)') = 0
  BY <1>1 DEF One, Told, ConnSet
<1>5. Course(s)'
  <2>1. Spent(s) < 3 /\ (Spent(s) > 0 => Ready(Target[s]))
    BY <1>2 DEF Course
  <2>2. Spent(s)' + One(Told(s)') <= Spent(s) + One(Told(s))
    BY <1>2, <1>3, <1>4
  <2> QED BY <1>1, <1>2, <1>3, <2>1, <2>2, CourseAfter
<1>6. Through(s)'
  BY <1>1 DEF Through, Beginning, Asking
<1>7. Asked(s)' = 1 /\ Asked(s) \in Int /\ Asked(s) <= 1
  BY <1>1, <1>6 DEF Asked, One
<1>8. IpSet(Target[s])' = IpSet(Target[s])
  BY <1>1 DEF IpSet
<1> QED BY <1>2, <1>5, <1>6, <1>7, <1>8, OwnMoves

LEMMA OwnCheck ==
    ASSUME HolePunchInv, StillPart, NEW s \in Thread, PairPart(Target[s]), OwnFrame(s),
           Check(s)
    PROVE  PairPart(Target[s])'
<1> DEFINE p == Target[s]
<1>1. th[s].pc = "check" /\ net' = net /\ flags' = flags
  BY DEF Check
<1>2. Course(s) /\ p \in Provider /\ Spent(s) \in Nat /\ One(Told(s)) \in {0, 1}
  BY NothingSpent, TargetsProvide DEF PairPart
<1>3. users \in Seq(Peer) /\ th \in [Thread -> Locals] /\ th[s] \in Locals
  BY DEF HolePunchInv, UsersPart, ThreadPart
<1>4. \/ /\ Listed(p) /\ GetAPeer(p).p2p # None
         /\ Become(s, [th[s] EXCEPT !.pc = "data", !.cur = GetAPeer(p).p2p])
      \/ ~(Listed(p) /\ GetAPeer(p).p2p # None) /\ Goto(s, "connect")
  BY DEF Check
<1>5. Asked(s) = One(Through(s))
  BY <1>1 DEF Asked
<1>6. IpSet(p)' = IpSet(p)
  BY <1>1 DEF IpSet
<1>7. CASE /\ Listed(p) /\ GetAPeer(p).p2p # None
           /\ Become(s, [th[s] EXCEPT !.pc = "data", !.cur = GetAPeer(p).p2p])
  <2>0. PICK a : a = GetAPeer(p).p2p
    OBVIOUS
  <2>1. th'[s] = [th[s] EXCEPT !.pc = "data", !.cur = a]
    BY <1>3, <1>7, <2>0 DEF Become
  <2>2. th'[s].pc = "data" /\ th'[s].round = th[s].round /\ th'[s].fails = th[s].fails
    BY <1>3, <2>1 DEF Locals
  <2>3. Ready(p)
    BY <1>3, <1>7, FoundBlank
  <2>4. Spent(s)' = Spent(s) /\ One(Told(s)') = 0
    BY <2>2 DEF Spent, Told, One
  <2>5. Spent(s)' + One(Told(s)') <= Spent(s) + One(Told(s))
    BY <1>2, <2>4
  <2>6. Course(s)'
    BY <1>2, <2>2, <2>3, <2>4, <2>5, CourseAfter
  <2>7. Through(s)'
    BY <2>2 DEF Through, Beginning, Asking
  <2>8. Asked(s)' = 1 /\ Asked(s) <= 1
    BY <1>5, <2>2, <2>7 DEF Asked, One
  <2> QED BY <1>1, <1>2, <1>6, <2>6, <2>7, <2>8, OwnMoves
<1>8. CASE ~(Listed(p) /\ GetAPeer(p).p2p # None) /\ Goto(s, "connect")
  <2>1. th'[s].pc = "connect" /\ th'[s].round = th[s].round /\ th'[s].fails = th[s].fails
    BY <1>8, GoesTo
  <2>2. Spent(s)' = Spent(s) /\ One(Told(s)') = 0
    BY <2>1 DEF Spent, Told, One
  <2>3. ~(Spent(s) >= 3)
    <3> SUFFICES ASSUME Spent(s) >= 3 PROVE FALSE
      OBVIOUS
    <3>1. Ready(p) /\ Blanks(p) \in Nat /\ One(Handling(p)) \in {0, 1}
      BY <1>2, Counts DEF Course, One
    <3>2. Listed(p)
      BY <3>1 DEF Ready, Listed
    <3>3. Blanks(p) > 0
      BY <1>3, <1>8, <3>1, <3>2, FoundBlank, BlanksAreCounted
    <3>4. Blanks(p) + Spent(s) + One(Told(s)) + One(Handling(p)) <= 3
      BY <1>2, <3>3 DEF Course
    <3> QED BY <1>2, <3>1, <3>3, <3>4
  <2>4. Spent(s)' + One(Told(s)') <= Spent(s) + One(Told(s))
    BY <1>2, <2>2
  <2>5. Spent(s) > 0 => Ready(p)
    BY <1>2 DEF Course
  <2>6. Course(s)'
    BY <1>2, <2>1, <2>2, <2>3, <2>4, <2>5, CourseAfter
  <2>7. Through(s)' <=> Through(s)
    BY <1>1, <2>1 DEF Through, Beginning, Asking
  <2>8. Asked(s)' >= Asked(s) /\ Asked(s)' \in Int /\ (Through(s) => Through(s)')
    BY <1>5, <2>1, <2>7 DEF Asked, One
  <2> QED BY <1>1, <1>2, <1>6, <2>6, <2>8, OwnMoves
<1> QED BY <1>4, <1>7, <1>8

LEMMA OwnConnect ==
    ASSUME HolePunchInv, StillPart, NEW s \in Thread, PairPart(Target[s]), OwnFrame(s),
           Connect(s)
    PROVE  PairPart(Target[s])'
<1>1. th[s].pc = "connect" /\ net' = net
  BY DEF Connect
<1>2. CASE Listed(Target[s])
  BY <1>1, <1>2, OwnAnnounce DEF Connect
<1>3. CASE ~Listed(Target[s])
  <2>1. Goto(s, "lookup") /\ flags' = flags
    BY <1>3 DEF Connect
  <2>2. th'[s].pc = "lookup" /\ th'[s].round = th[s].round /\ th'[s].fails = th[s].fails
    BY <2>1, GoesTo
  <2>3. Course(s) /\ Target[s] \in Provider /\ ~Ready(Target[s])
    BY <1>3, TargetsProvide DEF PairPart, Ready, Listed
  <2>4. Spent(s) = 0 /\ Spent(s)' = 0
    <3>1. Spent(s) = 0
      BY <2>3, NothingSpent DEF Course
    <3> QED BY <2>2, <3>1 DEF Spent
  <2>5. One(Told(s)') = 0 /\ One(Told(s)) \in {0, 1}
    BY <2>2 DEF Told, One
  <2>6. Course(s)'
    BY <2>2, <2>4, <2>5, CourseAfter
  <2>7. Through(s) <=> Through(s)'
    BY <1>1, <2>2 DEF Through, Beginning, Asking
  <2>8. Asked(s)' >= Asked(s) /\ Asked(s)' \in Int /\ (Through(s) => Through(s)')
    BY <1>1, <2>2, <2>7 DEF Asked, One
  <2>9. IpSet(Target[s])' <=> IpSet(Target[s])
    BY <2>1 DEF IpSet
  <2> QED BY <1>1, <2>3, <2>6, <2>8, <2>9, OwnMoves
<1> QED BY <1>2, <1>3

LEMMA OwnFetch ==
    ASSUME HolePunchInv, StillPart, NEW s \in Thread, PairPart(Target[s]), OwnFrame(s),
           Fetch(s)
    PROVE  PairPart(Target[s])'
<1>1. th[s].pc = "fetch" /\ net' = net
  BY DEF Fetch
<1>2. CASE Listed(Target[s])
  BY <1>1, <1>2, OwnAnnounce DEF Fetch
<1>3. CASE ~Listed(Target[s])
  <2>1. Goto(s, "crashed") /\ flags' = flags
    BY <1>3 DEF Fetch
  <2>2. th'[s].pc = "crashed" /\ th'[s].round = th[s].round /\ th'[s].fails = th[s].fails
    BY <2>1, GoesTo
  <2>3. Course(s) /\ Target[s] \in Provider
    BY <1>3, TargetsProvide DEF PairPart
  <2>4. Spent(s) = 0 /\ Spent(s)' = 0
    <3>1. Spent(s) = 0
      BY <1>1, <2>3, NothingSpent DEF Course
    <3> QED BY <2>2, <3>1 DEF Spent
  <2>5. One(Told(s)') = 0 /\ One(Told(s)) \in {0, 1}
    BY <2>2 DEF Told, One
  <2>6. Course(s)'
    BY <2>2, <2>4, <2>5, CourseAfter
  <2>7. Through(s)' /\ Through(s)
    BY <1>1, <2>2 DEF Through, Beginning, Asking
  <2>8. Asked(s)' >= Asked(s) /\ Asked(s)' \in Int
    BY <1>1, <2>2, <2>7 DEF Asked, One
  <2>9. IpSet(Target[s])' <=> IpSet(Target[s])
    BY <2>1 DEF IpSet
  <2> QED BY <1>1, <2>3, <2>6, <2>7, <2>8, <2>9, OwnMoves
<1> QED BY <1>2, <1>3

(* A move to a place where it asks.                                        *)
LEMMA CourseAsks ==
    ASSUME HolePunchInv, NEW s \in Thread, PairPart(Target[s]), OwnFrame(s),
           th'[s].pc \in {"ask", "asked"}, th'[s].round = 1, th'[s].fails = 0,
           th'[s].try \in {1, 2}, th'[s].try = 2 => OtherThrough(s),
           th'[s].pc = "asked" => IpComing(Target[s])'
    PROVE  Course(s)'
<1> DEFINE p == Target[s]
<1>1. Course(s) /\ Blanks(p) \in Nat
  BY Counts DEF PairPart
<1>2. /\ Blanks(p)' = Blanks(p) /\ One(Handling(p)') = One(Handling(p))
  BY OwnSame
<1>3. /\ Spent(s) \in Nat /\ One(Told(s)) \in {0, 1} /\ One(Handling(p)) \in {0, 1}
  BY NothingSpent DEF One
<1>4. Spent(s)' = 0 /\ One(Told(s)') = 0
  BY DEF Spent, Told, One
<1>5. Blanks(p)' > 0 => Blanks(p)' + Spent(s)' + One(Told(s)') + One(Handling(p)') <= 3
  <2>1. Blanks(p) > 0 => Blanks(p) + Spent(s) + One(Told(s)) + One(Handling(p)) <= 3
    BY <1>1 DEF Course
  <2> QED BY <1>1, <1>2, <1>3, <1>4, <2>1
<1>6. OtherThrough(s) => OtherThrough(s)'
  <2>1. \A v \in Thread \ {s} : Through(v)' = Through(v)
    BY DEF OwnFrame, Others, Through, Beginning, Asking
  <2> QED BY <2>1 DEF OtherThrough
<1> HIDE DEF p
<1> QED BY <1>4, <1>5, <1>6 DEF Course, Asking, p

LEMMA OwnLookup ==
    ASSUME HolePunchInv, StillPart, NEW s \in Thread, PairPart(Target[s]), OwnFrame(s),
           Few(Target[s]), Lookup(s)
    PROVE  PairPart(Target[s])'
<1> DEFINE p == Target[s]
<1>1. th[s].pc = "lookup" /\ net' = net
  BY DEF Lookup
<1>2. Course(s) /\ p \in Provider /\ One(Told(s)) \in {0, 1}
  BY NothingSpent, TargetsProvide DEF PairPart
<1>3. Spent(s) = 0 /\ th[s].round = 1 /\ th[s].fails = 0
  BY <1>1, <1>2, NothingSpent DEF Course
<1>4. ~Through(s) /\ Asked(s) = 0
  BY <1>1, <1>3 DEF Through, Beginning, Asked, One
<1>5. CASE Listed(p)
  <2>1. Goto(s, "fetch") /\ flags' = flags
    BY <1>5 DEF Lookup
  <2>2. th'[s].pc = "fetch" /\ th'[s].round = 1 /\ th'[s].fails = 0
    BY <1>3, <2>1, GoesTo
  <2>3. Spent(s)' = 0 /\ One(Told(s)') = 0
    BY <2>2 DEF Spent, Told, One
  <2>4. Course(s)'
    BY <1>2, <1>3, <2>2, <2>3, CourseAfter
  <2>5. Through(s)'
    BY <2>2 DEF Through, Beginning, Asking
  <2>6. Asked(s)' = 1
    BY <2>2, <2>5 DEF Asked, One
  <2>7. IpSet(p)' <=> IpSet(p)
    BY <2>1 DEF IpSet
  <2> QED BY <1>1, <1>2, <1>4, <2>4, <2>5, <2>6, <2>7, OwnMoves
<1>6. CASE ~Listed(p)
  <2>1. Become(s, [th[s] EXCEPT !.pc = "ask", !.try = 1])
    BY <1>6 DEF Lookup
  <2>2. th'[s].pc = "ask" /\ th'[s].try = 1 /\ th'[s].round = 1 /\ th'[s].fails = 0
    BY <1>3, <2>1, GoesToAsk
  <2>3. Course(s)'
    BY <2>2, CourseAsks
  <2>4. Asked(s)' = 0
    BY <2>2 DEF Asked
  <2>5. ASSUME NEW u \in Thread \ {s}, Target[u] = p, IpSet(p), th[u].pc = "asked"
        PROVE  FALSE
    <3>1. Known(p)
      BY <1>2, <2>5, HolePunchAssumption DEF HolePunchInv, FlagPart, FlagOK, IpSet
    <3>2. ConnAsked(p)
      BY <1>6, <3>1 DEF Known, Replacing, ConnAsked
    <3>3. PICK v \in Thread : Target[v] = p /\ Through(v)
      BY <3>2 DEF PairPart
    <3>4. v # s /\ v # u
      BY <1>4, <2>5, <3>3 DEF Through, Asking
    <3> QED BY <2>5, <3>3, <3>4 DEF Few
  <2> QED BY <1>1, <1>2, <1>4, <2>3, <2>4, <2>5, OwnMoves
<1> QED BY <1>5, <1>6

(* While the thread asks, what has come of inquiries leaves room for one.  *)
LEMMA RoomForOne ==
    ASSUME HolePunchInv, NEW s \in Thread, PairPart(Target[s]), Few(Target[s]),
           th[s].pc = "ask", ~Ready(Target[s])
    PROVE  Load(Target[s]) <= 2
<1> DEFINE p == Target[s]
<1>1. Course(s) /\ ~Through(s) /\ Load(p) \in Nat
  BY Counts DEF PairPart, Through, Asking
<1>2. th[s].try \in {1, 2} /\ (th[s].try = 2 => OtherThrough(s)) /\ Asked(s) = th[s].try - 1
  BY <1>1 DEF Course, Asking, Asked
<1>3. CASE \A u \in Thread : Target[u] = p => u = s
  <2>1. PairLoad(s, s)
    BY DEF PairPart
  <2>2. Load(p) <= Asked(s)
    BY <1>3, <2>1 DEF PairLoad
  <2> QED BY <1>1, <1>2, <2>2
<1>4. ASSUME NEW u \in Thread, Target[u] = p, u # s PROVE Load(p) <= 2
  <2>1. \A v \in Thread : Target[v] = p => v \in {s, u}
    BY <1>4 DEF Few
  <2>2. PairLoad(s, u) /\ Course(u)
    BY <1>4 DEF PairPart
  <2>3. Load(p) <= Asked(s) + Asked(u)
    BY <1>1, <1>4, <2>1, <2>2 DEF PairLoad
  <2>4. th[s].try = 2 => Through(u)
    BY <1>2, <2>1 DEF OtherThrough
  <2>5. Through(u) => Asked(u) = 1
    BY DEF Through, Asking, Asked, One
  <2>6. Asked(u) \in {0, 1, 2}
    BY <2>2 DEF Asked, One, Course, Asking
  <2> QED BY <1>1, <1>2, <2>3, <2>4, <2>5, <2>6
<1> QED BY <1>3, <1>4

LEMMA OwnInquires ==
    ASSUME HolePunchInv, StillPart, NEW s \in Thread, PairPart(Target[s]), OwnFrame(s),
           Few(Target[s]), Send(s), th[s].pc = "ask"
    PROVE  PairPart(Target[s])'
<1> DEFINE p == Target[s]
<1>1. PICK m : m = [kind |-> "getip", to |-> Server, mac |-> p]
  OBVIOUS
<1>2. /\ Sending(s) /\ AfterSend(s) /\ flags' = flags /\ net' = net \cup {m}
      /\ UNCHANGED readerVars
  BY <1>1 DEF Send, Datagram, Destination
<1>3. /\ th'[s].pc = "asked" /\ th'[s].try = th[s].try
      /\ th'[s].round = th[s].round /\ th'[s].fails = th[s].fails
  BY <1>2, GoesAfterSend
<1>4. Course(s) /\ p \in Provider
  BY TargetsProvide DEF PairPart
<1>5. th[s].round = 1 /\ th[s].fails = 0 /\ th[s].try \in {1, 2}
      /\ (th[s].try = 2 => OtherThrough(s))
  BY <1>4, NothingSpent DEF Course, Asking
<1>6. IpComing(p)'
  BY <1>1, <1>2 DEF IpComing
<1>7. Course(s)'
  BY <1>3, <1>5, <1>6, CourseAsks
<1>8. ~Through(s) /\ Asked(s) = th[s].try - 1 /\ Asked(s)' = th[s].try
  BY <1>3 DEF Through, Asking, Asked
<1>9. ConnAsked(p)' => ConnAsked(p)
  BY <1>1, <1>2 DEF ConnAsked, Asks, readerVars
<1>10. Load(p)' <= Load(p) + 1 /\ Load(p) \in Nat /\ Load(p)' \in Nat
  <2>1. /\ Answered(p)' <=> Answered(p)
        /\ Hears(p)' <=> Hears(p)
    BY <1>1, <1>2 DEF Answered, Hears, readerVars
  <2>2. /\ Blanks(p)' = Blanks(p) /\ One(Replacing(p)') = One(Replacing(p))
        /\ One(Answered(p)') = One(Answered(p)) /\ One(Hears(p)') = One(Hears(p))
        /\ One(Replacing(p)) \in {0, 1} /\ One(Answered(p)) \in {0, 1}
        /\ One(Hears(p)) \in {0, 1}
        /\ One(Inquired(p)) \in {0, 1} /\ One(Inquired(p)') \in {0, 1}
    BY <2>1, OwnSame DEF One
  <2>3. Blanks(p) \in Nat
    BY Counts
  <2> QED BY <2>2, <2>3 DEF Load
<1>11. IpSet(p)' <=> IpSet(p)
  BY <1>2 DEF IpSet
<1>12. ~Ready(p) => Load(p)' <= 3 /\ Load(p)' <= Load(p) + Asked(s)' - Asked(s)
  <2>1. ~Ready(p) => Load(p) <= 2
    BY RoomForOne
  <2> QED BY <1>5, <1>8, <1>10, <2>1
<1>13. Asked(s)' \in Int
  BY <1>5, <1>8
<1> QED BY <1>4, <1>7, <1>8, <1>9, <1>11, <1>12, <1>13, OwnKeeps

LEMMA OwnSend ==
    ASSUME HolePunchInv, StillPart, NEW s \in Thread, PairPart(Target[s]), OwnFrame(s),
           Few(Target[s]), Send(s)
    PROVE  PairPart(Target[s])'
<1> DEFINE p == Target[s]
<1>1. /\ Sending(s) /\ AfterSend(s) /\ flags' = flags
      /\ peer' = Destination(s) /\ net' = net \cup Datagram(s, peer')
      /\ opened' = opened \cup Reached(peer')
  BY DEF Send
<1>2. /\ Course(s) /\ p \in Provider /\ Spent(s) \in Nat /\ One(Told(s)) \in {0, 1}
      /\ Home(p) # Server /\ Home(p)[1] = p /\ StillThread(s)
  BY NothingSpent, TargetsProvide, HomeIsAddress DEF PairPart, StillPart
<1>3. IpSet(p)' <=> IpSet(p)
  BY <1>1 DEF IpSet
<1>4. CASE th[s].pc = "data"
  <2>1. net' = net /\ th'[s].pc = "sent" /\ th'[s].round = 1 /\ th'[s].fails = 0
    BY <1>1, <1>4, GoesAfterSend DEF Datagram
  <2>2. Spent(s)' = 0 /\ One(Told(s)') = 0
    BY <2>1 DEF Spent, Told, One
  <2>3. Course(s)'
    BY <1>2, <2>1, <2>2, CourseAfter
  <2>4. Through(s)' /\ Asked(s)' = 1 /\ Asked(s) <= 1
    BY <1>4, <2>1 DEF Through, Beginning, Asking, Asked, One
  <2> QED BY <1>2, <1>3, <2>1, <2>3, <2>4, OwnMoves
<1>5. CASE th[s].pc \in {"direct", "relay"}
  <2>1. PICK m : m = [kind |-> "connect", to |-> peer', mac |-> p]
    OBVIOUS
  <2>2. net' = net \cup {m}
    BY <1>1, <1>5, <2>1 DEF Datagram
  <2>3. /\ th'[s].round = th[s].round /\ th'[s].fails = th[s].fails
        /\ \/ th'[s].pc = "relay" /\ th[s].pc = "direct"
           \/ th'[s].pc = "relayed" /\ th[s].pc = "relay"
    BY <1>1, <1>5, GoesAfterSend
  <2>4. p \in opened'
    <3>1. CASE th[s].pc = "direct"
      BY <1>1, <1>2, <3>1 DEF Destination, Reached, StillThread
    <3>2. CASE th[s].pc = "relay"
      BY <1>1, <1>2, <3>2 DEF Course
    <3> QED BY <1>5, <3>1, <3>2
  <2>5. th'[s].pc = "relayed" => ConnComing(p)'
    <3>1. th'[s].pc = "relayed" => m.to = Server
      BY <1>1, <2>1, <2>3 DEF Destination
    <3> QED BY <2>1, <2>2, <3>1 DEF ConnComing, ConnMsg
  <2>6. Spent(s)' = Spent(s)
    BY <2>3 DEF Spent
  <2>7. One(Told(s)') <= One(Told(s)) /\ One(Told(s)') \in {0, 1}
    <3>1. Told(s)' => Told(s)
      BY <1>1, <2>3, <2>5 DEF Told, ConnSet
    <3> QED BY <3>1 DEF One
  <2>8. Spent(s) < 3 /\ (Spent(s) > 0 => Ready(p))
    BY <1>2, <1>5 DEF Course
  <2>9. Course(s)'
    <3>1. Spent(s)' + One(Told(s)') <= Spent(s) + One(Told(s))
      BY <1>2, <2>6, <2>7
    <3>2. th'[s].pc \in {"relay", "relayed"}
      BY <2>3
    <3> QED BY <1>2, <2>4, <2>5, <2>6, <2>8, <3>1, <3>2, CourseAfter
  <2>10. Through(s)' /\ Asked(s)' = 1 /\ Asked(s) <= 1
    BY <1>5, <2>3 DEF Through, Beginning, Asking, Asked, One
  <2>11. m.kind = "connect"
    BY <2>1
  <2> QED BY <1>2, <1>3, <2>2, <2>9, <2>10, <2>11, OwnMoves
<1>6. CASE th[s].pc = "ask"
  BY <1>6, OwnInquires
<1> QED BY <1>1, <1>4, <1>5, <1>6 DEF Sending

(* A round has come to its end: with the numbers of the program there is   *)
(* another as long as a blank entry can have been the reason.              *)
LEMMA OwnRound ==
    ASSUME HolePunchInv, StillPart, NEW s \in Thread, PairPart(Target[s]), OwnFrame(s),
           EnoughTries, th[s].pc = "relayed", NextRound(s), net' = net,
           One(Told(s)) = 1, Ready(Target[s]), IpSet(Target[s])' <=> IpSet(Target[s])
    PROVE  PairPart(Target[s])'
<1> DEFINE p == Target[s]
<1>1. /\ Course(s) /\ p \in Provider /\ Spent(s) \in Nat /\ One(Told(s)) = 1
  BY NothingSpent, TargetsProvide DEF PairPart
<1>2. /\ th[s].round \in Nat /\ th[s].round >= 1 /\ th[s].round <= MaxRounds
      /\ th[s].fails \in Nat /\ MaxRounds \in Nat /\ MaxRounds >= 2
      /\ MaxSendRetry \in Nat /\ MaxSendRetry >= 1
  BY Counts, Bounds DEF EnoughTries
<1>3. Spent(s) < 3
  BY <1>1 DEF Course
<1>4. /\ th'[s].pc = "check" /\ Spent(s)' \in Nat
      /\ Spent(s)' > 0 /\ Spent(s)' <= Spent(s) + 1
  <2>1. CASE th[s].round < MaxRounds
    <3>1. /\ th'[s].pc = "check" /\ th'[s].round = th[s].round + 1
          /\ th'[s].fails = th[s].fails
      BY <2>1, GoesRound
    <3> QED BY <1>2, <3>1 DEF Spent
  <2>2. CASE ~(th[s].round < MaxRounds)
    <3>1. th[s].fails = 0 /\ Spent(s) >= 1
      BY <1>2, <1>3, <2>2 DEF Spent
    <3>2. th'[s].pc = "check" /\ th'[s].round = 1 /\ th'[s].fails = 1
      BY <1>2, <2>2, <3>1, GoesRound
    <3>3. Spent(s)' = 2
      BY <3>2 DEF Spent
    <3> QED BY <1>1, <3>1, <3>2, <3>3
  <2> QED BY <2>1, <2>2
<1>5. One(Told(s)') = 0
  BY <1>4 DEF Told, One
<1>6. Spent(s)' + One(Told(s)') <= Spent(s) + One(Told(s))
  <2>1. Spent(s) \in Nat /\ One(Told(s)) = 1
    BY <1>1
  <2>2. Spent(s)' \in Nat /\ Spent(s)' <= Spent(s) + 1
    BY <1>4
  <2> QED BY <1>5, <2>1, <2>2
<1>7. Course(s)'
  <2>1. Spent(s)' + One(Told(s)') <= Spent(s) + One(Told(s)) /\ Spent(s)' \in Nat
    BY <1>4, <1>6
  <2>2. /\ th'[s].pc \notin {"gone", "offer", "ask", "asked", "lookup", "fetch", "relay",
                             "relayed"}
        /\ th'[s].pc \in {"check", "data"}
    BY <1>4
  <2> QED BY <2>1, <2>2, CourseAfter
<1>8. Through(s)'
  BY <1>4 DEF Through, Beginning, Asking, Spent
<1>9. Asked(s)' = 1 /\ Asked(s) <= 1
  BY <1>4, <1>8 DEF Asked, One
<1> QED BY <1>1, <1>7, <1>8, <1>9, OwnMoves

LEMMA OwnAnswer ==
    ASSUME HolePunchInv, StillPart, NEW s \in Thread, PairPart(Target[s]), OwnFrame(s),
           Few(Target[s]), EnoughTries, Answer(s)
    PROVE  PairPart(Target[s])'
<1> DEFINE p == Target[s]
<1>1. /\ th[s].pc \in {"asked", "relayed"} /\ Awaited(s) \in flags
      /\ flags' = flags \ {Awaited(s)} /\ net' = net
  BY DEF Answer
<1>2. Course(s) /\ p \in Provider /\ One(Told(s)) \in {0, 1} /\ StillThread(s)
  BY NothingSpent, TargetsProvide DEF PairPart, StillPart
<1>3. CASE th[s].pc = "asked"
  <2>1. Goto(s, "fetch")
    BY <1>3 DEF Answer
  <2>2. Spent(s) = 0 /\ th[s].round = 1 /\ th[s].fails = 0
        /\ th[s].try \in {1, 2} /\ (th[s].try = 2 => OtherThrough(s))
    BY <1>2, <1>3, NothingSpent DEF Course, Asking
  <2>3. th'[s].pc = "fetch" /\ th'[s].round = 1 /\ th'[s].fails = 0
    BY <2>1, <2>2, GoesTo
  <2>4. Spent(s)' = 0 /\ One(Told(s)') = 0
    BY <2>3 DEF Spent, Told, One
  <2>5. Course(s)'
    BY <1>2, <2>2, <2>3, <2>4, CourseAfter
  <2>6. Through(s)' /\ ~Through(s) /\ Asked(s)' = 1 /\ Asked(s) = th[s].try
    BY <1>3, <2>3 DEF Through, Beginning, Asking, Asked, One
  <2>7. ASSUME NEW u \in Thread \ {s}, Target[u] = p, th[u].pc = "asked"
        PROVE  th[u].try = 1
    <3> SUFFICES ASSUME th[u].try # 1 PROVE FALSE
      OBVIOUS
    <3>1. OtherThrough(u)
      BY <2>7 DEF PairPart, Course, Asking
    <3>2. PICK v \in Thread \ {u} : Target[v] = p /\ Through(v)
      BY <2>7, <3>1 DEF OtherThrough
    <3> QED BY <2>6, <2>7, <3>2 DEF Few
  <2> QED BY <1>1, <1>2, <2>2, <2>5, <2>6, <2>7, OwnMoves
<1>4. CASE th[s].pc = "relayed"
  <2>1. Awaited(s) = <<"conn", Home(p)>>
    BY <1>2, <1>4 DEF Awaited, ConnFlag, StillThread
  <2>2. ConnSet(p) /\ One(Told(s)) = 1 /\ Ready(p)
    BY <1>1, <1>4, <2>1 DEF ConnSet, Told, PairPart, One
  <2>3. IpSet(p)' <=> IpSet(p)
    BY <1>1, <2>1 DEF IpSet
  <2> QED BY <1>1, <1>4, <2>2, <2>3, OwnRound DEF Answer
<1> QED BY <1>1, <1>3, <1>4

LEMMA OwnTimeOut ==
    ASSUME HolePunchInv, StillPart, NEW s \in Thread, PairPart(Target[s]), OwnFrame(s),
           EnoughTries, TimeOut(s), Quiet
    PROVE  PairPart(Target[s])'
<1> DEFINE p == Target[s]
<1>1. /\ th[s].pc \in {"asked", "relayed"} /\ Awaited(s) \notin flags
      /\ flags' = flags /\ net' = net /\ NextTry(s)
      /\ (\A m \in net : m.kind = "call") /\ rPc \in {"idle", "call", "called"}
  BY DEF TimeOut, Quiet, Call
<1>2. /\ Course(s) /\ p \in Provider /\ Spent(s) \in Nat /\ One(Told(s)) \in {0, 1}
      /\ StillThread(s)
  BY NothingSpent, TargetsProvide DEF PairPart, StillPart
<1>3. IpSet(p)' <=> IpSet(p)
  BY <1>1 DEF IpSet
<1>4. CASE th[s].pc = "asked"
  <2>1. ~IpComing(p)
    BY <1>1, <1>4 DEF Awaited, IpFlag, IpComing, Answered, Hears, Sets, IpSet
  <2>2. th[s].try = 1 /\ OtherThrough(s) /\ th[s].round = 1 /\ th[s].fails = 0
    BY <1>2, <1>4, <2>1, NothingSpent DEF Course
  <2>3. /\ th'[s].pc = "ask" /\ th'[s].try = 2 /\ th'[s].round = 1 /\ th'[s].fails = 0
    BY <1>1, <1>4, <2>2, GoesOn, Bounds DEF EnoughTries
  <2>4. Course(s)'
    BY <2>2, <2>3, CourseAsks
  <2>5. ~Through(s) /\ Asked(s)' = 1 /\ Asked(s) = 1
    BY <1>4, <2>2, <2>3 DEF Through, Asking, Asked
  <2> QED BY <1>1, <1>2, <1>3, <2>4, <2>5, OwnMoves
<1>5. CASE th[s].pc = "relayed"
  <2>1. ~ConnComing(p)
    BY <1>1, <1>2, <1>5
       DEF Awaited, ConnFlag, StillThread, ConnComing, ConnMsg, Acks, ConnSet
  <2>2. One(Told(s)) = 1 /\ Ready(p) /\ Spent(s) < 3
    BY <1>2, <1>5, <2>1 DEF Told, Course, One
  <2>3. CASE NextRound(s)
    BY <1>1, <1>3, <1>5, <2>2, <2>3, OwnRound
  <2>4. CASE ~NextRound(s)
    <3>1. th'[s].pc = "relay" /\ th'[s].round = th[s].round /\ th'[s].fails = th[s].fails
      BY <1>1, <1>5, <2>4, GoesOn
    <3>2. Spent(s)' = Spent(s)
      BY <3>1 DEF Spent
    <3>3. One(Told(s)') = 0
      BY <1>1, <2>1, <3>1 DEF One, Told, ConnComing, ConnSet
    <3>4. Spent(s)' + One(Told(s)') <= Spent(s) + One(Told(s))
      <4>1. Spent(s) \in Nat /\ One(Told(s)) \in {0, 1}
        BY NothingSpent
      <4> QED BY <3>2, <3>3, <4>1
    <3>5. p \in opened'
      BY <1>2, <1>5 DEF Course, OwnFrame
    <3>6. Course(s)'
      <4>1. Spent(s)' \in Nat /\ Spent(s)' < 3 /\ (Spent(s)' > 0 => Ready(p))
        BY <1>2, <2>2, <3>2
      <4>2. th'[s].pc = "relay"
        BY <3>1
      <4> QED BY <3>4, <3>5, <4>1, <4>2, CourseAfter
    <3>7. Through(s)' /\ Asked(s)' = 1 /\ Asked(s) <= 1
      BY <1>5, <3>1 DEF Through, Beginning, Asking, Asked, One
    <3> QED BY <1>1, <1>2, <1>3, <3>6, <3>7, OwnMoves
  <2> QED BY <2>3, <2>4
<1> QED BY <1>1, <1>4, <1>5

LEMMA OwnStep ==
    ASSUME HolePunchInv, StillPart, Faultless, trouble' = trouble, EnoughTries,
           NEW s \in Thread, PairPart(Target[s]), Few(Target[s]), Step(s)
    PROVE  PairPart(Target[s])'
<1>1. /\ OwnFrame(s) /\ ~SendFails(s) /\ ~(\E m \in net : SendAstray(s, m))
      /\ TimeOut(s) => Quiet
  BY OwnFrames
<1> QED BY <1>1, OwnCheck, OwnConnect, OwnLookup, OwnFetch, OwnSend, OwnAnswer, OwnTimeOut
    DEF Step

-----------------------------------------------------------------------------
(* The invariant holds.                                                    *)

LEMMA StraightStep ==
    ASSUME HolePunchInv, StillPart, Straight, Faultless, trouble' = trouble, Next
    PROVE  Straight'
<1>1. ASSUME \A m \in net' : \/ m \in net
                             \/ m.kind \in {"ipack", "forwarded", "connack", "call"}
      PROVE  Straight'
  BY <1>1 DEF Straight
<1>2. ASSUME NEW t \in Thread, Send(t) PROVE Straight'
  <2>1. /\ net' = net \cup Datagram(t, peer') /\ peer' = Destination(t)
        /\ Sending(t) /\ StillThread(t)
    BY <1>2 DEF Send, StillPart
  <2>2. SUFFICES ASSUME NEW m \in Datagram(t, peer')
                 PROVE  /\ m.kind = "getip" => m.to = Server
                        /\ m.kind = "connect" /\ m.to # Server => m.to = Home(m.mac)
    BY <2>1 DEF Straight
  <2>3. CASE th[t].pc = "data"
    BY <2>2, <2>3 DEF Datagram
  <2>4. CASE th[t].pc = "ask"
    BY <2>1, <2>2, <2>4 DEF Datagram, Destination
  <2>5. CASE th[t].pc = "relay"
    BY <2>1, <2>2, <2>5 DEF Datagram, Destination
  <2>6. CASE th[t].pc = "direct"
    <3>1. peer' = Home(Target[t])
      BY <2>1, <2>6 DEF Destination, StillThread
    <3> QED BY <2>2, <2>6, <3>1 DEF Datagram
  <2> QED BY <2>1, <2>3, <2>4, <2>5, <2>6 DEF Sending
<1>3. ASSUME NEW t \in Thread, Step(t) PROVE Straight'
  <2>1. ~SendFails(t) /\ ~(\E m \in net : SendAstray(t, m))
    BY <1>3, OwnFrames
  <2>2. CASE Check(t) \/ Connect(t) \/ Lookup(t) \/ Fetch(t) \/ Answer(t) \/ TimeOut(t)
    BY <1>1, <2>2 DEF Check, Connect, Lookup, Fetch, Answer, TimeOut
  <2> QED BY <1>2, <1>3, <2>1, <2>2 DEF Step
<1>4. CASE Reader
  BY <1>1, <1>4 DEF Reader, Read, ProcMsgGetUserClientAck, ProcMsgP2PConnectAck, AddPeer,
     SetFlag, TakeCall, AnswerCall
<1>5. CASE World
  <2>1. ASSUME NEW m \in net, ProcGetUserClientIP(m) PROVE Straight'
    BY <1>1, <2>1 DEF ProcGetUserClientIP, Reply
  <2>2. ASSUME NEW m \in net, ProcP2PConnectMsg(m) PROVE Straight'
    BY <1>1, <2>2 DEF ProcP2PConnectMsg, Reply
  <2>3. ASSUME NEW m \in net, Drop(m) \/ Lose(m) PROVE Straight'
    BY <1>1, <2>3 DEF Drop, Lose
  <2>4. ASSUME NEW p \in Provider, NEW m \in net, ProcMsgP2PConnect(p, m) PROVE Straight'
    BY <1>1, <2>4 DEF ProcMsgP2PConnect, Reply
  <2>5. ASSUME NEW p \in Provider, Move(p) \/ Unlist(p) \/ LogIn(p) PROVE Straight'
    BY <1>1, <2>5 DEF Move, Unlist, LogIn
  <2>6. ASSUME NEW p \in Provider, CallClient(p) PROVE Straight'
    BY <1>1, <2>6 DEF CallClient
  <2> QED BY <1>5, <2>1, <2>2, <2>3, <2>4, <2>5, <2>6 DEF World
<1> QED BY <1>3, <1>4, <1>5 DEF Next

LEMMA PairStays ==
    ASSUME UNCHANGED vars, NEW p, PairPart(p)
    PROVE  PairPart(p)'
<1>1. /\ users' = users /\ flags' = flags /\ UNCHANGED readerVars /\ th' = th
      /\ net' = net /\ opened' = opened
  BY DEF vars, routerVars
<1>2. \A q : /\ Blanks(q)' = Blanks(q) /\ (Ready(q)' <=> Ready(q))
             /\ Replacing(q)' <=> Replacing(q)
             /\ Acks(q)' <=> Acks(q)
             /\ Hears(q)' <=> Hears(q)
  BY <1>1, SameList, SameClient
<1>3. \A q : /\ Inquired(q)' <=> Inquired(q)
             /\ Answered(q)' <=> Answered(q)
             /\ ConnSet(q)' <=> ConnSet(q)
             /\ ConnAsked(q)' <=> ConnAsked(q)
  BY <1>1 DEF Inquired, Answered, ConnSet, ConnAsked, Asks, readerVars
<1>4. \A q : /\ IpComing(q)' <=> IpComing(q)
             /\ ConnComing(q)' <=> ConnComing(q)
  BY <1>1, <1>2, <1>3 DEF IpComing, Sets, IpSet, ConnComing, readerVars
<1>5. \A q : Load(q)' = Load(q) /\ One(Handling(q)') = One(Handling(q))
  BY <1>2, <1>3 DEF Load, One, Handling
<1>6. \A t : /\ Spent(t)' = Spent(t) /\ (Asking(t)' <=> Asking(t))
             /\ Through(t)' <=> Through(t)
             /\ Asked(t)' = Asked(t)
  BY <1>1 DEF Spent, Asking, Through, Beginning, Asked, One
<1>7. \A t : One(Told(t)') = One(Told(t)) /\ (OtherThrough(t)' <=> OtherThrough(t))
  BY <1>1, <1>3, <1>4, <1>6 DEF Told, One, OtherThrough
<1>8. \A t : Course(t)' <=> Course(t)
  BY <1>1, <1>2, <1>4, <1>5, <1>6, <1>7 DEF Course
<1>9. \A t, u : PairLoad(t, u)' <=> PairLoad(t, u)
  BY <1>5, <1>6 DEF PairLoad
<1> QED BY <1>2, <1>3, <1>5, <1>6, <1>8, <1>9 DEF PairPart

LEMMA PairInit == Init => PairInv
<1> SUFFICES ASSUME Init PROVE Straight /\ \A p \in Provider : PairPart(p)
  BY DEF PairInv
<1>1. /\ users = <<>> /\ flags = {} /\ net = {} /\ rPc = "idle"
      /\ \A t \in Thread : th[t].pc = "check" /\ th[t].round = 1 /\ th[t].fails = 0
  BY DEF Init
<1> SUFFICES ASSUME NEW p \in Provider PROVE PairPart(p)
  BY <1>1 DEF Straight
<1>2. At(p) = {} /\ Ahead(p) = {} /\ ~Ready(p)
  BY <1>1 DEF At, Ahead, Ready
<1>3. Blanks(p) = 0
  BY <1>2, FS_EmptySet DEF Blanks
<1>4. /\ ~Replacing(p) /\ ~Inquired(p) /\ ~Answered(p) /\ ~Hears(p) /\ ~Acks(p)
      /\ ~ConnSet(p) /\ ~ConnAsked(p) /\ ~Handling(p)
  BY <1>1 DEF Replacing, Inquired, Answered, Hears, Acks, ConnSet, ConnAsked, Handling
<1>5. Load(p) = 0
  BY <1>3, <1>4 DEF Load, One
<1>6. ASSUME NEW t \in Thread
      PROVE  ~Asking(t) /\ ~Through(t) /\ Spent(t) = 0 /\ Asked(t) = 0
  <2>1. ~Asking(t) /\ ~Through(t) /\ th[t].pc = "check"
    BY <1>1 DEF Beginning, Asking, Through
  <2>2. Spent(t) = 0
    BY <1>1 DEF Spent
  <2>3. Asked(t) = 0
    BY <2>1 DEF Asked, One
  <2> QED BY <2>1, <2>2, <2>3
<1>7. \A t \in Thread : Target[t] = p => Course(t)
  BY <1>1, <1>3, <1>6 DEF Course
<1>8. \A t, u \in Thread : Target[t] = p /\ Target[u] = p => PairLoad(t, u)
  BY <1>5, <1>6 DEF PairLoad
<1> QED BY <1>1, <1>4, <1>5, <1>7, <1>8 DEF PairPart

LEMMA PairStep ==
    ASSUME EnoughTries
    PROVE  HolePunchInv /\ AloneInv /\ PairInv /\ [Next]_vars => PairInv'
<1> SUFFICES ASSUME HolePunchInv, AloneInv, PairInv, [Next]_vars, shifts' = 0, Faultless'
             PROVE  Straight' /\ \A p \in Provider : Few(p) => PairPart(p)'
  BY DEF PairInv, Few
<1>1. CASE UNCHANGED vars
  <2>1. shifts = 0 /\ Faultless /\ net' = net
    BY <1>1 DEF vars, worldVars, faultVars, Faultless
  <2> QED BY <1>1, <2>1, PairStays DEF PairInv, Straight
<1>2. CASE Next
  <2>1. HolePunchInv'
    BY HolePunchStep
  <2>2. shifts = 0 /\ Faultless /\ trouble' = trouble /\ muddles = 0
    BY <1>2, Counters DEF Faultless
  <2>3. StillPart /\ Straight /\ \A p \in Provider : Few(p) => PairPart(p)
    BY <2>2 DEF AloneInv, PairInv
  <2>4. Straight'
    BY <1>2, <2>2, <2>3, StraightStep
  <2>5. ASSUME NEW p \in Provider, Few(p), NEW s \in Thread, Step(s), Target[s] = p
      PROVE  PairPart(p)'
    BY <2>2, <2>3, <2>5, OwnStep
  <2>6. ASSUME NEW p \in Provider, Few(p), \A s \in Thread : Step(s) => p # Target[s]
      PROVE  PairPart(p)'
    BY <1>2, <2>1, <2>2, <2>3, <2>6, OthersPass
  <2> QED BY <2>4, <2>5, <2>6
<1> QED BY <1>1, <1>2

-----------------------------------------------------------------------------
(* The theorems.                                                           *)

(* A thread that shares its provider with one other thread at most neither *)
(* gives up on it nor offers the way through the server while no provider  *)
(* moves, unless something went wrong: it gets the address although the    *)
(* other may take the flag it waits on, and it comes to the punched entry  *)
(* although the other's inquiries put blank ones before it.                *)
PairGivesUpOnlyAfterFaults ==
    \A t \in Thread : Few(Target[t]) /\ shifts = 0 /\ th[t].pc \in {"gone", "offer"} =>
        trouble + muddles > 0

LEMMA NobodyGivesUp ==
    HolePunchInv /\ PairInv => PairGivesUpOnlyAfterFaults
<1> SUFFICES ASSUME HolePunchInv, PairInv, NEW t \in Thread, Few(Target[t]), shifts = 0,
                    th[t].pc \in {"gone", "offer"}
             PROVE  trouble + muddles > 0
  BY DEF PairGivesUpOnlyAfterFaults
<1>1. trouble \in Nat /\ muddles \in Nat
  BY DEF HolePunchInv, WorldPart
<1>2. ~Faultless
  <2> SUFFICES ASSUME Faultless PROVE FALSE
    OBVIOUS
  <2>1. PairPart(Target[t])
    BY TargetsProvide DEF PairInv
  <2>2. Course(t)
    BY <2>1 DEF PairPart
  <2> QED BY <2>2 DEF Course
<1> QED BY <1>1, <1>2 DEF Faultless

(* With as many tries as the program's, or more, this holds of every such  *)
(* pair, whatever the other threads do, and however many they are.         *)
THEOREM PairIsServed ==
    ASSUME EnoughTries
    PROVE  Spec => []PairGivesUpOnlyAfterFaults
<1>1. Spec => [](HolePunchInv /\ AloneInv /\ PairInv)
  BY HolePunchInit, HolePunchStep, AloneInit, AloneStep, PairInit, PairStep, PTL DEF Spec
<1> QED BY <1>1, NobodyGivesUp, PTL

(* And so of all threads, where no three share a provider.                 *)
THEOREM PairsGiveUpOnlyAfterFaults ==
    ASSUME EnoughTries, \A p \in Provider : Few(p)
    PROVE  Spec => []GivesUpOnlyAfterFaults
<1>1. PairGivesUpOnlyAfterFaults => GivesUpOnlyAfterFaults
  BY TargetsProvide DEF PairGivesUpOnlyAfterFaults, GivesUpOnlyAfterFaults
<1> QED BY <1>1, PairIsServed, PTL
====
