------------------------- MODULE ResourceIndexProofs -------------------------
(***************************************************************************)
(* Proofs about module ResourceIndex: for any number of drives, files and  *)
(* starts, whatever the scans come across, whether or not registrations    *)
(* fail and wherever the program is ended, the client can find what Redis  *)
(* says it owns.                                                           *)
(***************************************************************************)
EXTENDS ResourceIndex, SequenceTheorems, WellFoundedInduction, TLAPS

Entries(s) == {s[i] : i \in 1..Len(s)}

(* A line is not the empty path, and names a drive and a file. *)
LEMMA LineIsPath ==
    ASSUME NEW line \in Line
    PROVE  line # NoPath /\ line[1] \in Drive /\ line[2] \in File
  BY DEF Line, NoPath

(* What lies in two sequences put together. *)
LEMMA EntriesConcat ==
    ASSUME NEW S, NEW s \in Seq(S), NEW t \in Seq(S)
    PROVE  /\ s \o t \in Seq(S)
           /\ Entries(s \o t) = Entries(s) \cup Entries(t)
<1>1. /\ s \o t \in Seq(S) /\ Len(s \o t) = Len(s) + Len(t)
      /\ Len(s) \in Nat /\ Len(t) \in Nat
      /\ \A i \in 1..Len(s) : (s \o t)[i] = s[i]
      /\ \A i \in 1..Len(t) : (s \o t)[Len(s) + i] = t[i]
  BY ConcatProperties, LenProperties
<1> DEFINE c == s \o t
<1> HIDE DEF c
<1>2. ASSUME NEW i \in 1..Len(c) PROVE c[i] \in Entries(s) \cup Entries(t)
  <2>1. CASE i \in 1..Len(s)
    BY <1>1, <2>1 DEF Entries, c
  <2>2. CASE i \notin 1..Len(s)
    <3>1. i - Len(s) \in 1..Len(t) /\ Len(s) + (i - Len(s)) = i
      BY <1>1, <2>2 DEF c
    <3>2. c[i] = t[i - Len(s)]
      BY <1>1, <3>1 DEF c
    <3> QED BY <3>1, <3>2 DEF Entries
  <2> QED BY <2>1, <2>2
<1>3. ASSUME NEW i \in 1..Len(s) PROVE s[i] \in Entries(c)
  <2>1. i \in 1..Len(c) /\ c[i] = s[i]
    BY <1>1 DEF c
  <2> QED BY <2>1 DEF Entries
<1>4. ASSUME NEW i \in 1..Len(t) PROVE t[i] \in Entries(c)
  <2>1. Len(s) + i \in 1..Len(c) /\ c[Len(s) + i] = t[i]
    BY <1>1 DEF c
  <2> QED BY <2>1 DEF Entries
<1> QED BY <1>1, <1>2, <1>3, <1>4 DEF Entries, c

(* Appending a value adds it. *)
LEMMA EntriesAppend ==
    ASSUME NEW S, NEW s \in Seq(S), NEW e \in S
    PROVE  /\ Append(s, e) \in Seq(S)
           /\ Len(Append(s, e)) = Len(s) + 1
           /\ Entries(Append(s, e)) = Entries(s) \cup {e}
<1>1. /\ Append(s, e) \in Seq(S) /\ Len(Append(s, e)) = Len(s) + 1
      /\ Len(s) \in Nat
      /\ \A i \in 1..Len(s) : Append(s, e)[i] = s[i]
      /\ Append(s, e)[Len(s) + 1] = e
  BY AppendProperties, LenProperties
<1> DEFINE a == Append(s, e)
<1> HIDE DEF a
<1>2. ASSUME NEW i \in 1..Len(a) PROVE a[i] \in Entries(s) \cup {e}
  <2>1. CASE i \in 1..Len(s)
    BY <1>1, <2>1 DEF Entries, a
  <2>2. CASE i \notin 1..Len(s)
    BY <1>1, <2>2 DEF a
  <2> QED BY <2>1, <2>2
<1>3. \A i \in 1..(Len(s) + 1) : i \in 1..Len(a)
  BY <1>1 DEF a
<1>4. \A i \in 1..Len(s) : i \in 1..(Len(s) + 1)
  BY <1>1
<1>5. Len(s) + 1 \in 1..(Len(s) + 1)
  BY <1>1
<1>6. Entries(s) \cup {e} \subseteq Entries(a)
  BY <1>1, <1>3, <1>4, <1>5 DEF Entries, a
<1>7. Entries(a) = Entries(s) \cup {e}
  BY <1>2, <1>6 DEF Entries
<1> QED BY <1>1, <1>7 DEF a

-----------------------------------------------------------------------------
(* What WriteCacheToFile writes: some of the cached lines. Its loop is a   *)
(* recursion over the cache, which exists and stays among the lines        *)
(* because no number of lines is the first for which it would not.         *)

(* One turn of the loop. *)
Turn(g, i, lines) ==
    IF i = 0 THEN <<>>
    ELSE IF lines[i] \notin DOMAIN resource
         THEN Append(g[i - 1], lines[i]) ELSE g[i - 1]

(* The loop over the first n lines. *)
IsLoop(g, n, lines) == g = [i \in 0..n |-> Turn(g, i, lines)]

(* There is such a loop for any number of lines. *)
LEMMA LoopExists ==
    ASSUME NEW lines, NEW n \in Nat
    PROVE  \E g : IsLoop(g, n, lines)
<1> DEFINE Bad == {m \in Nat : ~ \E g : IsLoop(g, m, lines)}
<1>1. SUFFICES ASSUME Bad # {} PROVE FALSE
  OBVIOUS
<1>2. PICK m \in Bad : \A k \in Bad : <<k, m>> \notin OpToRel(<, Nat)
  BY <1>1, NatLessThanWellFounded, WFMin
<1>3. m \in Nat /\ \A k \in Nat : k < m => k \notin Bad
  BY <1>2 DEF OpToRel
<1>4. CASE m = 0
  <2> DEFINE g == [i \in 0..0 |-> <<>>]
  <2>1. \A i \in 0..0 : Turn(g, i, lines) = <<>>
    BY DEF Turn
  <2>2. IsLoop(g, 0, lines)
    BY <2>1 DEF IsLoop
  <2> QED BY <1>2, <1>4, <2>2
<1>5. CASE m # 0
  <2>1. m - 1 \in Nat /\ m - 1 < m
    BY <1>3, <1>5
  <2>2. PICK f : IsLoop(f, m - 1, lines)
    BY <1>3, <2>1
  <2>3. \A i \in 0..(m - 1) : f[i] = Turn(f, i, lines)
    BY <2>2 DEF IsLoop
  <2> DEFINE g == [i \in 0..m |-> IF i = m THEN Turn(f, m, lines) ELSE f[i]]
  <2>4. \A i \in 0..m : i # m => i \in 0..(m - 1)
    BY <1>3
  <2>5. \A i \in 0..m : i # 0 => i - 1 \in 0..m /\ i - 1 # m
    BY <1>3
  <2>6. \A i \in 0..m : i # 0 => g[i - 1] = f[i - 1]
    BY <2>5
  <2>7. \A i \in 0..m : Turn(g, i, lines) = Turn(f, i, lines)
    BY <2>6 DEF Turn
  <2>8. \A i \in 0..m : g[i] = Turn(g, i, lines)
    BY <2>3, <2>4, <2>7
  <2>9. IsLoop(g, m, lines)
    BY <2>8 DEF IsLoop
  <2> QED BY <1>2, <2>9
<1> QED BY <1>4, <1>5

(* What is written are lines of the cache. *)
LEMMA NewLinesAreLines ==
    ASSUME NEW lines \in Seq(Line)
    PROVE  /\ NewLines(lines) \in Seq(Line)
           /\ Entries(NewLines(lines)) \subseteq Entries(lines)
<1> DEFINE n == Len(lines)
           upTo == CHOOSE g : IsLoop(g, n, lines)
           Good(s) == s \in Seq(Line) /\ Entries(s) \subseteq Entries(lines)
           Bad == {i \in 0..n : ~ Good(upTo[i])}
<1>1. n \in Nat /\ \A i \in 1..n : lines[i] \in Line /\ lines[i] \in Entries(lines)
  BY LenProperties, ElementOfSeq DEF Entries
<1>2. IsLoop(upTo, n, lines)
  BY <1>1, LoopExists
<1>3. NewLines(lines) = upTo[n]
  BY DEF NewLines, IsLoop, Turn
<1> HIDE DEF upTo
<1>4. \A i \in 0..n : upTo[i] = Turn(upTo, i, lines)
  BY <1>2 DEF IsLoop
<1>5. ASSUME Bad # {} PROVE FALSE
  <2>1. Bad \subseteq Nat
    BY <1>1
  <2>2. PICK m \in Bad : \A k \in Bad : <<k, m>> \notin OpToRel(<, Nat)
    BY <1>5, <2>1, NatLessThanWellFounded, WFMin
  <2>3. m \in 0..n /\ ~ Good(upTo[m]) /\ upTo[m] = Turn(upTo, m, lines)
    BY <1>4, <2>2
  <2>4. CASE m = 0
    <3>1. upTo[m] = <<>>
      BY <2>3, <2>4 DEF Turn
    <3>2. <<>> \in Seq(Line) /\ Entries(<<>>) = {}
      BY EmptySeq DEF Entries
    <3> QED BY <2>3, <3>1, <3>2
  <2>5. CASE m # 0
    <3>1. m - 1 \in 0..n /\ m - 1 \in Nat /\ m \in Nat /\ m - 1 < m /\ m \in 1..n
      BY <1>1, <2>3, <2>5
    <3>2. Good(upTo[m - 1])
      BY <2>2, <3>1 DEF OpToRel
    <3>3. upTo[m] \in {upTo[m - 1], Append(upTo[m - 1], lines[m])}
      BY <2>3, <2>5 DEF Turn
    <3>4. Good(Append(upTo[m - 1], lines[m]))
      BY <1>1, <3>1, <3>2, EntriesAppend
    <3> QED BY <2>3, <3>2, <3>3, <3>4
  <2> QED BY <2>4, <2>5
<1>6. n \in 0..n
  BY <1>1
<1> QED BY <1>3, <1>5, <1>6

-----------------------------------------------------------------------------
(* Loading the list.                                                       *)

(* Of the lines of a file there is a last one. *)
LEMMA LastLineExists ==
    ASSUME list \in Seq(Line), NEW f \in ListedFiles
    PROVE  \E i \in 1..Len(list) :
              list[i][2] = f /\ \A j \in (i + 1)..Len(list) : list[j][2] # f
<1> DEFINE n == Len(list)
           D == {k \in Nat : n - k \in 1..n /\ list[n - k][2] = f}
<1>1. n \in Nat
  BY LenProperties
<1>2. PICK m \in 1..n : list[m][2] = f
  BY DEF ListedFiles
<1>3. n - m \in D
  <2>1. n - m \in Nat /\ n - (n - m) = m
    BY <1>1
  <2> QED BY <1>2, <2>1
<1>4. PICK k \in D : \A j \in D : <<j, k>> \notin OpToRel(<, Nat)
  BY <1>3, NatLessThanWellFounded, WFMin
<1>5. \A j \in Nat : j < k => j \notin D
  <2>1. k \in Nat
    BY <1>4
  <2> HIDE DEF D
  <2> QED BY <1>4, <2>1 DEF OpToRel
<1>6. ASSUME NEW j \in (n - k + 1)..n PROVE list[j][2] # f
  <2>0. k \in Nat /\ n - k \in 1..n
    BY <1>4
  <2>1. n - j \in Nat /\ n - j < k /\ n - (n - j) = j /\ j \in 1..n
    BY <1>1, <2>0
  <2>2. n - j \notin D
    BY <1>5, <2>1
  <2> QED BY <2>1, <2>2
<1> QED BY <1>4, <1>6

(* What a map holds for a file: a path, or the mark of a look-up.          *)
MapOK(map) ==
    /\ DOMAIN map \in SUBSET File
    /\ map \in [DOMAIN map -> Line \cup {NoPath}]

LEMMA MapType ==
    ASSUME NEW map
    PROVE  map \in ResourceMap <=> MapOK(map)
  BY DEF ResourceMap, MapOK

(* After loading, a listed file has the path of one of its lines, and any  *)
(* other file what it had.                                                 *)
LEMMA Loaded ==
    ASSUME list \in Seq(Line), NEW map \in ResourceMap
    PROVE  LET new == LoadResourceList(map)
           IN  /\ new \in ResourceMap
               /\ DOMAIN new = ListedFiles \cup DOMAIN map
               /\ \A f \in ListedFiles :
                     /\ HasPath(new, f) /\ new[f] \in Entries(list) /\ new[f][2] = f
               /\ \A f \in DOMAIN map \ ListedFiles : new[f] = map[f]
<1> DEFINE new == LoadResourceList(map)
           LastLine(f) == CHOOSE i \in 1..Len(list) :
                             list[i][2] = f /\ \A j \in (i + 1)..Len(list) : list[j][2] # f
<1>1. new = [f \in ListedFiles \cup DOMAIN map |->
               IF f \in ListedFiles THEN list[LastLine(f)] ELSE map[f]]
  BY DEF LoadResourceList, ListedFiles
<1>2. \A f \in ListedFiles : LastLine(f) \in 1..Len(list) /\ list[LastLine(f)][2] = f
  BY LastLineExists
<1> HIDE DEF new, LastLine
<1>3. \A i \in 1..Len(list) : list[i] \in Line /\ list[i] \in Entries(list)
  BY ElementOfSeq DEF Entries
<1>4. DOMAIN new = ListedFiles \cup DOMAIN map
  BY <1>1
<1>5. \A f \in ListedFiles : new[f] = list[LastLine(f)]
  BY <1>1
<1>6. \A f \in ListedFiles :
         new[f] \in Line /\ new[f] \in Entries(list) /\ new[f][2] = f
  BY <1>2, <1>3, <1>5
<1>7. \A f \in ListedFiles : HasPath(new, f)
  BY <1>4, <1>6, LineIsPath DEF HasPath
<1>8. \A f \in DOMAIN map \ ListedFiles : new[f] = map[f]
  BY <1>1
<1>9. new \in ResourceMap
  <2>1. MapOK(map)
    BY MapType
  <2>2. DOMAIN new \in SUBSET File
    BY <1>3, <1>4, <2>1, LineIsPath DEF MapOK, ListedFiles
  <2>3. \A f \in DOMAIN new : new[f] \in Line \cup {NoPath}
    BY <1>4, <1>6, <1>8, <2>1 DEF MapOK
  <2>4. new = [f \in DOMAIN new |-> new[f]]
    BY <1>1
  <2>5. new \in [DOMAIN new -> Line \cup {NoPath}]
    BY <2>3, <2>4
  <2> QED BY <2>2, <2>5, MapType DEF MapOK
<1> QED BY <1>4, <1>6, <1>7, <1>8, <1>9 DEF new

(* The map of a program that just started. *)
LEMMA EmptyMapOK == EmptyMap \in ResourceMap /\ DOMAIN EmptyMap = {}
  BY DEF EmptyMap, ResourceMap

(* A look-up keeps what the map has and adds at most an empty entry.       *)
LEMMA LookedUp ==
    ASSUME TypeOK, NEW f \in File, GetBlocks(f)
    PROVE  /\ resource' \in ResourceMap
           /\ f \in DOMAIN resource => resource' = resource
           /\ f \notin DOMAIN resource => resource'[f] = NoPath
           /\ \A g \in File : HasPath(resource, g) <=> HasPath(resource', g)
           /\ \A g \in File : HasPath(resource, g) => resource'[g] = resource[g]
<1>1. CASE f \in DOMAIN resource
  <2>1. resource' = resource
    BY <1>1 DEF GetBlocks
  <2> QED BY <1>1, <2>1 DEF TypeOK
<1>2. CASE f \notin DOMAIN resource
  <2> DEFINE new == [g \in {f} \cup DOMAIN resource |->
                       IF g = f THEN NoPath ELSE resource[g]]
  <2>1. resource' = new
    BY <1>2 DEF GetBlocks
  <2>2. MapOK(resource)
    BY MapType DEF TypeOK
  <2>3. MapOK(new)
    BY <2>2 DEF MapOK
  <2>4. new \in ResourceMap
    BY <2>3, MapType
  <2>5. \A g \in File : g # f =>
           /\ g \in DOMAIN new <=> g \in DOMAIN resource
           /\ g \in DOMAIN resource => new[g] = resource[g]
    OBVIOUS
  <2>6. new[f] = NoPath
    OBVIOUS
  <2> HIDE DEF new
  <2> QED BY <1>2, <2>1, <2>4, <2>5, <2>6 DEF HasPath
<1> QED BY <1>1, <1>2

-----------------------------------------------------------------------------
(* Type correctness.                                                       *)

(* Every variable has its type at the start. *)
LEMMA InitTypeOK == Init => TypeOK
<1> SUFFICES ASSUME Init PROVE TypeOK
  OBVIOUS
<1>1. list \in Seq(Line) /\ cache \in [Drive -> Seq(Line)]
      /\ \A d \in Drive : Len(cache[d]) <= CacheMax
  BY EmptySeq, ResourceAssumption DEF Init
<1>2. resource \in ResourceMap /\ temp \in ResourceMap
  BY EmptyMapOK DEF Init
<1>3. \A d \in Drive \ scanning : unseen[d] = {} /\ cache[d] = <<>>
  BY DEF Init
<1>4. starts \in 0..MaxStarts /\ changes \in 0..MaxChanges
  BY ResourceAssumption DEF Init
<1> QED BY <1>1, <1>2, <1>3, <1>4 DEF Init, TypeOK

(* A scan caches a line or writes some. *)
LEMMA VisitType ==
    ASSUME TypeOK, NEW d \in Drive, Visit(d)
    PROVE  TypeOK'
<1>1. PICK f \in unseen[d] :
         /\ unseen' = [unseen EXCEPT ![d] = @ \ {f}]
         /\ IF Len(cache[d]) < CacheMax
            THEN /\ cache' = [cache EXCEPT ![d] = Append(@, <<d, f>>)]
                 /\ UNCHANGED list
            ELSE /\ list' = list \o NewLines(cache[d])
                 /\ cache' = [cache EXCEPT ![d] = <<>>]
  BY DEF Visit
<1>2. cache[d] \in Seq(Line) /\ <<d, f>> \in Line /\ Len(cache[d]) \in Nat
  BY LenProperties DEF TypeOK, Line
<1>3. PICK s \in Seq(Line) : Len(s) <= CacheMax /\ cache' = [cache EXCEPT ![d] = s]
  <2>1. CASE Len(cache[d]) < CacheMax
    <3>1. /\ Append(cache[d], <<d, f>>) \in Seq(Line)
          /\ Len(Append(cache[d], <<d, f>>)) <= CacheMax
      BY <1>2, <2>1, EntriesAppend, ResourceAssumption
    <3> QED BY <1>1, <2>1, <3>1
  <2>2. CASE ~(Len(cache[d]) < CacheMax)
    <3>1. <<>> \in Seq(Line) /\ Len(<<>>) <= CacheMax
      BY EmptySeq, ResourceAssumption
    <3> QED BY <1>1, <2>2, <3>1
  <2> QED BY <2>1, <2>2
<1>4. list' \in Seq(Line)
  <2>1. NewLines(cache[d]) \in Seq(Line)
    BY <1>2, NewLinesAreLines
  <2>2. list \in Seq(Line)
    BY DEF TypeOK
  <2>3. list' = list \/ list' = list \o NewLines(cache[d])
    BY <1>1
  <2>4. list \o NewLines(cache[d]) \in Seq(Line)
    BY <2>1, <2>2, EntriesConcat
  <2> QED BY <2>2, <2>3, <2>4
<1>5. /\ cache' \in [Drive -> Seq(Line)]
      /\ \A e \in Drive : Len(cache'[e]) <= CacheMax
  BY <1>3 DEF TypeOK
<1>6. unseen' \in [Drive -> SUBSET File]
  BY <1>1 DEF TypeOK
<1>7. \A e \in Drive \ scanning : unseen'[e] = {} /\ cache'[e] = <<>>
  BY <1>1, <1>3 DEF TypeOK, Visit
<1> QED BY <1>4, <1>5, <1>6, <1>7 DEF TypeOK, Visit

LEMMA ScanEndsType ==
    ASSUME TypeOK, NEW d \in Drive, ScanEnds(d)
    PROVE  TypeOK'
<1>1. list' \in Seq(Line)
  <2>1. cache[d] \in Seq(Line) /\ list \in Seq(Line)
    BY DEF TypeOK
  <2>2. NewLines(cache[d]) \in Seq(Line)
    BY <2>1, NewLinesAreLines
  <2> QED BY <2>1, <2>2, EntriesConcat DEF ScanEnds
<1>2. <<>> \in Seq(Line) /\ Len(<<>>) <= CacheMax
  BY EmptySeq, ResourceAssumption
<1>3. cache' = [cache EXCEPT ![d] = <<>>] /\ unseen' = unseen
      /\ scanning' = scanning \ {d} /\ unseen[d] = {}
  BY DEF ScanEnds
<1>4. /\ cache' \in [Drive -> Seq(Line)]
      /\ \A e \in Drive : Len(cache'[e]) <= CacheMax
      /\ \A e \in Drive \ scanning' : unseen'[e] = {} /\ cache'[e] = <<>>
  BY <1>2, <1>3 DEF TypeOK
<1> QED BY <1>1, <1>3, <1>4 DEF TypeOK, ScanEnds

(* The manager's steps move whole maps. *)
LEMMA ManagerType ==
    ASSUME TypeOK, Manager
    PROVE  TypeOK'
<1>1. CASE Load
  <2>1. resource' \in ResourceMap
    BY <1>1, Loaded DEF TypeOK, Load
  <2> QED BY <1>1, <2>1 DEF TypeOK, Load, stored
<1>2. CASE Reload
  <2>1. temp' \in ResourceMap
    BY <1>2, Loaded DEF TypeOK, Reload
  <2>2. DOMAIN temp' \subseteq File
    BY <2>1, MapType DEF MapOK
  <2> QED BY <1>2, <2>1, <2>2 DEF TypeOK, Reload, stored
<1>3. CASE AddMACToResourceSet
  BY <1>3 DEF TypeOK, AddMACToResourceSet
<1>4. CASE Swap
  BY <1>4 DEF TypeOK, Swap, stored
<1>5. ASSUME NEW f \in File, AddResourceToHashList(f) PROVE TypeOK'
  BY <1>5 DEF TypeOK, AddResourceToHashList
<1> QED BY <1>1, <1>2, <1>3, <1>4, <1>5 DEF Manager

(* Requests, the user, and the start and end of the program. *)
LEMMA OtherType ==
    ASSUME TypeOK,
           \/ Start \/ Stop
           \/ \E f \in File : GetBlocks(f)
           \/ \E d \in Drive, f \in File : AddFile(d, f) \/ RemoveFile(d, f)
    PROVE  TypeOK'
<1>1. CASE Start
  <2>1. starts' \in 0..MaxStarts
    BY <1>1, ResourceAssumption DEF TypeOK, Start
  <2> QED BY <1>1, <2>1 DEF TypeOK, Start, stored, memory
<1>2. CASE Stop
  <2>1. resource' \in ResourceMap /\ temp' \in ResourceMap
    BY <1>2, EmptyMapOK DEF Stop
  <2>2. /\ cache' \in [Drive -> Seq(Line)]
        /\ \A d \in Drive : Len(cache'[d]) <= CacheMax
        /\ unseen' \in [Drive -> SUBSET File]
        /\ \A d \in Drive : unseen'[d] = {} /\ cache'[d] = <<>>
    BY <1>2, EmptySeq, ResourceAssumption DEF Stop
  <2> QED BY <1>2, <2>1, <2>2 DEF TypeOK, Stop, stored
<1>3. ASSUME NEW f \in File, GetBlocks(f) PROVE TypeOK'
  <2>1. resource' \in ResourceMap
    BY <1>3, LookedUp
  <2>2. missing' \subseteq File /\ serving' \subseteq File
    BY <1>3 DEF TypeOK, GetBlocks
  <2>3. UNCHANGED <<stored, phase, temp, unseen, cache, scanning, unchecked,
                    naming, starts, changes>>
    BY <1>3 DEF GetBlocks
  <2> QED BY <2>1, <2>2, <2>3 DEF TypeOK, stored
<1>4. ASSUME NEW d \in Drive, NEW f \in File, AddFile(d, f) PROVE TypeOK'
  <2>1. changes' \in 0..MaxChanges /\ disk' \in [Drive -> SUBSET File]
    BY <1>4, ResourceAssumption DEF TypeOK, AddFile
  <2>2. /\ unseen' \in [Drive -> SUBSET File]
        /\ \A e \in Drive \ scanning : unseen'[e] = {}
    BY <1>4 DEF TypeOK, AddFile
  <2> QED BY <1>4, <2>1, <2>2 DEF TypeOK, AddFile
<1>5. ASSUME NEW d \in Drive, NEW f \in File, RemoveFile(d, f) PROVE TypeOK'
  <2>1. changes' \in 0..MaxChanges /\ disk' \in [Drive -> SUBSET File]
    BY <1>5, ResourceAssumption DEF TypeOK, RemoveFile
  <2>2. /\ unseen' \in [Drive -> SUBSET File]
        /\ \A e \in Drive \ scanning : unseen'[e] = {}
    BY <1>5 DEF TypeOK, RemoveFile
  <2> QED BY <1>5, <2>1, <2>2 DEF TypeOK, RemoveFile
<1> QED BY <1>1, <1>2, <1>3, <1>4, <1>5

(* Every variable keeps its type, for any drives, files and cache size:    *)
(* lists hold lines, maps hold paths, and no cache overflows.              *)
THEOREM IndexTypeCorrect == Spec => []TypeOK
<1>1. TypeOK /\ [Next]_vars => TypeOK'
  <2> SUFFICES ASSUME TypeOK, [Next]_vars PROVE TypeOK'
    OBVIOUS
  <2>1. CASE UNCHANGED vars
    BY <2>1 DEF TypeOK, vars, stored, memory
  <2> QED BY <2>1, VisitType, ScanEndsType, ManagerType, OtherType DEF Next, Scan
<1> QED BY <1>1, InitTypeOK, PTL DEF Spec

-----------------------------------------------------------------------------
(* What Redis knows, the list knew before.                                 *)

(* The list only grows. *)
LEMMA ListGrows ==
    ASSUME TypeOK, [Next]_vars
    PROVE  ListedFiles \subseteq ListedFiles'
<1>1. ASSUME NEW s \in Seq(Line), list' = list \o s
      PROVE  ListedFiles \subseteq ListedFiles'
  <2>1. Entries(list) \subseteq Entries(list')
    BY <1>1, EntriesConcat DEF TypeOK
  <2> QED BY <2>1 DEF ListedFiles, Entries
<1>2. ASSUME NEW d \in Drive, Scan(d)
      PROVE  \/ list' = list
             \/ list' = list \o NewLines(cache[d])
  BY <1>2 DEF Scan, Visit, ScanEnds
<1>3. \A d \in Drive : NewLines(cache[d]) \in Seq(Line)
  BY NewLinesAreLines DEF TypeOK
<1>4. CASE list' = list
  BY <1>4 DEF ListedFiles
<1>5. CASE \A d \in Drive : ~Scan(d)
  BY <1>4, <1>5 DEF Next, vars, stored, Start, Stop, Manager, Load, Reload,
     AddMACToResourceSet, Swap, AddResourceToHashList, GetBlocks, AddFile,
     RemoveFile
<1> QED BY <1>1, <1>2, <1>3, <1>4, <1>5

(* The files that are, or are about to be, offered. *)
Offered == owned \cup naming \cup unchecked

(* The order of writing: a file is in the list before it is registered,    *)
(* and in the new map, which is built beside the old one, from the second  *)
(* loading on; after the first loading and after the swap the old map has  *)
(* all that was registered.                                                *)
KnownInv ==
    /\ Offered \subseteq ListedFiles
    /\ phase \in {"down", "load", "scan"} => temp = EmptyMap
    /\ phase = "register" => \A f \in Offered : HasPath(temp, f)
    /\ phase \in {"scan", "idle"} => \A f \in owned : HasPath(resource, f)

(* Nothing is offered but what was, is about to be registered, or has just *)
(* been loaded from the list.                                              *)
LEMMA OfferedGrows ==
    ASSUME TypeOK, [Next]_vars
    PROVE  \/ Offered' \subseteq Offered
           \/ Reload
<1>1. ASSUME NEW d \in Drive, Scan(d) PROVE Offered' = Offered
  BY <1>1 DEF Scan, Visit, ScanEnds, Offered
<1>2. ASSUME NEW f \in File, AddResourceToHashList(f) PROVE Offered' \subseteq Offered
  BY <1>2 DEF AddResourceToHashList, Offered
<1>3. CASE AddMACToResourceSet
  BY <1>3 DEF AddMACToResourceSet, Offered
<1>4. CASE Stop
  BY <1>4 DEF Stop, stored, Offered
<1>5. CASE Start \/ Load \/ Swap \/ UNCHANGED vars
  BY <1>5 DEF Start, Load, Swap, vars, stored, memory, Offered
<1>6. ASSUME NEW f \in File, GetBlocks(f) PROVE Offered' = Offered
  BY <1>6 DEF GetBlocks, stored, Offered
<1>7. ASSUME NEW d \in Drive, NEW f \in File, AddFile(d, f) \/ RemoveFile(d, f)
      PROVE  Offered' = Offered
  BY <1>7 DEF AddFile, RemoveFile, Offered
<1> QED BY <1>1, <1>2, <1>3, <1>4, <1>5, <1>6, <1>7 DEF Next, Manager

(* What a step that touches neither map nor phase leaves as it was. *)
LEMMA KnownFrame ==
    ASSUME KnownInv, Offered' \subseteq Offered, ListedFiles \subseteq ListedFiles',
           phase \in {"register"} \/ owned' = owned,
           UNCHANGED <<phase, temp, resource>>
    PROVE  KnownInv'
  BY DEF KnownInv, HasPath, Offered

LEMMA StepKnown ==
    ASSUME TypeOK, KnownInv, [Next]_vars
    PROVE  KnownInv'
<1>0. ListedFiles \subseteq ListedFiles' /\ (Offered' \subseteq Offered \/ Reload)
  BY ListGrows, OfferedGrows
<1>1. CASE Load
  <2>1. /\ resource' = LoadResourceList(resource) /\ phase' = "scan"
        /\ temp = EmptyMap /\ UNCHANGED <<owned, temp, naming, unchecked, list>>
    BY <1>1 DEF Load, stored, KnownInv
  <2>2. \A f \in ListedFiles : HasPath(LoadResourceList(resource), f)
    BY Loaded DEF TypeOK
  <2>3. \A f \in owned : HasPath(resource', f)
    BY <2>1, <2>2 DEF KnownInv, Offered
  <2>4. Offered' \subseteq ListedFiles'
    BY <2>1, <1>0 DEF KnownInv, Offered
  <2> QED BY <2>1, <2>3, <2>4 DEF KnownInv
<1>2. CASE Reload
  <2>1. /\ temp' = LoadResourceList(temp) /\ phase' = "register"
        /\ temp = EmptyMap /\ unchecked' = DOMAIN temp'
        /\ UNCHANGED <<owned, naming, list>>
    BY <1>2 DEF Reload, stored, KnownInv
  <2>2. DOMAIN temp' = ListedFiles /\ \A f \in ListedFiles : HasPath(temp', f)
    BY <2>1, Loaded, EmptyMapOK DEF TypeOK
  <2>3. Offered' \subseteq ListedFiles /\ ListedFiles' = ListedFiles
    BY <2>1, <2>2 DEF KnownInv, Offered, ListedFiles
  <2> QED BY <2>1, <2>2, <2>3 DEF KnownInv
<1>3. CASE Swap
  <2>1. /\ resource' = temp /\ phase = "register" /\ phase' = "idle"
        /\ UNCHANGED owned
    BY <1>3 DEF Swap, stored
  <2>2. ~Reload
    BY <2>1 DEF Reload
  <2>3. \A f \in owned : HasPath(temp, f)
    BY <2>1 DEF KnownInv, Offered
  <2>4. Offered' \subseteq ListedFiles'
    BY <1>0, <2>2 DEF KnownInv
  <2> QED BY <2>1, <2>3, <2>4 DEF KnownInv
<1>4. CASE AddMACToResourceSet
  <2>1. phase = "register" /\ UNCHANGED <<phase, temp, resource>> /\ ~Reload
    BY <1>4 DEF AddMACToResourceSet, Reload
  <2> QED BY <1>0, <2>1, KnownFrame
<1>5. ASSUME NEW f \in File, AddResourceToHashList(f) PROVE KnownInv'
  <2>1. phase = "register" /\ UNCHANGED <<phase, temp, resource>> /\ ~Reload
    BY <1>5 DEF AddResourceToHashList, Reload
  <2> QED BY <1>0, <2>1, KnownFrame
<1>6. CASE Start
  <2>1. /\ phase = "down" /\ phase' = "load" /\ ~Reload
        /\ UNCHANGED <<owned, temp>>
    BY <1>6 DEF Start, Reload, stored, memory
  <2> QED BY <1>0, <2>1 DEF KnownInv
<1>7. CASE Stop
  <2>1. phase' = "down" /\ temp' = EmptyMap
    BY <1>7 DEF Stop
  <2>2. Offered' \subseteq Offered
    BY <1>7 DEF Stop, stored, Offered
  <2> QED BY <1>0, <2>1, <2>2 DEF KnownInv
<1>8. ASSUME NEW d \in Drive, Scan(d) PROVE KnownInv'
  <2>1. UNCHANGED <<phase, temp, resource, owned, unchecked, naming>>
    BY <1>8 DEF Scan, Visit, ScanEnds
  <2>2. Offered' = Offered
    BY <2>1 DEF Offered
  <2> QED BY <1>0, <2>1, <2>2, KnownFrame
<1>9. ASSUME NEW d \in Drive, NEW f \in File, AddFile(d, f) \/ RemoveFile(d, f)
      PROVE  KnownInv'
  <2>1. UNCHANGED <<phase, temp, resource, owned, unchecked, naming>>
    BY <1>9 DEF AddFile, RemoveFile
  <2>2. Offered' = Offered
    BY <2>1 DEF Offered
  <2> QED BY <1>0, <2>1, <2>2, KnownFrame
<1>10. ASSUME NEW f \in File, GetBlocks(f) PROVE KnownInv'
  <2>1. UNCHANGED <<phase, temp, owned, unchecked, naming>>
    BY <1>10 DEF GetBlocks, stored
  <2>2. Offered' = Offered
    BY <2>1 DEF Offered
  <2>3. \A g \in File : HasPath(resource, g) => HasPath(resource', g)
    BY <1>10, LookedUp
  <2>4. owned \subseteq File
    BY DEF TypeOK
  <2>5. \A g : HasPath(temp, g) => HasPath(temp', g)
    BY <2>1
  <2> QED BY <1>0, <2>1, <2>2, <2>3, <2>4, <2>5 DEF KnownInv
<1>11. CASE UNCHANGED vars
  <2>1. UNCHANGED <<phase, temp, resource, owned, unchecked, naming>>
    BY <1>11 DEF vars, stored, memory
  <2>2. Offered' = Offered
    BY <2>1 DEF Offered
  <2> QED BY <1>0, <2>1, <2>2, KnownFrame
<1> QED BY <1>1, <1>2, <1>3, <1>4, <1>5, <1>6, <1>7, <1>8, <1>9, <1>10, <1>11
        DEF Next, Manager

(* What was registered is in the list, and the maps have it in time.       *)
LEMMA KnownAlways == Spec => []KnownInv
<1>1. Init => KnownInv
  BY DEF Init, KnownInv, Offered
<1> QED BY <1>1, StepKnown, IndexTypeCorrect, PTL DEF Spec

(* Whenever the list is loaded, the client finds a path of every file that *)
(* Redis names it as an owner of: over any number of starts, with failing  *)
(* registrations, and wherever in its work the program is ended.           *)
THEOREM WhatIsOfferedIsKnown == Spec => []OfferedIsKnown
<1>1. KnownInv => OfferedIsKnown
  BY DEF KnownInv, OfferedIsKnown, Offered
<1> QED BY <1>1, KnownAlways, PTL

-----------------------------------------------------------------------------
(* As long as the user leaves the files alone, the index tells the truth.  *)

(* A line whose file is on its drive. *)
TrueLine(line) == line[2] \in disk[line[1]]

(* A map whose paths lead to their files. *)
TrueMap(map) == \A f \in File : HasPath(map, f) => f \in disk[map[f][1]]

(* All lines, written or cached, and all paths are true. *)
TruthInv ==
    changes = 0 =>
      /\ \A line \in Entries(list) : TrueLine(line)
      /\ \A d \in Drive : \A line \in Entries(cache[d]) : TrueLine(line)
      /\ \A d \in Drive : unseen[d] \subseteq disk[d]
      /\ TrueMap(resource) /\ TrueMap(temp)

(* Loading a true list into a true map makes a true map. *)
LEMMA LoadedTrue ==
    ASSUME TypeOK, NEW map \in ResourceMap, TrueMap(map),
           \A line \in Entries(list) : TrueLine(line)
    PROVE  TrueMap(LoadResourceList(map))
<1> DEFINE new == LoadResourceList(map)
<1>1. /\ DOMAIN new = ListedFiles \cup DOMAIN map
      /\ \A f \in ListedFiles : new[f] \in Entries(list) /\ new[f][2] = f
      /\ \A f \in DOMAIN map \ ListedFiles : new[f] = map[f]
  BY Loaded DEF TypeOK
<1> HIDE DEF new
<1>2. SUFFICES ASSUME NEW f \in File, HasPath(new, f)
               PROVE  f \in disk[new[f][1]]
  BY DEF TrueMap, new
<1>3. CASE f \in ListedFiles
  BY <1>1, <1>3 DEF TrueLine
<1>4. CASE f \notin ListedFiles
  <2>1. f \in DOMAIN map /\ new[f] = map[f]
    BY <1>1, <1>2, <1>4 DEF HasPath
  <2> QED BY <1>2, <2>1 DEF HasPath, TrueMap
<1> QED BY <1>3, <1>4

LEMMA ScanTrue ==
    ASSUME TypeOK, TruthInv, NEW d \in Drive, Scan(d)
    PROVE  TruthInv'
<1>0. UNCHANGED <<disk, changes, resource, temp>>
  BY DEF Scan, Visit, ScanEnds
<1> SUFFICES ASSUME changes = 0 PROVE TruthInv'
  BY <1>0 DEF TruthInv
<1>1. /\ cache \in [Drive -> Seq(Line)] /\ list \in Seq(Line)
      /\ unseen \in [Drive -> SUBSET File] /\ unseen[d] \subseteq disk[d]
  BY DEF TypeOK, TruthInv
<1>2. /\ NewLines(cache[d]) \in Seq(Line)
      /\ Entries(NewLines(cache[d])) \subseteq Entries(cache[d])
  BY <1>1, NewLinesAreLines
<1>3. list' = list \/ list' = list \o NewLines(cache[d])
  BY DEF Scan, Visit, ScanEnds
<1>4. Entries(list') \subseteq Entries(list) \cup Entries(cache[d])
  <2>1. list \in Seq(Line)
    BY <1>1
  <2>2. Entries(list \o NewLines(cache[d])) =
            Entries(list) \cup Entries(NewLines(cache[d]))
    BY <1>2, <2>1, EntriesConcat
  <2> QED BY <1>2, <1>3, <2>2
<1>5. \/ \E f \in unseen[d] : \/ cache' = [cache EXCEPT ![d] = Append(@, <<d, f>>)]
                              \/ cache' = [cache EXCEPT ![d] = <<>>]
      \/ cache' = [cache EXCEPT ![d] = <<>>]
  BY DEF Scan, Visit, ScanEnds
<1>7. ASSUME NEW e \in Drive, NEW line \in Entries(cache'[e]) PROVE TrueLine(line)
  <2>1. CASE e # d
    BY <1>1, <1>5, <1>7, <2>1 DEF TruthInv
  <2>2. CASE e = d
    <3>1. ASSUME NEW f \in unseen[d], cache' = [cache EXCEPT ![d] = Append(@, <<d, f>>)]
          PROVE  TrueLine(line)
      <4>1. <<d, f>> \in Line
        BY <1>1 DEF Line
      <4>2. Entries(cache'[d]) = Entries(cache[d]) \cup {<<d, f>>}
        <5>1. cache[d] \in Seq(Line) /\ cache'[d] = Append(cache[d], <<d, f>>)
          BY <1>1, <3>1
        <5>2. Entries(Append(cache[d], <<d, f>>)) =
                  Entries(cache[d]) \cup {<<d, f>>}
          BY <4>1, <5>1, EntriesAppend
        <5> QED BY <5>1, <5>2
      <4>3. TrueLine(<<d, f>>)
        BY <1>1 DEF TrueLine
      <4> QED BY <1>7, <2>2, <4>2, <4>3 DEF TruthInv
    <3>2. CASE cache' = [cache EXCEPT ![d] = <<>>]
      <4>1. Entries(cache'[d]) = {}
        BY <1>1, <3>2 DEF Entries
      <4> QED BY <1>7, <2>2, <4>1
    <3> QED BY <1>5, <3>1, <3>2
  <2> QED BY <2>1, <2>2
<1>8. unseen' = [unseen EXCEPT ![d] = unseen'[d]] /\ unseen'[d] \subseteq unseen[d]
  BY <1>1 DEF Scan, Visit, ScanEnds
<1>9. \A e \in Drive : unseen'[e] \subseteq disk[e]
  BY <1>1, <1>8 DEF TruthInv
<1>10. \A line \in Entries(list') : TrueLine(line)
  BY <1>4 DEF TruthInv
<1>11. TrueMap(resource) /\ TrueMap(temp)
  BY DEF TruthInv
<1> QED BY <1>0, <1>7, <1>9, <1>10, <1>11 DEF TruthInv, TrueLine, TrueMap

LEMMA StepTruth ==
    ASSUME TypeOK, TruthInv, [Next]_vars
    PROVE  TruthInv'
<1>1. ASSUME NEW d \in Drive, Scan(d) PROVE TruthInv'
  BY <1>1, ScanTrue
<1>2. ASSUME UNCHANGED <<disk, list, cache, changes>>,
             \A d \in Drive : unseen'[d] = disk[d] \/ unseen'[d] \subseteq unseen[d],
             TruthInv => TrueMap(resource') \/ changes # 0,
             TruthInv => TrueMap(temp') \/ changes # 0
      PROVE  TruthInv'
  BY <1>2 DEF TruthInv, TrueLine, TrueMap
<1>3. CASE Load
  BY <1>2, <1>3, LoadedTrue DEF Load, stored, TypeOK, TruthInv
<1>4. CASE Reload
  BY <1>2, <1>4, LoadedTrue DEF Reload, stored, TypeOK, TruthInv
<1>5. CASE Swap \/ AddMACToResourceSet \/ Start \/ UNCHANGED vars
  BY <1>2, <1>5 DEF Swap, AddMACToResourceSet, Start, vars, stored, memory,
     TruthInv
<1>6. ASSUME NEW f \in File, AddResourceToHashList(f) PROVE TruthInv'
  BY <1>2, <1>6 DEF AddResourceToHashList, TruthInv
<1>7. CASE Stop
  <2>1. TrueMap(EmptyMap)
    BY EmptyMapOK DEF TrueMap, HasPath
  <2>2. /\ resource' = EmptyMap /\ temp' = EmptyMap
        /\ \A d \in Drive : unseen'[d] = {} /\ cache'[d] = <<>>
        /\ UNCHANGED <<disk, list, changes>>
    BY <1>7 DEF Stop, stored
  <2> QED BY <2>1, <2>2 DEF TruthInv, TrueLine, TrueMap, Entries
<1>8. ASSUME NEW f \in File, GetBlocks(f) PROVE TruthInv'
  <2>1. \A g \in File : /\ HasPath(resource, g) <=> HasPath(resource', g)
                        /\ HasPath(resource, g) => resource'[g] = resource[g]
    BY <1>8, LookedUp
  <2>2. TrueMap(resource) => TrueMap(resource')
    BY <2>1 DEF TrueMap
  <2> QED BY <1>2, <1>8, <2>2 DEF GetBlocks, stored, TruthInv
<1>9. ASSUME NEW d \in Drive, NEW f \in File, AddFile(d, f) \/ RemoveFile(d, f)
      PROVE  TruthInv'
  <2>1. changes' # 0
    BY <1>9 DEF AddFile, RemoveFile, TypeOK
  <2> QED BY <2>1 DEF TruthInv
<1> QED BY <1>1, <1>3, <1>4, <1>5, <1>6, <1>7, <1>8, <1>9 DEF Next, Manager

(* Lines and paths are true until the user changes something.              *)
LEMMA TruthAlways == Spec => []TruthInv
<1>1. Init => TruthInv
  BY EmptyMapOK DEF Init, TruthInv, Entries, TrueMap, HasPath
<1> QED BY <1>1, StepTruth, IndexTypeCorrect, PTL DEF Spec

(* A file that is there is flagged as missing only before the list is      *)
(* loaded, or between the second loading and the swap, unless the user     *)
(* moves files about: for any drives, files, starts and failures.          *)
THEOREM FlagsOnlyInGaps == Spec => FlaggedInGap
<1>1. TypeOK /\ KnownInv /\ TruthInv /\ [Next]_vars
        => [\A f \in missing' \ missing :
              (\E d \in Drive : f \in disk[d])
                  => phase \in {"load", "register"} \/ changes > 0]_vars
  <2> SUFFICES ASSUME TypeOK, KnownInv, TruthInv, [Next]_vars,
                      NEW f \in missing' \ missing,
                      phase \notin {"load", "register"}, ~(changes > 0)
               PROVE  FALSE
    OBVIOUS
  <2>1. changes = 0
    BY DEF TypeOK
  <2>2. ASSUME NEW g \in File, GetBlocks(g) PROVE FALSE
    <3>1. f = g /\ g \in owned /\ phase \in {"scan", "idle"}
      BY <2>2 DEF GetBlocks, TypeOK
    <3>2. HasPath(resource, g)
      BY <3>1 DEF KnownInv
    <3>3. g \in disk[resource[g][1]] /\ resource[g] # NoPath
      BY <2>1, <3>2 DEF TruthInv, TrueMap, HasPath
    <3>4. resource' = resource
      BY <2>2, <3>2, LookedUp DEF HasPath
    <3> QED BY <2>2, <3>3, <3>4 DEF GetBlocks
  <2>3. ~ \E g \in File : GetBlocks(g)
    BY <2>2
  <2>4. missing' \subseteq missing
    BY <2>3 DEF Next, vars, memory, Start, Stop, Manager, Load, Reload, Swap,
       AddMACToResourceSet, AddResourceToHashList, Scan, Visit, ScanEnds,
       AddFile, RemoveFile
  <2> QED BY <2>4
<1> QED BY <1>1, IndexTypeCorrect, KnownAlways, TruthAlways, PTL
        DEF Spec, FlaggedInGap

=============================================================================
