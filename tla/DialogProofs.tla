---------------------------- MODULE DialogProofs ----------------------------
(***************************************************************************)
(* Proofs about module Dialog: the flag of the searches, the rows progress *)
(* is shown in, the map of downloads and what the list shows, for every    *)
(* number of searches, downloads and messages.                             *)
(***************************************************************************)
EXTENDS Dialog, FiniteSetTheorems, SequenceTheorems, WellFoundedInduction, TLAPS

-----------------------------------------------------------------------------
(* The inductive invariant.                                                *)

Thread == [pc : {"unused", "started", "ready", "asking", "showing", "ended",
                 "failed"},
           word : Word \cup {None}, left : SUBSET Resource]

Asking(s) == th[s].pc \in {"asking", "showing"}

(* A thread that has read the word has one; the flag is up for a thread    *)
(* that asks or shows; and only an overlap makes two threads.              *)
SearchPart ==
    /\ searching \in BOOLEAN /\ keyword \in Word \cup {None}
    /\ overlaps \in Nat
    /\ th \in [Search -> Thread]
    /\ \A s \in Search : /\ th[s].left # {} => th[s].pc = "showing"
                         /\ th[s].pc = "started" => keyword \in Word
                         /\ th[s].pc = "ready" \/ Asking(s) => th[s].word \in Word
    /\ searching => \E s \in Search : Asking(s)
    /\ overlaps = 0 => /\ \A s, r \in UnderWay : s = r
                       /\ \A s \in Search : Asking(s) => searching

(* Every row's file is in the map, and the map leads to a row of the file. *)
Leads(f) == /\ f \in DOMAIN itemOf
            /\ itemOf[f] \in 1..Len(rows) /\ FileOf(rows[itemOf[f]]) = f

RowPart ==
    /\ rows \in Seq(Row)
    /\ DOMAIN itemOf \subseteq File
    /\ \A f \in DOMAIN itemOf : itemOf[f] \in Nat \ {0}
    /\ \A i \in 1..Len(rows) : Leads(FileOf(rows[i]))

DL == [file : File, held : BOOLEAN, rcv : BOOLEAN]

(* What may still delete a download under its file's name.                 *)
Lives(d) ==
    \/ dl[d].held \/ dl[d].rcv
    \/ \E i \in 1..Len(uiQ) : uiQ[i].by = d /\ uiQ[i].kind # "progress"

DownloadPart ==
    /\ dl \in Seq(DL) /\ Len(dl) <= MaxDownloads
    /\ downloads \in [File -> {0} \cup 1..Len(dl)]
    /\ early \in Nat
    /\ \A f \in File : downloads[f] # 0 => /\ dl[downloads[f]].held
                                           /\ dl[downloads[f]].file = f
    /\ uiQ \in Seq(Posted)
    /\ \A i \in 1..Len(uiQ) : /\ uiQ[i].by \in 1..Len(dl)
                              /\ uiQ[i].file = dl[uiQ[i].by].file
    /\ early = 0 => \A d, e \in 1..Len(dl) :
                       Lives(d) /\ Lives(e) /\ dl[d].file = dl[e].file => d = e

DialogInv == SearchPart /\ RowPart /\ DownloadPart

LEMMA Framed ==
    /\ SearchPart /\ UNCHANGED searchVars => SearchPart'
    /\ RowPart /\ UNCHANGED <<rows, itemOf>> => RowPart'
    /\ DownloadPart /\ UNCHANGED <<downloadVars, uiQ>> => DownloadPart'
<1>1. SearchPart /\ UNCHANGED searchVars => SearchPart'
  BY DEF SearchPart, searchVars, UnderWay, Asking
<1>2. RowPart /\ UNCHANGED <<rows, itemOf>> => RowPart'
  BY DEF RowPart, Leads
<1>3. DownloadPart /\ UNCHANGED <<downloadVars, uiQ>> => DownloadPart'
  BY DEF DownloadPart, Lives, downloadVars
<1> QED BY <1>1, <1>2, <1>3

LEMMA InitDialog == Init => DialogInv
<1> SUFFICES ASSUME Init PROVE DialogInv
  OBVIOUS
<1>1. SearchPart
  <2>1. \A s \in Search : /\ th[s] = [pc |-> "unused", word |-> None, left |-> {}]
                          /\ th[s].pc = "unused" /\ th[s].left = {}
    BY DEF Init
  <2>2. th \in [Search -> Thread]
    BY DEF Init, Thread
  <2> QED BY <2>1, <2>2 DEF Init, SearchPart, UnderWay, Asking
<1>2. RowPart
  BY EmptySeq DEF Init, RowPart
<1>3. DownloadPart
  BY EmptySeq, DialogAssumption DEF Init, DownloadPart, Lives
<1> QED BY <1>1, <1>2, <1>3 DEF DialogInv

-----------------------------------------------------------------------------
(* Searches.                                                               *)

(* The next thread is the first that is not used yet.                      *)
LEMMA NextIsUnused ==
    ASSUME Unused # {}
    PROVE  NextSearch \in Unused /\ \A r \in Unused : NextSearch <= r
<1>1. Unused \subseteq Nat
  BY DialogAssumption DEF Unused, Search
<1>2. PICK s \in Unused : \A r \in Unused : <<r, s>> \notin OpToRel(<, Nat)
  BY <1>1, NatLessThanWellFounded, WFMin
<1>3. \A r \in Unused : ~(r < s)
  BY <1>1, <1>2 DEF OpToRel
<1>4. \A r \in Unused : s <= r
  BY <1>1, <1>3
<1> QED BY <1>4 DEF NextSearch

(* A click empties the rows and starts a thread. *)
LEMMA ClickStep ==
    ASSUME DialogInv, NEW w \in Word, OnBnClickedButtonSearch(w)
    PROVE  DialogInv'
<1>1. DownloadPart'
  BY Framed DEF OnBnClickedButtonSearch, DialogInv
<1>2. RowPart'
  BY EmptySeq DEF OnBnClickedButtonSearch, DialogInv, RowPart
<1>3. SearchPart'
  <2> DEFINE n == NextSearch
  <2>1. n \in Search /\ th[n].pc = "unused"
    BY NextIsUnused DEF OnBnClickedButtonSearch, Unused
  <2> HIDE DEF n
  <2>2. /\ th' = [th EXCEPT ![n].pc = "started"]
        /\ ~searching /\ searching' = searching /\ keyword' = w
        /\ overlaps' = IF UnderWay = {} THEN overlaps ELSE overlaps + 1
    BY DEF OnBnClickedButtonSearch, n
  <2>3. /\ th' \in [Search -> Thread]
        /\ \A s \in Search : th'[s].left = th[s].left
        /\ \A s \in Search : th'[s].pc = IF s = n THEN "started" ELSE th[s].pc
    BY <2>1, <2>2 DEF DialogInv, SearchPart, Thread
  <2>4. overlaps' \in Nat /\ (overlaps' = 0 => overlaps = 0 /\ UnderWay = {})
    BY <2>2 DEF DialogInv, SearchPart
  <2>5. UnderWay' \subseteq UnderWay \cup {n}
    BY <2>3 DEF UnderWay
  <2>6. \A s \in Search : /\ th'[s].left # {} => th'[s].pc = "showing"
                          /\ th'[s].pc = "started" => keyword' \in Word
                          /\ th'[s].pc = "ready" \/ Asking(s)' => th'[s].word \in Word
    <3>1. \A s \in Search \ {n} : th'[s] = th[s]
      BY <2>1, <2>2 DEF DialogInv, SearchPart
    <3> QED BY <2>1, <2>2, <2>3, <3>1 DEF DialogInv, SearchPart, Asking
  <2>7. overlaps' = 0 => \A s \in Search : ~Asking(s)'
    BY <2>3, <2>4 DEF UnderWay, Asking
  <2> QED BY <2>2, <2>3, <2>4, <2>5, <2>6, <2>7 DEF DialogInv, SearchPart
<1> QED BY <1>1, <1>2, <1>3 DEF DialogInv

(* What a thread may do to itself, and to the flag. *)
LEMMA ThreadMoves ==
    ASSUME SearchPart, NEW s \in Search, NEW t \in Thread,
           th' = [th EXCEPT ![s] = t],
           UNCHANGED <<keyword, overlaps>>,
           t.left # {} => t.pc = "showing", t.word \in Word, t.pc # "started",
           s \in UnderWay,
           \/ searching' = TRUE /\ t.pc \in {"asking", "showing"}
           \/ searching' = FALSE /\ t.pc \in {"ended", "failed"}
           \/ searching' = searching /\ t.pc = "ready" /\ ~Asking(s)
           \/ searching' = searching /\ t.pc = "showing" /\ Asking(s)
    PROVE  SearchPart'
<1>1. /\ th' \in [Search -> Thread]
      /\ th'[s] = t /\ \A r \in Search \ {s} : th'[r] = th[r]
  BY DEF SearchPart
<1>2. searching' \in BOOLEAN /\ keyword' \in Word \cup {None} /\ overlaps' \in Nat
  BY DEF SearchPart
<1>3. \A r \in Search : /\ th'[r].left # {} => th'[r].pc = "showing"
                        /\ th'[r].pc = "started" => keyword' \in Word
                        /\ th'[r].pc = "ready" \/ Asking(r)' => th'[r].word \in Word
  BY <1>1 DEF SearchPart, Asking
<1>4. searching' => \E r \in Search : Asking(r)'
  BY <1>1 DEF SearchPart, Asking
<1>5. UnderWay' \subseteq UnderWay
  BY <1>1 DEF UnderWay
<1>6. overlaps' = 0 => \A r \in Search : Asking(r)' => searching'
  <2> SUFFICES ASSUME overlaps = 0, NEW r \in Search, Asking(r)'
               PROVE  searching'
    OBVIOUS
  <2>1. r \in UnderWay'
    BY DEF Asking, UnderWay
  <2>2. r = s
    BY <2>1, <1>5 DEF SearchPart
  <2>3. t.pc \in {"asking", "showing"}
    BY <2>2, <1>1 DEF Asking
  <2>4. Asking(s) => searching
    BY DEF SearchPart
  <2> QED BY <2>3, <2>4
<1> QED BY <1>1, <1>2, <1>3, <1>4, <1>5, <1>6 DEF SearchPart

LEMMA SearchStepKeeps ==
    ASSUME DialogInv, NEW s \in Search, SearchStep(s)
    PROVE  DialogInv'
<1>1. DownloadPart'
  BY Framed DEF DialogInv, SearchStep, ReadKeyword, SetSearching, FindResource,
     FindResourceFails, UpdateSearchResult, EndSearch
<1>2. /\ th[s] \in Thread /\ th \in [Search -> Thread]
      /\ th[s].pc = "started" => keyword \in Word
      /\ th[s].pc = "ready" \/ Asking(s) => th[s].word \in Word
  BY DEF DialogInv, SearchPart
<1>3. CASE ReadKeyword(s)
  <2> DEFINE t == [th[s] EXCEPT !.pc = "ready", !.word = keyword]
  <2>1. t \in Thread /\ t.pc = "ready" /\ t.left = {} /\ t.word \in Word
    BY <1>2, <1>3 DEF ReadKeyword, Thread, DialogInv, SearchPart
  <2>2. th' = [th EXCEPT ![s] = t]
    BY <1>2, <1>3 DEF ReadKeyword, Thread
  <2>3. s \in UnderWay /\ ~Asking(s) /\ UNCHANGED <<searching, keyword, overlaps>>
    BY <1>3 DEF ReadKeyword, UnderWay, Asking
  <2> HIDE DEF t
  <2>4. SearchPart'
    BY <2>1, <2>2, <2>3, ThreadMoves DEF DialogInv
  <2>5. RowPart'
    BY <1>3, Framed DEF DialogInv, ReadKeyword
  <2> QED BY <1>1, <2>4, <2>5 DEF DialogInv
<1>4. CASE SetSearching(s)
  <2> DEFINE t == [th[s] EXCEPT !.pc = "asking"]
  <2>1. t \in Thread /\ t.pc = "asking" /\ t.left = {} /\ t.word \in Word
    BY <1>2, <1>4 DEF SetSearching, Thread, DialogInv, SearchPart
  <2>2. th' = [th EXCEPT ![s] = t]
    BY <1>2, <1>4 DEF SetSearching, Thread
  <2>3. s \in UnderWay /\ searching' = TRUE /\ UNCHANGED <<keyword, overlaps>>
    BY <1>4 DEF SetSearching, UnderWay
  <2> HIDE DEF t
  <2>4. SearchPart'
    BY <2>1, <2>2, <2>3, ThreadMoves DEF DialogInv
  <2>5. RowPart'
    BY <1>4, Framed DEF DialogInv, SetSearching
  <2> QED BY <1>1, <2>4, <2>5 DEF DialogInv
<1>5. CASE FindResource(s)
  <2> DEFINE t == [th[s] EXCEPT !.pc = "showing", !.left = Matches[th[s].word]]
  <2>1. th[s].word \in Word /\ Matches[th[s].word] \subseteq Resource
    BY <1>2, <1>5, DialogAssumption DEF FindResource, Asking
  <2>2. t \in Thread /\ t.pc = "showing" /\ t.word \in Word
    BY <1>2, <1>5, <2>1 DEF Thread
  <2>3. th' = [th EXCEPT ![s] = t]
    BY <1>2, <1>5 DEF FindResource, Thread
  <2>4. /\ s \in UnderWay /\ Asking(s)
        /\ UNCHANGED <<searching, keyword, overlaps>>
    BY <1>5 DEF FindResource, UnderWay, Asking
  <2> HIDE DEF t
  <2>5. SearchPart'
    BY <2>2, <2>3, <2>4, ThreadMoves DEF DialogInv
  <2>6. RowPart'
    BY <1>5, Framed DEF DialogInv, FindResource
  <2> QED BY <1>1, <2>5, <2>6 DEF DialogInv
<1>6. CASE FindResourceFails(s) \/ EndSearch(s)
  <2>1. PICK q \in {"ended", "failed"} : th' = [th EXCEPT ![s].pc = q]
    BY <1>6 DEF FindResourceFails, EndSearch
  <2> DEFINE t == [th[s] EXCEPT !.pc = q]
  <2>2. th[s].left = {}
    BY <1>6 DEF FindResourceFails, EndSearch, DialogInv, SearchPart
  <2>3. t \in Thread /\ t.pc = q /\ t.left = {} /\ t.word \in Word
    BY <1>2, <1>6, <2>2 DEF FindResourceFails, EndSearch, Asking, Thread
  <2>4. th' = [th EXCEPT ![s] = t]
    BY <1>2, <2>1 DEF Thread
  <2>5. s \in UnderWay /\ searching' = FALSE /\ UNCHANGED <<keyword, overlaps>>
    BY <1>6 DEF FindResourceFails, EndSearch, UnderWay
  <2> HIDE DEF t
  <2>6. SearchPart'
    BY <2>3, <2>4, <2>5, ThreadMoves DEF DialogInv
  <2>7. RowPart'
    BY <1>6, Framed DEF DialogInv, FindResourceFails, EndSearch
  <2> QED BY <1>1, <2>6, <2>7 DEF DialogInv
<1>7. CASE UpdateSearchResult(s)
  <2>1. PICK r \in th[s].left :
           /\ th' = [th EXCEPT ![s].left = @ \ {r}]
           /\ rows' = Append(rows, [resource |-> r, progress |-> None])
           /\ Remember(MD5[r], Len(rows) + 1)
    BY <1>7 DEF UpdateSearchResult
  <2> DEFINE t == [th[s] EXCEPT !.left = @ \ {r}]
             row == [resource |-> r, progress |-> None]
             f == MD5[r]
  <2>2. t \in Thread /\ t.pc = "showing" /\ r \in Resource /\ t.word \in Word
    BY <1>2, <1>7 DEF UpdateSearchResult, Asking, Thread
  <2>3. th' = [th EXCEPT ![s] = t]
    BY <1>2, <2>1 DEF Thread
  <2>4. /\ s \in UnderWay /\ Asking(s)
        /\ UNCHANGED <<searching, keyword, overlaps>>
    BY <1>7 DEF UpdateSearchResult, UnderWay, Asking
  <2>5. SearchPart'
    <3> HIDE DEF t
    <3> QED BY <2>2, <2>3, <2>4, ThreadMoves DEF DialogInv
  <2>6. RowPart'
    <3>1. /\ rows \in Seq(Row) /\ row \in Row /\ FileOf(row) = f
          /\ f \in File /\ Remember(f, Len(rows) + 1)
      BY <2>1, <2>2, DialogAssumption DEF DialogInv, RowPart, Row, FileOf
    <3> HIDE DEF row, f
    <3>2. /\ rows' \in Seq(Row) /\ Len(rows) \in Nat /\ Len(rows') = Len(rows) + 1
          /\ \A i \in 1..Len(rows) : rows'[i] = rows[i]
          /\ FileOf(rows'[Len(rows) + 1]) = f
      BY <2>1, <3>1, AppendProperties, LenProperties DEF row, FileOf
    <3>3. /\ DOMAIN itemOf' = DOMAIN itemOf \cup {f}
          /\ itemOf'[f] = Len(rows) + 1
          /\ \A g \in DOMAIN itemOf \ {f} : itemOf'[g] = itemOf[g]
      BY <3>1 DEF Remember
    <3>4. ASSUME NEW i \in 1..Len(rows'), NEW g, g = FileOf(rows'[i])
          PROVE  Leads(g)'
      <4>1. CASE g = f
        BY <3>2, <3>3, <4>1 DEF Leads
      <4>2. CASE g # f
        <5>1. i \in 1..Len(rows) /\ g = FileOf(rows[i])
          BY <3>2, <3>4, <4>2 DEF FileOf
        <5>2. Leads(g)
          BY <5>1 DEF DialogInv, RowPart
        <5> QED BY <3>2, <3>3, <4>2, <5>2 DEF Leads
      <4> QED BY <4>1, <4>2
    <3>5. \A g \in DOMAIN itemOf' : g \in File /\ itemOf'[g] \in Nat \ {0}
      BY <3>1, <3>2, <3>3 DEF DialogInv, RowPart
    <3> QED BY <3>2, <3>4, <3>5 DEF RowPart
  <2> QED BY <1>1, <2>5, <2>6 DEF DialogInv
<1> QED BY <1>3, <1>4, <1>5, <1>6, <1>7 DEF SearchStep

-----------------------------------------------------------------------------
(* Downloads.                                                              *)

(* A message behind the others, and the first one taken off. *)
LEMMA Posting ==
    ASSUME NEW q \in Seq(Posted), NEW m \in Posted
    PROVE  /\ Append(q, m) \in Seq(Posted)
           /\ Len(q) \in Nat /\ Len(Append(q, m)) = Len(q) + 1
           /\ \A i \in 1..Len(q) : Append(q, m)[i] = q[i]
           /\ Append(q, m)[Len(q) + 1] = m
  BY AppendProperties, LenProperties

LEMMA Taking ==
    ASSUME NEW q \in Seq(Posted), q # <<>>
    PROVE  /\ Tail(q) \in Seq(Posted) /\ Len(q) \in Nat /\ Len(q) > 0
           /\ Len(Tail(q)) = Len(q) - 1 /\ Head(q) = q[1]
           /\ \A i \in 1..Len(Tail(q)) : Tail(q)[i] = q[i + 1]
  BY HeadTailProperties, LenProperties, EmptySeq

(* Steps that start nothing: what lives did so before. *)
LEMMA NothingNew ==
    ASSUME DownloadPart,
           dl' \in Seq(DL), Len(dl') = Len(dl),
           \A d \in 1..Len(dl) : /\ dl'[d].file = dl[d].file
                                 /\ Lives(d)' => Lives(d),
           downloads' \in [File -> {0} \cup 1..Len(dl)],
           \A f \in File : downloads'[f] # 0 => /\ dl'[downloads'[f]].held
                                                /\ downloads'[f] = downloads[f],
           early' = early, uiQ' \in Seq(Posted),
           \A i \in 1..Len(uiQ') : /\ uiQ'[i].by \in 1..Len(dl)
                                   /\ uiQ'[i].file = dl[uiQ'[i].by].file
    PROVE  DownloadPart'
<1>1. \A f \in File : downloads'[f] # 0 => dl'[downloads'[f]].file = f
  <2> SUFFICES ASSUME NEW f \in File, downloads'[f] # 0
               PROVE  dl'[downloads'[f]].file = f
    OBVIOUS
  <2>1. downloads[f] \in 1..Len(dl) /\ downloads'[f] = downloads[f]
    BY DEF DownloadPart
  <2> QED BY <2>1 DEF DownloadPart
<1>2. ASSUME early' = 0, NEW d \in 1..Len(dl), NEW e \in 1..Len(dl),
             Lives(d)', Lives(e)', dl'[d].file = dl'[e].file
      PROVE  d = e
  BY <1>2 DEF DownloadPart
<1> QED BY <1>1, <1>2 DEF DownloadPart

LEMMA DoubleClickStep ==
    ASSUME DialogInv, NEW i \in 1..Len(rows), OnNMDblclkListResource(i)
    PROVE  DialogInv'
<1> DEFINE f == FileOf(rows[i])
           n == Len(dl) + 1
           new == [file |-> f, held |-> TRUE, rcv |-> TRUE]
<1>1. SearchPart' /\ RowPart'
  BY Framed DEF DialogInv, OnNMDblclkListResource
<1>2. f \in File
  <2>1. rows[i] \in Row
    BY ElementOfSeq DEF DialogInv, RowPart
  <2> QED BY <2>1, DialogAssumption DEF Row, FileOf
<1>3. new \in DL /\ new.file = f /\ new.held /\ new.rcv
  BY <1>2 DEF DL
<1>4. /\ dl' = Append(dl, new) /\ downloads' = [downloads EXCEPT ![f] = n]
      /\ early' = (IF Lingers(f) THEN early + 1 ELSE early)
      /\ uiQ' = uiQ /\ Len(dl) < MaxDownloads
  BY DEF OnNMDblclkListResource
<1> HIDE DEF f, new
<1>5. /\ dl \in Seq(DL) /\ Len(dl) \in Nat /\ dl' \in Seq(DL) /\ Len(dl') = n
      /\ \A d \in 1..Len(dl) : dl'[d] = dl[d]
      /\ dl'[n] = new
  BY <1>3, <1>4, AppendProperties, LenProperties DEF DialogInv, DownloadPart
<1>6. downloads' \in [File -> {0} \cup 1..Len(dl')]
  <2>1. n \in {0} \cup 1..Len(dl')
    BY <1>5
  <2>2. downloads \in [File -> {0} \cup 1..Len(dl')]
    BY <1>5 DEF DialogInv, DownloadPart
  <2> HIDE DEF n
  <2> QED BY <1>4, <2>1, <2>2
<1>7. \A g \in File : downloads'[g] # 0 => /\ dl'[downloads'[g]].held
                                           /\ dl'[downloads'[g]].file = g
  <2> SUFFICES ASSUME NEW g \in File, downloads'[g] # 0
               PROVE  dl'[downloads'[g]].held /\ dl'[downloads'[g]].file = g
    OBVIOUS
  <2>1. CASE g = f
    BY <1>2, <1>3, <1>4, <1>5, <2>1 DEF DialogInv, DownloadPart
  <2>2. CASE g # f
    <3>1. downloads'[g] = downloads[g] /\ downloads[g] \in 1..Len(dl)
      BY <1>4, <2>2 DEF DialogInv, DownloadPart
    <3> QED BY <1>5, <3>1 DEF DialogInv, DownloadPart
  <2> QED BY <2>1, <2>2
<1>8. /\ uiQ' \in Seq(Posted)
      /\ \A j \in 1..Len(uiQ') : /\ uiQ'[j].by \in 1..Len(dl')
                                  /\ uiQ'[j].file = dl'[uiQ'[j].by].file
      /\ \A j \in 1..Len(uiQ) : uiQ[j].by \in 1..Len(dl)
                                 /\ uiQ[j].file = dl[uiQ[j].by].file
  BY <1>4, <1>5 DEF DialogInv, DownloadPart
<1>9. ASSUME early' = 0, NEW d \in 1..Len(dl'), NEW e \in 1..Len(dl'),
             Lives(d)', Lives(e)', dl'[d].file = dl'[e].file
      PROVE  d = e
  <2>1. early = 0 /\ ~Lingers(f)
    BY <1>4, <1>9 DEF DialogInv, DownloadPart
  <2>2. \A x \in 1..Len(dl) : Lives(x)' => Lives(x)
    BY <1>4, <1>5 DEF Lives
  <2>3. \A x \in 1..Len(dl) : Lives(x) => dl[x].file # f
    <3> SUFFICES ASSUME NEW x \in 1..Len(dl), Lives(x), dl[x].file = f
                 PROVE  FALSE
      OBVIOUS
    <3>1. DOMAIN dl = 1..Len(dl)
      BY LenProperties DEF DialogInv, DownloadPart
    <3>2. CASE dl[x].held \/ dl[x].rcv
      BY <2>1, <3>1, <3>2 DEF Lingers
    <3>3. CASE \E j \in 1..Len(uiQ) : uiQ[j].by = x /\ uiQ[j].kind # "progress"
      BY <1>8, <2>1, <3>3 DEF Lingers
    <3> QED BY <3>2, <3>3 DEF Lives
  <2>4. CASE d \in 1..Len(dl) /\ e \in 1..Len(dl)
    <3>1. Lives(d) /\ Lives(e) /\ dl[d].file = dl[e].file
      BY <1>5, <1>9, <2>2, <2>4
    <3> QED BY <2>1, <2>4, <3>1 DEF DialogInv, DownloadPart
  <2>5. CASE d = n /\ e \in 1..Len(dl)
    BY <1>3, <1>5, <1>9, <2>2, <2>3, <2>5
  <2>6. CASE e = n /\ d \in 1..Len(dl)
    BY <1>3, <1>5, <1>9, <2>2, <2>3, <2>6
  <2>7. CASE d = n /\ e = n
    BY <2>7
  <2> QED BY <1>5, <2>4, <2>5, <2>6, <2>7
<1>10. early' \in Nat /\ Len(dl') <= MaxDownloads
  BY <1>4, <1>5, DialogAssumption DEF DialogInv, DownloadPart
<1>11. DownloadPart'
  BY <1>5, <1>6, <1>7, <1>8, <1>9, <1>10 DEF DownloadPart
<1> QED BY <1>1, <1>11 DEF DialogInv

(* An object of a download that says less than before. *)
LEMMA Ends ==
    ASSUME DownloadPart, NEW k \in 1..Len(dl), NEW x \in DL,
           x.file = dl[k].file, x.held => dl[k].held, x.rcv => dl[k].rcv,
           dl' = [dl EXCEPT ![k] = x]
    PROVE  /\ dl' \in Seq(DL) /\ Len(dl') = Len(dl) /\ dl'[k] = x
           /\ \A d \in 1..Len(dl) : /\ d # k => dl'[d] = dl[d]
                                    /\ dl'[d].file = dl[d].file
                                    /\ dl'[d].held => dl[d].held
                                    /\ dl'[d].rcv => dl[d].rcv
<1>1. dl \in Seq(DL)
  BY DEF DownloadPart
<1>2. /\ dl' \in Seq(DL) /\ Len(dl') = Len(dl)
      /\ \A d \in 1..Len(dl) : dl'[d] = IF d = k THEN x ELSE dl[d]
  BY <1>1, ExceptSeq
<1> QED BY <1>2

(* Messages posted by a download that lives. *)
LEMMA PostStep ==
    ASSUME DialogInv, NEW k \in DOMAIN dl,
           PostProgress(k) \/ PostFinished(k) \/ PostAbort(k)
    PROVE  DialogInv'
<1>1. SearchPart' /\ RowPart'
  BY Framed DEF DialogInv, PostProgress, PostFinished, PostAbort, Post
<1>2. DownloadPart /\ dl \in Seq(DL) /\ DOMAIN dl = 1..Len(dl)
      /\ Len(dl) <= MaxDownloads /\ Len(dl) \in Nat
  BY LenProperties DEF DialogInv, DownloadPart
<1>3. k \in 1..Len(dl) /\ dl[k] \in DL
  BY <1>2, ElementOfSeq
<1>4. PICK kind \in {"progress", "finished", "abort"} :
         /\ uiQ' = Append(uiQ, [kind |-> kind, file |-> dl[k].file, by |-> k])
         /\ kind # "progress" => dl[k].held \/ dl[k].rcv
  BY DEF PostProgress, PostFinished, PostAbort, Post
<1> DEFINE m == [kind |-> kind, file |-> dl[k].file, by |-> k]
<1>5. m \in Posted /\ m.kind = kind /\ m.file = dl[k].file /\ m.by = k
  BY <1>2, <1>3, DialogAssumption DEF Posted, DL, Download
<1> HIDE DEF m
<1>6. /\ uiQ' \in Seq(Posted) /\ Len(uiQ) \in Nat /\ Len(uiQ') = Len(uiQ) + 1
      /\ \A i \in 1..Len(uiQ) : uiQ'[i] = uiQ[i]
      /\ uiQ'[Len(uiQ) + 1] = m
  <2>1. uiQ' = Append(uiQ, m) /\ uiQ \in Seq(Posted)
    BY <1>2, <1>4 DEF m, DownloadPart
  <2> QED BY <1>5, <2>1, Posting
<1>7. /\ dl' \in Seq(DL) /\ Len(dl') = Len(dl)
      /\ \A d \in 1..Len(dl) : /\ dl'[d].file = dl[d].file
                               /\ dl'[d].held = dl[d].held
                               /\ dl'[d].rcv => dl[d].rcv
  <2>1. CASE dl' = dl
    BY <1>2, <2>1
  <2>2. CASE PostFinished(k)
    <3> DEFINE x == [dl[k] EXCEPT !.rcv = FALSE]
    <3>1. x \in DL /\ x.file = dl[k].file /\ x.held = dl[k].held /\ x.rcv = FALSE
      BY <1>3 DEF DL
    <3>2. dl' = [dl EXCEPT ![k] = x]
      BY <2>2 DEF PostFinished
    <3> HIDE DEF x
    <3>3. /\ dl' \in Seq(DL) /\ Len(dl') = Len(dl) /\ dl'[k] = x
          /\ \A d \in 1..Len(dl) : /\ d # k => dl'[d] = dl[d]
                                   /\ dl'[d].file = dl[d].file
                                   /\ dl'[d].rcv => dl[d].rcv
      BY <1>2, <1>3, <3>1, <3>2, Ends
    <3> QED BY <3>1, <3>3
  <2> QED BY <2>1, <2>2 DEF PostProgress, PostAbort, downloadVars
<1>8. UNCHANGED <<downloads, early>>
  BY DEF PostProgress, PostFinished, PostAbort, downloadVars
<1>9. ASSUME NEW d \in 1..Len(dl), Lives(d)' PROVE Lives(d)
  <2>1. CASE dl'[d].held \/ dl'[d].rcv
    BY <1>7, <2>1 DEF Lives
  <2>2. CASE \E i \in 1..Len(uiQ') : uiQ'[i].by = d /\ uiQ'[i].kind # "progress"
    <3>1. PICK i \in 1..Len(uiQ') : uiQ'[i].by = d /\ uiQ'[i].kind # "progress"
      BY <2>2
    <3>2. CASE i \in 1..Len(uiQ)
      BY <1>6, <3>1, <3>2 DEF Lives
    <3>3. CASE i = Len(uiQ) + 1
      BY <1>4, <1>5, <1>6, <3>1, <3>3 DEF Lives
    <3> QED BY <1>6, <3>1, <3>2, <3>3
  <2> QED BY <1>9, <2>1, <2>2 DEF Lives
<1>10. \A i \in 1..Len(uiQ') : /\ uiQ'[i].by \in 1..Len(dl)
                               /\ uiQ'[i].file = dl[uiQ'[i].by].file
  <2>1. \A i \in 1..Len(uiQ) : /\ uiQ[i].by \in 1..Len(dl)
                               /\ uiQ[i].file = dl[uiQ[i].by].file
    BY <1>2 DEF DownloadPart
  <2> QED BY <1>3, <1>5, <1>6, <2>1
<1>11. \A f \in File : downloads[f] # 0 => downloads[f] \in 1..Len(dl)
                                           /\ dl[downloads[f]].held
  BY <1>2 DEF DownloadPart
<1>12. DownloadPart'
  <2>1. downloads' \in [File -> {0} \cup 1..Len(dl)]
    BY <1>2, <1>8 DEF DownloadPart
  <2>2. \A f \in File : downloads'[f] # 0 => /\ dl'[downloads'[f]].held
                                             /\ downloads'[f] = downloads[f]
    BY <1>7, <1>8, <1>11
  <2> QED BY <1>2, <1>6, <1>7, <1>8, <1>9, <1>10, <2>1, <2>2, NothingNew
<1> QED BY <1>1, <1>12 DEF DialogInv

(* The first message is of a download under its file's name. *)
LEMMA First ==
    ASSUME DownloadPart, uiQ # <<>>
    PROVE  /\ FirstMsg \in Posted /\ FirstMsg.by \in 1..Len(dl)
           /\ FirstMsg.file = dl[FirstMsg.by].file /\ FirstMsg.file \in File
           /\ FirstMsg.kind # "progress" => Lives(FirstMsg.by)
<1>1. uiQ \in Seq(Posted) /\ FirstMsg = uiQ[1] /\ 1 \in 1..Len(uiQ)
  BY Taking DEF DownloadPart, FirstMsg
<1>2. uiQ[1] \in Posted
  BY <1>1, ElementOfSeq
<1> QED BY <1>1, <1>2 DEF DownloadPart, Lives, Posted

(* What deleting the download of a file does. *)
LEMMA Deleting ==
    ASSUME DownloadPart, NEW f \in File, Delete(f) \/ UNCHANGED <<downloads, dl>>
    PROVE  /\ dl' \in Seq(DL) /\ Len(dl') = Len(dl)
           /\ \A d \in 1..Len(dl) : /\ dl'[d].file = dl[d].file
                                    /\ dl'[d].held => dl[d].held
                                    /\ dl'[d].rcv => dl[d].rcv
                                    /\ dl[d].held /\ ~dl'[d].held => dl[d].file = f
           /\ downloads' \in [File -> {0} \cup 1..Len(dl)]
           /\ \A g \in File : downloads'[g] # 0 => /\ dl'[downloads'[g]].held
                                                   /\ downloads'[g] = downloads[g]
<1>1. /\ dl \in Seq(DL) /\ downloads \in [File -> {0} \cup 1..Len(dl)]
      /\ \A g \in File : downloads[g] # 0 => /\ downloads[g] \in 1..Len(dl)
                                              /\ dl[downloads[g]].held
                                              /\ dl[downloads[g]].file = g
  BY DEF DownloadPart
<1>2. CASE UNCHANGED <<downloads, dl>>
  BY <1>1, <1>2
<1>3. CASE Delete(f) /\ downloads[f] # 0
  <2> DEFINE k == downloads[f]
             x == [dl[k] EXCEPT !.held = FALSE]
  <2>1. k \in 1..Len(dl) /\ dl[k] \in DL /\ dl[k].file = f
    BY <1>1, <1>3, ElementOfSeq
  <2>2. x \in DL /\ x.file = dl[k].file /\ x.held = FALSE /\ x.rcv = dl[k].rcv
    BY <2>1 DEF DL
  <2>3. dl' = [dl EXCEPT ![k] = x] /\ downloads' = [downloads EXCEPT ![f] = 0]
    BY <1>3 DEF Delete
  <2> HIDE DEF x
  <2>4. /\ dl' \in Seq(DL) /\ Len(dl') = Len(dl) /\ dl'[k] = x
        /\ \A d \in 1..Len(dl) : /\ d # k => dl'[d] = dl[d]
                                 /\ dl'[d].file = dl[d].file
                                 /\ dl'[d].held => dl[d].held
                                 /\ dl'[d].rcv => dl[d].rcv
    <3> HIDE DEF k
    <3> QED BY <2>1, <2>2, <2>3, Ends
  <2>5. downloads' \in [File -> {0} \cup 1..Len(dl)]
    BY <1>1, <2>3
  <2>6. ASSUME NEW g \in File, downloads'[g] # 0
        PROVE  dl'[downloads'[g]].held /\ downloads'[g] = downloads[g]
    <3>1. g # f /\ downloads'[g] = downloads[g]
      BY <1>1, <2>3, <2>6
    <3>2. downloads[g] \in 1..Len(dl) /\ dl[downloads[g]].held /\ downloads[g] # k
      BY <1>1, <2>1, <2>6, <3>1
    <3> QED BY <2>4, <3>1, <3>2
  <2> QED BY <2>1, <2>4, <2>5, <2>6
<1> QED BY <1>2, <1>3 DEF Delete

(* Messages handled. *)
LEMMA MessageStep ==
    ASSUME DialogInv, UpdateDownloadProgress \/ DownloadFinished \/ DownloadAbort
    PROVE  DialogInv'
<1>1. SearchPart'
  BY Framed DEF DialogInv, UpdateDownloadProgress, DownloadFinished, DownloadAbort
<1>2. DownloadPart /\ uiQ \in Seq(Posted) /\ uiQ # <<>> /\ uiQ' = Tail(uiQ)
      /\ early' = early
  BY DEF DialogInv, DownloadPart, UpdateDownloadProgress, DownloadFinished,
     DownloadAbort, downloadVars
<1>3. FirstMsg.file \in File
  BY <1>2, First
<1>4. Delete(FirstMsg.file) \/ UNCHANGED <<downloads, dl>>
  BY DEF UpdateDownloadProgress, DownloadFinished, DownloadAbort, downloadVars
<1>5. /\ uiQ' \in Seq(Posted) /\ Len(uiQ) \in Nat /\ Len(uiQ') = Len(uiQ) - 1
      /\ \A i \in 1..Len(uiQ') : uiQ'[i] = uiQ[i + 1]
  BY <1>2, Taking
<1>6. /\ dl' \in Seq(DL) /\ Len(dl') = Len(dl)
      /\ \A d \in 1..Len(dl) : /\ dl'[d].file = dl[d].file
                               /\ dl'[d].held => dl[d].held
                               /\ dl'[d].rcv => dl[d].rcv
      /\ downloads' \in [File -> {0} \cup 1..Len(dl)]
      /\ \A g \in File : downloads'[g] # 0 => /\ dl'[downloads'[g]].held
                                              /\ downloads'[g] = downloads[g]
  BY <1>2, <1>3, <1>4, Deleting
<1>7. ASSUME NEW d \in 1..Len(dl), Lives(d)' PROVE Lives(d)
  <2>1. CASE dl'[d].held \/ dl'[d].rcv
    BY <1>6, <2>1 DEF Lives
  <2>2. CASE \E i \in 1..Len(uiQ') : uiQ'[i].by = d /\ uiQ'[i].kind # "progress"
    BY <1>5, <2>2 DEF Lives
  <2> QED BY <1>7, <2>1, <2>2 DEF Lives
<1>8. \A i \in 1..Len(uiQ') : /\ uiQ'[i].by \in 1..Len(dl)
                              /\ uiQ'[i].file = dl[uiQ'[i].by].file
  BY <1>2, <1>5 DEF DownloadPart
<1>9. DownloadPart'
  BY <1>2, <1>5, <1>6, <1>7, <1>8, NothingNew
<1>10. RowPart'
  <2>1. CASE UNCHANGED <<rows, itemOf>>
    BY <2>1, Framed DEF DialogInv
  <2>2. CASE UpdateDownloadProgress
    <3>1. PICK i \in Nat \ {0} :
             /\ ShowProgress(i)
             /\ \/ /\ DOMAIN itemOf' = DOMAIN itemOf
                   /\ \A g \in DOMAIN itemOf : itemOf'[g] = itemOf[g]
                \/ /\ FirstMsg.file \notin DOMAIN itemOf
                   /\ Remember(FirstMsg.file, i)
      <4>1. CASE ReceiverGone /\ ShowProgress(1) /\ UNCHANGED itemOf
        BY <4>1
      <4>2. CASE FirstMsg.file \notin DOMAIN itemOf
                 /\ Remember(FirstMsg.file, 1) /\ ShowProgress(1)
        BY <4>2
      <4>3. CASE FirstMsg.file \in DOMAIN itemOf
                 /\ Remember(FirstMsg.file, itemOf[FirstMsg.file])
                 /\ ShowProgress(itemOf[FirstMsg.file])
        <5>1. itemOf[FirstMsg.file] \in Nat \ {0}
          BY <4>3 DEF DialogInv, RowPart
        <5> QED BY <4>3, <5>1 DEF Remember
      <4> QED BY <2>2, <4>1, <4>2, <4>3 DEF UpdateDownloadProgress
    <3>2. /\ rows' \in Seq(Row) /\ Len(rows') = Len(rows)
          /\ \A j \in 1..Len(rows) : FileOf(rows'[j]) = FileOf(rows[j])
      <4>1. rows \in Seq(Row)
        BY DEF DialogInv, RowPart
      <4>2. CASE i \in 1..Len(rows)
        <5> DEFINE x == [rows[i] EXCEPT !.progress = FirstMsg.file]
        <5>1. rows[i] \in Row
          BY <4>1, <4>2, ElementOfSeq
        <5>2. x \in Row /\ x.resource = rows[i].resource
          BY <1>3, <5>1 DEF Row
        <5>3. rows' = [rows EXCEPT ![i] = x]
          BY <3>1, <4>2 DEF ShowProgress
        <5> HIDE DEF x
        <5> QED BY <4>1, <4>2, <5>2, <5>3, ExceptSeq DEF FileOf
      <4>3. CASE i \notin 1..Len(rows)
        BY <3>1, <4>1, <4>3 DEF ShowProgress
      <4> QED BY <4>2, <4>3
    <3>3. /\ DOMAIN itemOf \subseteq DOMAIN itemOf' /\ DOMAIN itemOf' \subseteq File
          /\ \A g \in DOMAIN itemOf : itemOf'[g] = itemOf[g]
          /\ \A g \in DOMAIN itemOf' : itemOf'[g] \in Nat \ {0}
      BY <1>3, <3>1 DEF Remember, DialogInv, RowPart
    <3>4. ASSUME NEW j \in 1..Len(rows'), NEW g, g = FileOf(rows'[j])
          PROVE  Leads(g)'
      <4>1. Leads(g) /\ g = FileOf(rows[j])
        BY <3>2, <3>4 DEF DialogInv, RowPart
      <4> QED BY <3>2, <3>3, <4>1 DEF Leads
    <3> QED BY <3>2, <3>3, <3>4 DEF RowPart
  <2> QED BY <2>1, <2>2 DEF DownloadFinished, DownloadAbort,
             UpdateDownloadProgress
<1> QED BY <1>1, <1>9, <1>10 DEF DialogInv

-----------------------------------------------------------------------------
(* The invariant of the window, however searches, downloads and messages   *)
(* follow and overtake each other.                                         *)
THEOREM DialogInvariant == Spec => []DialogInv
<1>1. DialogInv /\ [Next]_vars => DialogInv'
  <2> SUFFICES ASSUME DialogInv, [Next]_vars PROVE DialogInv'
    OBVIOUS
  <2>1. CASE UNCHANGED vars
    BY <2>1, Framed DEF vars, DialogInv
  <2>2. CASE Next
    BY <2>2, ClickStep, SearchStepKeeps, DoubleClickStep, PostStep, MessageStep
    DEF Next
  <2> QED BY <2>1, <2>2
<1> QED BY <1>1, InitDialog, PTL DEF Spec

(* Type correctness for all searches, downloads and messages.              *)
THEOREM DialogTypeCorrect == Spec => []TypeOK
<1>1. DialogInv => TypeOK
  <2> SUFFICES ASSUME DialogInv PROVE TypeOK
    OBVIOUS
  <2>1. dl \in Seq(DL) /\ DOMAIN dl = 1..Len(dl)
    BY LenProperties DEF DialogInv, DownloadPart
  <2> QED BY <2>1 DEF DialogInv, SearchPart, RowPart, DownloadPart, TypeOK, DL,
             Thread
<1> QED BY <1>1, DialogInvariant, PTL

(* The flag of the searches is down when no thread is under way, whatever  *)
(* overlapped or failed, and up while one asks or shows if none overlapped. *)
THEOREM FlagIsRight == Spec => []FlagFollowsThreads
<1>1. DialogInv => FlagFollowsThreads
  BY DEF DialogInv, SearchPart, FlagFollowsThreads, Asking, UnderWay
<1> QED BY <1>1, DialogInvariant, PTL

(* A listed file's progress is shown in a row of that file.                *)
THEOREM ProgressIsInItsRow == Spec => []ProgressFindsItsRow
<1>1. DialogInv => ProgressFindsItsRow
  BY DEF DialogInv, RowPart, ProgressFindsItsRow, Listed, Leads
<1> QED BY <1>1, DialogInvariant, PTL

(* The map of downloads leads to no deleted downloader.                    *)
THEOREM OnlyTheLivingAreMapped == Spec => []MapHoldsTheLiving
<1>1. DialogInv => MapHoldsTheLiving
  BY DEF DialogInv, DownloadPart, MapHoldsTheLiving
<1> QED BY <1>1, DialogInvariant, PTL

(* A message deletes the download it comes from, if none was started while *)
(* an older one of the same file was not over.                             *)
LEMMA DeletionStep ==
    ASSUME DialogInv, Next, NEW d \in DOMAIN dl, dl[d].held, ~dl'[d].held,
           early = 0
    PROVE  FirstMsg.kind # "progress" /\ FirstMsg.by = d
<1>1. DownloadPart /\ dl \in Seq(DL) /\ d \in 1..Len(dl)
  BY LenProperties DEF DialogInv, DownloadPart
<1>2. CASE DownloadFinished \/ DownloadAbort
  <2>1. uiQ # <<>> /\ FirstMsg.kind # "progress"
    BY <1>2 DEF DownloadFinished, DownloadAbort
  <2>2. /\ FirstMsg.file \in File /\ FirstMsg.by \in 1..Len(dl)
        /\ FirstMsg.file = dl[FirstMsg.by].file /\ Lives(FirstMsg.by)
    BY <1>1, <2>1, First
  <2>3. Delete(FirstMsg.file) \/ UNCHANGED <<downloads, dl>>
    BY <1>2 DEF DownloadFinished, DownloadAbort
  <2>4. dl[d].file = FirstMsg.file
    BY <1>1, <2>2, <2>3, Deleting
  <2>5. Lives(d)
    BY DEF Lives
  <2> QED BY <1>1, <2>1, <2>2, <2>4, <2>5 DEF DownloadPart
<1>3. ASSUME NEW i \in 1..Len(rows), OnNMDblclkListResource(i)
      PROVE  FALSE
  <2> DEFINE new == [file |-> FileOf(rows[i]), held |-> TRUE, rcv |-> TRUE]
  <2>1. rows[i] \in Row
    BY ElementOfSeq DEF DialogInv, RowPart
  <2>2. new \in DL
    BY <2>1, DialogAssumption DEF DL, Row, FileOf
  <2>3. dl' = Append(dl, new)
    BY <1>3 DEF OnNMDblclkListResource
  <2> HIDE DEF new
  <2>4. dl'[d] = dl[d]
    BY <1>1, <2>2, <2>3, AppendProperties
  <2> QED BY <2>4
<1>4. ASSUME NEW k \in DOMAIN dl, PostFinished(k)
      PROVE  FALSE
  <2>1. dl' = [dl EXCEPT ![k].rcv = FALSE] /\ dl[d] \in DL
    BY <1>1, <1>4, ElementOfSeq DEF PostFinished
  <2>2. dl'[d] = dl[d] \/ dl'[d] = [dl[d] EXCEPT !.rcv = FALSE]
    BY <1>1, <2>1, LenProperties
  <2> QED BY <2>1, <2>2 DEF DL
<1>5. CASE dl' = dl
  BY <1>5
<1> QED BY <1>2, <1>3, <1>4, <1>5 DEF Next, SearchStep, OnBnClickedButtonSearch,
           ReadKeyword, SetSearching, FindResource, FindResourceFails,
           UpdateSearchResult, EndSearch, PostProgress, PostAbort,
           UpdateDownloadProgress, downloadVars

THEOREM MessagesDeleteTheirOwn == Spec => DeletesItsOwn
<1>1. DialogInv /\ [Next]_vars =>
        [\A d \in DOMAIN dl :
            dl[d].held /\ ~dl'[d].held /\ early = 0
                => FirstMsg.kind # "progress" /\ FirstMsg.by = d]_vars
  BY DeletionStep
<1> QED BY <1>1, DialogInvariant, PTL DEF Spec, DeletesItsOwn

-----------------------------------------------------------------------------
(* What the list shows.                                                    *)

Shown(s) == th[s].pc \in {"showing", "ended"}

(* Threads are used in their order. While no two overlapped, the one under *)
(* way is the last, it searches for the last word, and the list holds what *)
(* that has found less what is not yet shown, each name of each file once. *)
ListPart ==
    /\ \A s \in Search \ Unused, r \in Unused : s < r
    /\ overlaps = 0 =>
          /\ \A i, j \in 1..Len(rows) : rows[i].resource = rows[j].resource => i = j
          /\ \A s \in UnderWay : /\ LastSearch(s)
                                 /\ th[s].pc # "started" => th[s].word = keyword
                                 /\ th[s].left \subseteq Matches[keyword]
          /\ \A s \in Search : LastSearch(s) =>
                IF Shown(s) THEN Listed = Matches[keyword] \ th[s].left
                            ELSE rows = <<>>

(* As many resources are listed as there are rows if none is listed twice. *)
LEMMA ListedOnce ==
    ASSUME rows \in Seq(Row),
           \A i, j \in 1..Len(rows) : rows[i].resource = rows[j].resource => i = j
    PROVE  Cardinality(Listed) = Len(rows)
<1> DEFINE res == [i \in 1..Len(rows) |-> rows[i].resource]
<1>1. Len(rows) \in Nat
  BY LenProperties
<1>2. res \in Bijection(1..Len(rows), Listed)
  BY DEF Bijection, Injection, Surjection, IsInjective, Listed
<1>3. ExistsBijection(1..Len(rows), Listed)
  BY <1>2 DEF ExistsBijection
<1>4. IsFiniteSet(1..Len(rows)) /\ Cardinality(1..Len(rows)) = Len(rows)
  <2>1. /\ IsFiniteSet(1..Len(rows))
        /\ Cardinality(1..Len(rows)) =
              IF 1 > Len(rows) THEN 0 ELSE Len(rows) - 1 + 1
    BY <1>1, FS_Interval, Z3
  <2> QED BY <1>1, <2>1
<1> QED BY <1>3, <1>4, FS_Bijection

(* The same threads, and rows of the same resources. *)
LEMMA SameList ==
    ASSUME ListPart, UNCHANGED searchVars, rows \in Seq(Row), rows' \in Seq(Row),
           Len(rows') = Len(rows),
           \A i \in 1..Len(rows) : rows'[i].resource = rows[i].resource
    PROVE  ListPart'
<1>1. Listed' = Listed /\ (rows = <<>> => rows' = <<>>)
  BY EmptySeq DEF Listed
<1>2. UNCHANGED <<th, keyword, overlaps>>
  BY DEF searchVars
<1>3. /\ Unused' = Unused /\ UnderWay' = UnderWay
      /\ \A s \in Search : (LastSearch(s)' <=> LastSearch(s))
                           /\ (Shown(s)' <=> Shown(s))
  BY <1>2 DEF Unused, UnderWay, LastSearch, Shown
<1>4. UnderWay \subseteq Search
  BY DEF UnderWay
<1> QED BY <1>1, <1>2, <1>3, <1>4 DEF ListPart

LEMMA ClickList ==
    ASSUME DialogInv, ListPart, NEW w \in Word, OnBnClickedButtonSearch(w)
    PROVE  ListPart'
<1> DEFINE n == NextSearch
<1>1. /\ n \in Search /\ th[n].pc = "unused" /\ n \in Unused
      /\ \A r \in Unused : n <= r
  BY NextIsUnused DEF OnBnClickedButtonSearch, Unused
<1> HIDE DEF n
<1>2. /\ th' = [th EXCEPT ![n].pc = "started"] /\ rows' = <<>>
      /\ overlaps' = IF UnderWay = {} THEN overlaps ELSE overlaps + 1
  BY DEF OnBnClickedButtonSearch, n
<1>3. /\ th'[n].pc = "started" /\ th'[n].left = {}
      /\ \A s \in Search \ {n} : th'[s] = th[s]
  BY <1>1, <1>2 DEF DialogInv, SearchPart, Thread
<1>4. Unused' = Unused \ {n}
  BY <1>1, <1>3 DEF Unused
<1>5. Search \subseteq Nat /\ Unused \subseteq Search
  BY DialogAssumption DEF Search, Unused
<1>6. \A s \in Search \ Unused', r \in Unused' : s < r
  BY <1>1, <1>4, <1>5 DEF ListPart
<1>7. \A s \in Search : LastSearch(s)' <=> s = n
  <2>1. \A r \in Search \ Unused' : r <= n
    BY <1>1, <1>4, <1>5 DEF ListPart
  <2>2. n \in Search \ Unused'
    BY <1>1, <1>4
  <2> QED BY <1>5, <2>1, <2>2 DEF LastSearch
<1>8. overlaps' = 0 => UnderWay' = {n}
  <2>1. overlaps' = 0 => UnderWay = {}
    BY <1>2 DEF DialogInv, SearchPart
  <2> QED BY <1>1, <1>3, <2>1 DEF UnderWay
<1>9. 1..Len(rows') = {}
  BY <1>2, EmptySeq
<1>10. ASSUME overlaps' = 0, NEW s \in UnderWay'
       PROVE  LastSearch(s)' /\ th'[s].pc = "started" /\ th'[s].left = {}
  BY <1>1, <1>3, <1>7, <1>8, <1>10
<1>11. ASSUME NEW s \in Search, LastSearch(s)' PROVE ~Shown(s)' /\ rows' = <<>>
  BY <1>2, <1>3, <1>7, <1>11 DEF Shown
<1> QED BY <1>6, <1>9, <1>10, <1>11 DEF ListPart

(* A thread under way moves on, and the list with it. *)
LEMMA ThreadList ==
    ASSUME SearchPart, ListPart, NEW s \in UnderWay, NEW t \in Thread,
           th' = [th EXCEPT ![s] = t], t.pc \notin {"unused", "started"},
           UNCHANGED <<keyword, overlaps>>,
           overlaps = 0 =>
               /\ \A i, j \in 1..Len(rows') : rows'[i].resource = rows'[j].resource => i = j
               /\ t.word = keyword /\ t.left \subseteq Matches[keyword]
               /\ IF t.pc \in {"showing", "ended"}
                  THEN Listed' = Matches[keyword] \ t.left
                  ELSE rows' = <<>>
    PROVE  ListPart'
<1>1. /\ s \in Search /\ th'[s] = t
      /\ \A r \in Search \ {s} : th'[r] = th[r]
  BY DEF SearchPart, UnderWay
<1>2. Unused' = Unused
  BY <1>1 DEF Unused, UnderWay
<1>3. \A r \in Search : LastSearch(r)' <=> LastSearch(r)
  BY <1>2 DEF LastSearch
<1>4. UnderWay' \subseteq UnderWay
  BY <1>1 DEF UnderWay
<1>5. overlaps = 0 => \A r \in Search : LastSearch(r) => r = s
  <2>1. overlaps = 0 => LastSearch(s)
    BY DEF ListPart
  <2>2. Search \subseteq Nat
    BY DialogAssumption DEF Search
  <2> QED BY <1>1, <2>1, <2>2 DEF LastSearch
<1>6. overlaps = 0 => \A r \in UnderWay' : r = s
  BY <1>4 DEF SearchPart
<1>7. overlaps = 0 => LastSearch(s)
  BY DEF ListPart
<1>8. ASSUME overlaps = 0, NEW r \in UnderWay'
      PROVE  /\ LastSearch(r)' /\ th'[r].word = keyword'
             /\ th'[r].left \subseteq Matches[keyword']
  BY <1>1, <1>3, <1>6, <1>7, <1>8
<1>9. ASSUME overlaps = 0, NEW r \in Search, LastSearch(r)'
      PROVE  IF Shown(r)' THEN Listed' = Matches[keyword'] \ th'[r].left
                          ELSE rows' = <<>>
  <2>1. r = s
    BY <1>3, <1>5, <1>9
  <2>2. th'[r] = t /\ (Shown(r)' <=> t.pc \in {"showing", "ended"})
    BY <1>1, <2>1 DEF Shown
  <2> QED BY <1>9, <2>2
<1>10. \A p \in Search \ Unused', r \in Unused' : p < r
  BY <1>2 DEF ListPart
<1> QED BY <1>8, <1>9, <1>10 DEF ListPart

LEMMA SearchStepList ==
    ASSUME DialogInv, ListPart, NEW s \in Search, SearchStep(s)
    PROVE  ListPart'
<1>1. /\ th[s] \in Thread /\ th \in [Search -> Thread] /\ SearchPart
      /\ th[s].pc # "showing" => th[s].left = {}
  BY DEF DialogInv, SearchPart
<1>2. s \in UnderWay /\ UNCHANGED <<keyword, overlaps>>
  BY DEF SearchStep, ReadKeyword, SetSearching, FindResource, FindResourceFails,
     UpdateSearchResult, EndSearch, UnderWay
<1>3. overlaps = 0 =>
        /\ LastSearch(s) /\ th[s].left \subseteq Matches[keyword]
        /\ th[s].pc # "started" => th[s].word = keyword
        /\ \A i, j \in 1..Len(rows) : rows[i].resource = rows[j].resource => i = j
        /\ IF Shown(s) THEN Listed = Matches[keyword] \ th[s].left ELSE rows = <<>>
  BY <1>2 DEF ListPart
<1>4. CASE ReadKeyword(s) \/ SetSearching(s) \/ FindResourceFails(s)
  <2>1. PICK q \in {"ready", "asking", "failed"}, w \in Word \cup {None} :
           /\ th' = [th EXCEPT ![s].pc = q, ![s].word = w]
           /\ w = IF th[s].pc = "started" THEN keyword ELSE th[s].word
    <3>1. th[s].word \in Word \cup {None} /\ keyword \in Word \cup {None}
      BY <1>1 DEF Thread, SearchPart
    <3>2. CASE ReadKeyword(s)
      BY <3>1, <3>2 DEF ReadKeyword
    <3>3. CASE SetSearching(s) \/ FindResourceFails(s)
      <4>1. PICK q \in {"asking", "failed"} : th' = [th EXCEPT ![s].pc = q]
        BY <3>3 DEF SetSearching, FindResourceFails
      <4>2. th' = [th EXCEPT ![s].pc = q, ![s].word = th[s].word]
        BY <1>1, <4>1 DEF Thread
      <4>3. th[s].pc # "started"
        BY <3>3 DEF SetSearching, FindResourceFails
      <4> QED BY <3>1, <4>2, <4>3
    <3> QED BY <1>4, <3>2, <3>3
  <2> DEFINE t == [th[s] EXCEPT !.pc = q, !.word = w]
  <2>2. t \in Thread /\ t.pc = q /\ t.word = w /\ t.left = th[s].left
    BY <1>1 DEF Thread
  <2>3. th' = [th EXCEPT ![s] = t]
    BY <1>1, <2>1 DEF Thread
  <2>4. rows' = rows /\ ~Shown(s)
    BY <1>4 DEF ReadKeyword, SetSearching, FindResourceFails, Shown
  <2>5. overlaps = 0 =>
          /\ \A i, j \in 1..Len(rows') : rows'[i].resource = rows'[j].resource => i = j
          /\ t.word = keyword /\ t.left \subseteq Matches[keyword] /\ rows' = <<>>
    BY <1>3, <2>1, <2>2, <2>4
  <2>6. t.pc \notin {"unused", "started", "showing", "ended"}
    BY <2>2
  <2> HIDE DEF t
  <2> QED BY <1>1, <1>2, <2>2, <2>3, <2>5, <2>6, ThreadList
<1>5. CASE FindResource(s)
  <2> DEFINE t == [th[s] EXCEPT !.pc = "showing", !.left = Matches[th[s].word]]
  <2>1. th[s].word \in Word /\ Matches[th[s].word] \subseteq Resource
    BY <1>1, <1>5, DialogAssumption DEF FindResource, SearchPart, Asking
  <2>2. /\ t \in Thread /\ t.pc = "showing" /\ t.word = th[s].word
        /\ t.left = Matches[th[s].word]
    BY <1>1, <2>1 DEF Thread
  <2>3. th' = [th EXCEPT ![s] = t] /\ rows' = rows
    BY <1>1, <1>5 DEF FindResource, Thread
  <2>4. overlaps = 0 => /\ th[s].word = keyword /\ rows = <<>>
                        /\ Listed' = Matches[keyword] \ Matches[th[s].word]
    <3>1. th[s].pc = "asking"
      BY <1>5 DEF FindResource
    <3>2. rows = <<>> => Listed = {}
      BY EmptySeq DEF Listed
    <3>3. Listed' = Listed
      BY <2>3 DEF Listed
    <3> QED BY <1>3, <3>1, <3>2, <3>3 DEF Shown
  <2> HIDE DEF t
  <2> QED BY <1>1, <1>2, <1>3, <2>2, <2>3, <2>4, ThreadList
<1>6. CASE EndSearch(s)
  <2> DEFINE t == [th[s] EXCEPT !.pc = "ended"]
  <2>1. /\ t \in Thread /\ t.pc = "ended" /\ t.word = th[s].word
        /\ t.left = th[s].left
    BY <1>1 DEF Thread
  <2>2. /\ th' = [th EXCEPT ![s] = t] /\ rows' = rows /\ Listed' = Listed
        /\ th[s].pc = "showing" /\ Shown(s)
    BY <1>1, <1>6 DEF EndSearch, Thread, Listed, Shown
  <2> HIDE DEF t
  <2> QED BY <1>1, <1>2, <1>3, <2>1, <2>2, ThreadList
<1>7. CASE UpdateSearchResult(s)
  <2>1. PICK r \in th[s].left :
           /\ th' = [th EXCEPT ![s].left = @ \ {r}]
           /\ rows' = Append(rows, [resource |-> r, progress |-> None])
    BY <1>7 DEF UpdateSearchResult
  <2> DEFINE t == [th[s] EXCEPT !.left = @ \ {r}]
             row == [resource |-> r, progress |-> None]
  <2>2. /\ th[s].pc = "showing" /\ Shown(s) /\ r \in Resource
        /\ t \in Thread /\ t.pc = "showing" /\ t.word = th[s].word
        /\ t.left = th[s].left \ {r}
    BY <1>1, <1>7 DEF UpdateSearchResult, Thread, Shown
  <2>3. th' = [th EXCEPT ![s] = t]
    BY <1>1, <2>1 DEF Thread
  <2>4. row \in Row /\ row.resource = r /\ rows \in Seq(Row) /\ rows' = Append(rows, row)
    BY <2>1, <2>2 DEF Row, DialogInv, RowPart
  <2> HIDE DEF t, row
  <2>5. /\ Len(rows) \in Nat /\ Len(rows') = Len(rows) + 1
        /\ \A i \in 1..Len(rows) : rows'[i] = rows[i]
        /\ rows'[Len(rows) + 1].resource = r
    BY <2>4, AppendProperties, LenProperties
  <2>6. Listed' = Listed \cup {r}
    BY <2>5 DEF Listed
  <2>7. overlaps = 0 => r \notin Listed /\ r \in Matches[keyword]
                        /\ Listed' = Matches[keyword] \ t.left
    BY <1>3, <2>2, <2>6
  <2>8. overlaps = 0 =>
          \A i, j \in 1..Len(rows') : rows'[i].resource = rows'[j].resource => i = j
    <3>1. \A i \in 1..Len(rows) : rows[i].resource \in Listed
      BY DEF Listed
    <3> QED BY <1>3, <2>5, <2>7, <3>1
  <2> QED BY <1>1, <1>2, <1>3, <2>2, <2>3, <2>7, <2>8, ThreadList
<1> QED BY <1>4, <1>5, <1>6, <1>7 DEF SearchStep

LEMMA StepList ==
    ASSUME DialogInv, ListPart, [Next]_vars
    PROVE  ListPart'
<1>1. rows \in Seq(Row)
  BY DEF DialogInv, RowPart
<1>2. CASE UNCHANGED <<searchVars, rows>>
  BY <1>1, <1>2, SameList
<1>3. CASE UpdateDownloadProgress
  <2>1. UNCHANGED searchVars /\ uiQ # <<>>
    BY <1>3 DEF UpdateDownloadProgress
  <2>2. FirstMsg.file \in File
    BY <2>1, First DEF DialogInv
  <2>3. PICK i : ShowProgress(i)
    BY <1>3 DEF UpdateDownloadProgress
  <2>4. CASE i \in 1..Len(rows)
    <3> DEFINE x == [rows[i] EXCEPT !.progress = FirstMsg.file]
    <3>1. rows[i] \in Row
      BY <1>1, <2>4, ElementOfSeq
    <3>2. x \in Row /\ x.resource = rows[i].resource
      BY <2>2, <3>1 DEF Row
    <3>3. rows' = [rows EXCEPT ![i] = x]
      BY <2>3, <2>4 DEF ShowProgress
    <3> HIDE DEF x
    <3>4. /\ rows' \in Seq(Row) /\ Len(rows') = Len(rows)
          /\ \A j \in 1..Len(rows) : rows'[j].resource = rows[j].resource
      BY <1>1, <2>4, <3>2, <3>3, ExceptSeq
    <3> QED BY <1>1, <2>1, <3>4, SameList
  <2>5. CASE i \notin 1..Len(rows)
    <3>1. rows' = rows
      BY <2>3, <2>5 DEF ShowProgress
    <3> QED BY <1>1, <2>1, <3>1, SameList
  <2> QED BY <2>4, <2>5
<1>4. ASSUME NEW w \in Word, OnBnClickedButtonSearch(w) PROVE ListPart'
  BY <1>4, ClickList
<1>5. ASSUME NEW s \in Search, SearchStep(s) PROVE ListPart'
  BY <1>5, SearchStepList
<1>6. CASE UNCHANGED vars
  BY <1>2, <1>6 DEF vars
<1> QED BY <1>2, <1>3, <1>4, <1>5, <1>6 DEF Next, OnNMDblclkListResource,
           PostProgress, PostFinished, PostAbort, DownloadFinished, DownloadAbort

(* As long as no two searches overlapped, the list shows resources that    *)
(* match the last word, each name of each file once, and all when the      *)
(* search is through.                                                      *)
THEOREM ListIsOfTheLastSearch == Spec => []ShowsTheLastSearch
<1>1. Init => ListPart
  <2> SUFFICES ASSUME Init PROVE ListPart
    OBVIOUS
  <2>1. Unused = Search /\ UnderWay = {} /\ 1..Len(rows) = {}
    BY EmptySeq DEF Init, Unused, UnderWay
  <2> QED BY <2>1 DEF ListPart, LastSearch
<1>2. DialogInv /\ ListPart /\ [Next]_vars => ListPart'
  BY StepList
<1>3. DialogInv /\ ListPart => ShowsTheLastSearch
  <2> SUFFICES ASSUME DialogInv, ListPart, overlaps = 0
               PROVE  /\ Cardinality(Listed) = Len(rows)
                      /\ \A s \in Search : LastSearch(s) =>
                            IF Shown(s) THEN Listed = Matches[keyword] \ th[s].left
                                        ELSE rows = <<>>
    BY DEF ShowsTheLastSearch, Shown
  <2> QED BY ListedOnce DEF ListPart, DialogInv, RowPart
<1> QED BY <1>1, <1>2, <1>3, DialogInvariant, PTL DEF Spec
=============================================================================
