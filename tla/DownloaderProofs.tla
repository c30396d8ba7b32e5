-------------------------- MODULE DownloaderProofs --------------------------
(***************************************************************************)
(* Proofs about module Downloader: its invariants hold for every set of    *)
(* providers, every file size, every window, batch and retry limit.        *)
(***************************************************************************)
EXTENDS Downloader, FiniteSetTheorems, SequenceTheorems, WellFoundedInduction, TLAPS

-----------------------------------------------------------------------------
(* Sequences without repetitions and the set of their entries.             *)

(* Appending adds one entry, and no repetition if the entry is new. *)
LEMMA EntriesAppend ==
    ASSUME NEW S, NEW s \in Seq(S), NEW e \in S
    PROVE  /\ Append(s, e) \in Seq(S)
           /\ Entries(Append(s, e)) = Entries(s) \cup {e}
           /\ NoRepeats(s) /\ e \notin Entries(s) => NoRepeats(Append(s, e))
<1> DEFINE t == Append(s, e)
<1>1. /\ t \in Seq(S) /\ Len(t) = Len(s) + 1 /\ Len(s) \in Nat
      /\ \A i \in 1..Len(s) : t[i] = s[i]
      /\ t[Len(s) + 1] = e
  BY AppendProperties, LenProperties
<1>2. Entries(t) = Entries(s) \cup {e}
  <2>1. ASSUME NEW x \in Entries(t) PROVE x \in Entries(s) \cup {e}
    <3>1. PICK i \in 1..Len(t) : x = t[i]
      BY <2>1 DEF Entries
    <3>2. CASE i = Len(s) + 1
      BY <3>1, <3>2, <1>1
    <3>3. CASE i \in 1..Len(s)
      BY <3>1, <3>3, <1>1 DEF Entries
    <3> QED BY <3>2, <3>3, <1>1
  <2>2. ASSUME NEW x \in Entries(s) PROVE x \in Entries(t)
    <3>1. PICK i \in 1..Len(s) : x = s[i]
      BY <2>2 DEF Entries
    <3>2. i \in 1..Len(t) /\ x = t[i]
      BY <3>1, <1>1
    <3> QED BY <3>2 DEF Entries
  <2>3. e \in Entries(t)
    <3>1. Len(s) + 1 \in 1..Len(t)
      BY <1>1
    <3> QED BY <3>1, <1>1 DEF Entries
  <2> QED BY <2>1, <2>2, <2>3
<1>3. ASSUME NoRepeats(s), e \notin Entries(s) PROVE NoRepeats(t)
  <2> SUFFICES ASSUME NEW i \in 1..Len(t), NEW j \in 1..Len(t), t[i] = t[j]
               PROVE  i = j
    BY DEF NoRepeats
  <2>1. \A k \in 1..Len(s) : t[k] # e
    BY <1>1, <1>3 DEF Entries
  <2>2. CASE i \in 1..Len(s) /\ j \in 1..Len(s)
    BY <2>2, <1>1, <1>3 DEF NoRepeats
  <2>3. CASE i = Len(s) + 1 \/ j = Len(s) + 1
    BY <2>1, <2>3, <1>1
  <2> QED BY <2>2, <2>3, <1>1
<1> QED BY <1>1, <1>2, <1>3

(* Taking the head off removes one entry, for good if nothing repeats. *)
LEMMA EntriesTail ==
    ASSUME NEW S, NEW s \in Seq(S), s # <<>>
    PROVE  /\ Head(s) \in S /\ Tail(s) \in Seq(S)
           /\ Entries(s) = Entries(Tail(s)) \cup {Head(s)}
           /\ NoRepeats(s) => /\ NoRepeats(Tail(s))
                              /\ Head(s) \notin Entries(Tail(s))
<1> DEFINE t == Tail(s)
<1>1. /\ Head(s) \in S /\ t \in Seq(S) /\ Len(s) \in Nat /\ Len(s) > 0
      /\ Len(t) = Len(s) - 1 /\ Head(s) = s[1]
      /\ \A i \in 1..Len(t) : t[i] = s[i + 1]
  BY HeadTailProperties, LenProperties, EmptySeq
<1>2. Entries(s) = Entries(t) \cup {Head(s)}
  <2>1. ASSUME NEW x \in Entries(s) PROVE x \in Entries(t) \cup {Head(s)}
    <3>1. PICK i \in 1..Len(s) : x = s[i]
      BY <2>1 DEF Entries
    <3>2. CASE i = 1
      BY <3>1, <3>2, <1>1
    <3>3. CASE i # 1
      <4>1. i - 1 \in 1..Len(t) /\ t[i - 1] = x
        BY <3>1, <3>3, <1>1
      <4> QED BY <4>1 DEF Entries
    <3> QED BY <3>2, <3>3
  <2>2. ASSUME NEW x \in Entries(t) PROVE x \in Entries(s)
    <3>1. PICK i \in 1..Len(t) : x = t[i]
      BY <2>2 DEF Entries
    <3>2. i + 1 \in 1..Len(s) /\ s[i + 1] = x
      BY <3>1, <1>1
    <3> QED BY <3>2 DEF Entries
  <2>3. Head(s) \in Entries(s)
    <3>1. 1 \in 1..Len(s)
      BY <1>1
    <3> QED BY <3>1, <1>1 DEF Entries
  <2> QED BY <2>1, <2>2, <2>3
<1>3. ASSUME NoRepeats(s)
      PROVE  NoRepeats(t) /\ Head(s) \notin Entries(t)
  <2>1. ASSUME NEW i \in 1..Len(t), NEW j \in 1..Len(t), t[i] = t[j]
        PROVE  i = j
    <3>1. i + 1 \in 1..Len(s) /\ j + 1 \in 1..Len(s) /\ s[i + 1] = s[j + 1]
      BY <2>1, <1>1
    <3>2. i + 1 = j + 1
      BY <3>1, <1>3 DEF NoRepeats
    <3> QED BY <3>2
  <2>2. ASSUME NEW i \in 1..Len(t) PROVE t[i] # Head(s)
    <3>1. 1 \in 1..Len(s) /\ i + 1 \in 1..Len(s) /\ t[i] = s[i + 1] /\ i + 1 # 1
      BY <1>1
    <3> QED BY <3>1, <1>1, <1>3 DEF NoRepeats
  <2> QED BY <2>1, <2>2 DEF NoRepeats, Entries
<1> QED BY <1>1, <1>2, <1>3

(* Unlisting an element leaves a sequence of the same type. *)
LEMMA UnlistType ==
    ASSUME NEW S, NEW s \in Seq(S), NEW e \in Entries(s)
    PROVE  Unlist(s, e) \in Seq(S)
<1> DEFINE k == CHOOSE i \in 1..Len(s) : s[i] = e
           n == Len(s) - 1
<1>1. Len(s) \in Nat /\ k \in 1..Len(s) /\ n \in Nat
  BY LenProperties DEF Entries
<1>2. \A i \in 1..n : i \in 1..Len(s) /\ i + 1 \in 1..Len(s)
  BY <1>1
<1>3. \A i \in 1..n : (IF i < k THEN s[i] ELSE s[i + 1]) \in S
  BY <1>2, ElementOfSeq
<1>4. [i \in 1..n |-> IF i < k THEN s[i] ELSE s[i + 1]] \in [1..n -> S]
  BY <1>3
<1>5. [i \in 1..n |-> IF i < k THEN s[i] ELSE s[i + 1]] \in Seq(S)
  BY <1>1, <1>4
<1> QED BY <1>5 DEF Unlist

-----------------------------------------------------------------------------
(* Type correctness.                                                       *)

(* The map is finite, so its room is a number of blocks. *)
LEMMA MapIsFinite ==
    ASSUME IndInv
    PROVE  IsFiniteSet(mapFileBlocks) /\ Cardinality(mapFileBlocks) \in Nat
<1>1. mapFileBlocks \subseteq 0..(lastBlockPos - 1) /\ lastBlockPos - 1 \in Int
  BY DEF IndInv, TypeOK, BlockInOnePlace
<1>2. IsFiniteSet(0..(lastBlockPos - 1))
  BY <1>1, FS_Interval
<1>3. IsFiniteSet(mapFileBlocks)
  BY <1>1, <1>2, FS_Subset
<1> QED BY <1>3, FS_CardinalityType

(* The splitting appends a finite stretch of new blocks to the map.        *)
LEMMA SplitStep ==
    ASSUME IndInv, SplitFileSizeIntoBlockMap
    PROVE  \E n \in Nat : /\ lastBlockPos' = lastBlockPos + n
                          /\ idle' = idle \cup (lastBlockPos..(lastBlockPos + n - 1))
                          /\ \A k \in 0..(n - 1) : ~PastEnd(lastBlockPos + k)
<1>1. Cardinality(mapFileBlocks) \in Nat /\ Window \in Nat /\ lastBlockPos \in Nat
  BY MapIsFinite, SizesAssumption DEF IndInv, TypeOK
<1>2. CASE Cardinality(mapFileBlocks) < Window \div 2
  <2>1. PICK n \in 0..(Window - Cardinality(mapFileBlocks)) :
           /\ idle' = idle \cup (lastBlockPos..(lastBlockPos + n - 1))
           /\ lastBlockPos' = lastBlockPos + n
           /\ \A k \in 0..(n - 1) : ~PastEnd(lastBlockPos + k)
    BY <1>2 DEF SplitFileSizeIntoBlockMap, Room
  <2>2. n \in Nat
    BY <1>1
  <2> QED BY <2>1, <2>2
<1>3. CASE ~(Cardinality(mapFileBlocks) < Window \div 2)
  <2>1. idle' = idle /\ lastBlockPos' = lastBlockPos
    BY <1>3 DEF SplitFileSizeIntoBlockMap
  <2>2. lastBlockPos..(lastBlockPos + 0 - 1) = {}
    BY <1>1
  <2>3. lastBlockPos' = lastBlockPos + 0
    BY <1>1, <2>1
  <2> QED BY <2>1, <2>2, <2>3
<1> QED BY <1>2, <1>3

(* The initial state has the types and accounts for its (no) blocks. *)
LEMMA InitIndInv == Init => IndInv
<1> SUFFICES ASSUME Init PROVE IndInv
  OBVIOUS
<1>1. TypeOK
  BY SizesAssumption DEF Init, TypeOK
<1>2. Entries(<<>>) = {}
  BY DEF Entries
<1>3. BlockInOnePlace
  BY <1>2 DEF Init, BlockInOnePlace, mapFileBlocks, handled, NoRepeats
<1>4. CountExact
  BY FS_EmptySet DEF Init, CountExact, handled
<1>5. OnlyRealBlocks /\ ReceiverAtTotal
  BY <1>2 DEF Init, OnlyRealBlocks, ReceiverAtTotal, handled
<1>6. /\ \A b \in spoilt : Offset(b) # b * BlockSize
      /\ CutWithinFile
  BY DEF Init, CutWithinFile
<1> QED BY <1>1, <1>3, <1>4, <1>5, <1>6 DEF IndInv

(* No step takes a variable out of its type. *)
LEMMA StepTypeOK ==
    ASSUME IndInv, [Next]_vars
    PROVE  TypeOK'
<1> USE SizesAssumption, PeersAssumption
    DEF vars, loopVars, mapVars, listVars, senderVars, rcvVars, uiVars
<1>0. TypeOK
  BY DEF IndInv
<1>1. CASE UpdateDone
  BY <1>0, <1>1 DEF TypeOK, UpdateDone
<1>2. CASE SplitFileSizeIntoBlockMap
  <2>1. PICK n \in Nat : /\ lastBlockPos' = lastBlockPos + n
                         /\ idle' = idle \cup (lastBlockPos..(lastBlockPos + n - 1))
    BY <1>2, SplitStep
  <2>2. lastBlockPos' \in Nat /\ idle' \subseteq Nat
    BY <1>0, <2>1 DEF TypeOK
  <2> QED BY <1>0, <1>2, <2>2 DEF TypeOK, SplitFileSizeIntoBlockMap
<1>3. CASE GetBlocks
  <2>1. /\ pc' \in {"get", "push", "take"} /\ idx' \in {idx, idx + 1}
        /\ iGetBlockRes' \in {0, 1, iGetBlockRes}
    BY <1>3 DEF GetBlocks
  <2>2. UNCHANGED <<vBlocks, mapVars, listVars, senderVars, data, rcvVars, uiVars>>
    BY <1>3 DEF GetBlocks
  <2> QED BY <1>0, <2>1, <2>2 DEF TypeOK
<1>4. CASE TakeBatch
  <2>1. /\ pc' \in {"get", "push"} /\ idx' \in {idx, idx + 1}
        /\ iGetBlockRes' \in {1, 2}
    BY <1>4 DEF TakeBatch
  <2>2. /\ vBlocks' \subseteq idle /\ idle' \subseteq idle
        /\ issued' \subseteq issued \cup idle /\ fresh' \subseteq issued'
    BY <1>0, <1>4 DEF TypeOK, TakeBatch, Batch
  <2>3. UNCHANGED <<lastBlockPos, listVars, senderVars, data, rcvVars, uiVars>>
    BY <1>4 DEF TakeBatch
  <2> QED BY <1>0, <2>1, <2>2, <2>3 DEF TypeOK
<1>5. CASE PushTask
  <2>1. vBlocks' \subseteq Nat /\ sTask' \in [Provider -> SUBSET Nat]
    BY <1>0, <1>5 DEF TypeOK, PushTask
  <2>2. pc' = "get" /\ idx' = idx + 1
    BY <1>5 DEF PushTask
  <2>3. UNCHANGED <<iGetBlockRes, mapVars, listVars, sPc, sRelay, sRetry, sMsg,
                    data, rcvVars, uiVars>>
    BY <1>5 DEF PushTask
  <2> QED BY <1>0, <2>1, <2>2, <2>3 DEF TypeOK
<1>6. CASE EndOfSenders
  BY <1>0, <1>6 DEF TypeOK, EndOfSenders
<1>7. CASE TimeoutElapsed
  BY <1>0, <1>7 DEF TypeOK, TimeoutElapsed
<1>8. CASE TimeoutNotYet
  BY <1>0, <1>8 DEF TypeOK, TimeoutNotYet
<1>9. CASE SleepRound
  BY <1>0, <1>9 DEF TypeOK, SleepRound
<1>10. ASSUME NEW p \in Provider, AddProvider(p) PROVE TypeOK'
  <2>1. vObjSender' \in Seq(Provider)
    BY <1>0, <1>10, AppendProperties DEF TypeOK, AddProvider
  <2> QED BY <1>0, <1>10, <2>1 DEF TypeOK, AddProvider
<1>11. ASSUME NEW p \in Provider, MakeRequestHeader(p) PROVE TypeOK'
  BY <1>0, <1>11 DEF TypeOK, MakeRequestHeader
<1>12. ASSUME NEW p \in Provider, SendOk(p) PROVE TypeOK'
  <2>1. sMsg \in [Provider -> SUBSET Nat] /\ sRetry \in [Provider -> 0..MaxRetry]
    BY <1>0 DEF TypeOK
  <2>2. data' \subseteq Nat
    BY <1>0, <1>12, <2>1 DEF TypeOK, SendOk
  <2>3. sMsg' \in [Provider -> SUBSET Nat]
    BY <1>12, <2>1 DEF SendOk
  <2>4. 0 \in 0..MaxRetry
    OBVIOUS
  <2>5. sRetry' \in [Provider -> 0..MaxRetry]
    BY <1>12, <2>1, <2>4 DEF SendOk
  <2> QED BY <1>0, <1>12, <2>2, <2>3, <2>5 DEF TypeOK, SendOk
<1>13. ASSUME NEW p \in Provider, SendFail(p) PROVE TypeOK'
  <2>1. sMsg \in [Provider -> SUBSET Nat] /\ sRetry \in [Provider -> 0..MaxRetry]
    BY <1>0 DEF TypeOK
  <2>2. PICK r \in 0..MaxRetry : sRetry' = [sRetry EXCEPT ![p] = r]
    <3>1. CASE sRetry[p] < MaxRetry
      <4>1. sRetry[p] + 1 \in 0..MaxRetry
        BY <2>1, <3>1
      <4> QED BY <1>13, <3>1, <4>1 DEF SendFail
    <3>2. CASE ~(sRetry[p] < MaxRetry)
      <4>1. 0 \in 0..MaxRetry
        OBVIOUS
      <4> QED BY <1>13, <3>2, <4>1 DEF SendFail
    <3> QED BY <3>1, <3>2
  <2>3. sRetry' \in [Provider -> 0..MaxRetry]
    BY <2>1, <2>2
  <2>4. sMsg' \in [Provider -> SUBSET Nat]
    BY <1>13, <2>1 DEF SendFail
  <2> QED BY <1>0, <1>13, <2>3, <2>4 DEF TypeOK, SendFail
<1>14. ASSUME NEW p \in Provider, LookupExit(p) PROVE TypeOK'
  BY <1>0, <1>14 DEF TypeOK, LookupExit
<1>15. ASSUME NEW p \in Provider, AnswerYes(p) PROVE TypeOK'
  BY <1>0, <1>15 DEF TypeOK, AnswerYes
<1>16. ASSUME NEW p \in Provider, AnswerNo(p) PROVE TypeOK'
  BY <1>0, <1>16 DEF TypeOK, AnswerNo
<1>17. ASSUME NEW p \in Provider, RemoveFailConnSender(p) PROVE TypeOK'
  <2>1. vObjSender' \in Seq(Provider)
    BY <1>0, <1>17, UnlistType DEF TypeOK, RemoveFailConnSender
  <2>2. uiQ' \in Seq({"finished", "abort"})
    BY <1>0, <1>17, AppendProperties DEF TypeOK, RemoveFailConnSender
  <2> QED BY <1>0, <1>17, <2>1, <2>2 DEF TypeOK, RemoveFailConnSender
<1>18. ASSUME NEW b \in data, Lose(b) PROVE TypeOK'
  BY <1>0, <1>18 DEF TypeOK, Lose
<1>19. ASSUME NEW b \in data, Recieve(b) PROVE TypeOK'
  <2>1. vdata' \in Seq(Nat)
    <3>1. b \in Nat /\ vdata \in Seq(Nat)
      BY <1>0 DEF TypeOK
    <3>2. vdata' = vdata \/ vdata' = Append(vdata, b)
      BY <1>19 DEF Recieve
    <3> QED BY <3>1, <3>2, AppendProperties
  <2>2. /\ data' \subseteq Nat /\ idle' \subseteq Nat /\ issued' \subseteq Nat
        /\ fresh' \subseteq issued'
    BY <1>0, <1>19 DEF TypeOK, Recieve
  <2> QED BY <1>0, <1>19, <2>1, <2>2 DEF TypeOK, Recieve
<1>20. CASE WriteBlock
  <2>1. Head(vdata) \in Nat /\ vdata' \in Seq(Nat)
    BY <1>0, <1>20, HeadTailProperties DEF TypeOK, WriteBlock
  <2>2. written' \subseteq Nat /\ spoilt' \subseteq Nat
    BY <1>0, <1>20, <2>1 DEF TypeOK, WriteBlock
  <2>3. received' \in Nat /\ rcv' \in {"run", "closing", "gone"}
    BY <1>0, <1>20 DEF TypeOK, WriteBlock
  <2>4. UNCHANGED <<loopVars, mapVars, listVars, senderVars, data, uiVars>>
    BY <1>20 DEF WriteBlock
  <2> QED BY <1>0, <2>1, <2>2, <2>3, <2>4 DEF TypeOK
<1>21. CASE CloseFile
  <2>1. uiQ' \in Seq({"finished", "abort"})
    BY <1>0, <1>21, AppendProperties DEF TypeOK, CloseFile
  <2> QED BY <1>0, <1>21, <2>1 DEF TypeOK, CloseFile
<1>22. CASE HandleMessage
  <2>1. uiQ' \in Seq({"finished", "abort"})
    BY <1>0, <1>22, HeadTailProperties DEF TypeOK, HandleMessage
  <2> QED BY <1>0, <1>22, <2>1 DEF TypeOK, HandleMessage
<1>23. CASE UNCHANGED vars
  BY <1>0, <1>23 DEF TypeOK
<1> QED
  BY <1>1, <1>2, <1>3, <1>4, <1>5, <1>6, <1>7, <1>8, <1>9, <1>10, <1>11, <1>12,
     <1>13, <1>14, <1>15, <1>16, <1>17, <1>18, <1>19, <1>20, <1>21, <1>22, <1>23
  DEF Next, Round, Sender, Deleted

-----------------------------------------------------------------------------
(* Every block cut from the file is in exactly one place.                  *)

SpoiltWrapped == ~DiskFaults => \A b \in spoilt : Offset(b) # b * BlockSize

(* What a block's place depends on. *)
placeVars == <<lastBlockPos, idle, issued, vdata, received, written, spoilt>>

(* The steps that move no block leave the account as it is. *)
LEMMA FramePlaces ==
    ASSUME IndInv, UNCHANGED placeVars
    PROVE  (BlockInOnePlace /\ CutWithinFile /\ CountExact /\ SpoiltWrapped)'
  BY DEF IndInv, placeVars, BlockInOnePlace, CutWithinFile, CountExact,
         SpoiltWrapped, mapFileBlocks, handled, Entries, NoRepeats, PastEnd,
         Offset

(* The steps that may move blocks: splitting, taking a batch, resetting    *)
(* stamps, accepting a block and writing it. All others are frame steps.   *)
LEMMA MovingSteps ==
    ASSUME [Next]_vars
    PROVE  \/ UNCHANGED placeVars
           \/ SplitFileSizeIntoBlockMap \/ TakeBatch \/ TimeoutElapsed
           \/ \E b \in data : Recieve(b)
           \/ WriteBlock
<1> USE DEF vars, placeVars, loopVars, mapVars, listVars, senderVars, rcvVars,
            uiVars
<1>1. CASE Round
  BY <1>1 DEF Round, UpdateDone, GetBlocks, PushTask, EndOfSenders,
              TimeoutNotYet, SleepRound
<1>2. ASSUME NEW p \in Provider, AddProvider(p) \/ Sender(p) \/ LookupExit(p)
      PROVE  UNCHANGED placeVars
  BY <1>2 DEF AddProvider, Sender, LookupExit, MakeRequestHeader, SendOk,
              SendFail, AnswerYes, AnswerNo, RemoveFailConnSender
<1>3. ASSUME NEW b \in data, Lose(b) PROVE UNCHANGED placeVars
  BY <1>3 DEF Lose
<1>4. CASE CloseFile \/ HandleMessage \/ Deleted \/ UNCHANGED vars
  BY <1>4 DEF CloseFile, HandleMessage, Deleted
<1> QED BY <1>1, <1>2, <1>3, <1>4 DEF Next

(* No step puts a block in two places, loses one, or miscounts. *)
LEMMA StepPlaces ==
    ASSUME IndInv, [Next]_vars
    PROVE  (BlockInOnePlace /\ CutWithinFile /\ CountExact /\ SpoiltWrapped)'
<1>0. TypeOK /\ BlockInOnePlace /\ CutWithinFile /\ CountExact /\ SpoiltWrapped
  BY DEF IndInv, SpoiltWrapped
<1> USE DEF mapFileBlocks, handled
<1>1. CASE UNCHANGED placeVars
  BY <1>1, FramePlaces
<1>2. CASE SplitFileSizeIntoBlockMap
  <2>1. PICK n \in Nat : /\ lastBlockPos' = lastBlockPos + n
                         /\ idle' = idle \cup (lastBlockPos..(lastBlockPos + n - 1))
                         /\ \A k \in 0..(n - 1) : ~PastEnd(lastBlockPos + k)
    BY <1>2, SplitStep
  <2>2. UNCHANGED <<issued, vdata, received, written, spoilt>>
    BY <1>2 DEF SplitFileSizeIntoBlockMap, rcvVars
  <2>3. lastBlockPos \in Nat
    BY <1>0 DEF TypeOK
  <2>4. 0..(lastBlockPos' - 1) =
          (0..(lastBlockPos - 1)) \cup (lastBlockPos..(lastBlockPos + n - 1))
    BY <2>1, <2>3
  <2>5. (0..(lastBlockPos - 1)) \cap (lastBlockPos..(lastBlockPos + n - 1)) = {}
    BY <2>3
  <2>6. Entries(vdata)' = Entries(vdata) /\ NoRepeats(vdata)' = NoRepeats(vdata)
    BY <2>2 DEF Entries, NoRepeats
  <2>7. BlockInOnePlace'
    BY <1>0, <2>1, <2>2, <2>4, <2>5, <2>6 DEF BlockInOnePlace
  <2>8. ASSUME NEW k \in 0..(lastBlockPos' - 1) PROVE ~PastEnd(k)
    <3>1. CASE k \in 0..(lastBlockPos - 1)
      BY <1>0, <3>1 DEF CutWithinFile
    <3>2. CASE k \in lastBlockPos..(lastBlockPos + n - 1)
      <4>1. PICK j \in 0..(n - 1) : k = lastBlockPos + j
        BY <2>3, <3>2
      <4> QED BY <2>1, <4>1
    <3> QED BY <2>4, <3>1, <3>2
  <2>9. CutWithinFile'
    BY <2>8 DEF CutWithinFile, PastEnd, Offset
  <2> QED BY <1>0, <2>2, <2>7, <2>9 DEF CutWithinFile, PastEnd, CountExact, SpoiltWrapped,
                                     Offset
<1>3. CASE TakeBatch \/ TimeoutElapsed
  <2>1. UNCHANGED <<lastBlockPos, vdata, received, written, spoilt>>
    BY <1>3 DEF TakeBatch, TimeoutElapsed, rcvVars
  <2>2. idle' \cap issued' = {} /\ idle' \cup issued' = idle \cup issued
    <3>1. CASE TakeBatch
      BY <1>0, <3>1 DEF TakeBatch, Batch, BlockInOnePlace
    <3>2. CASE TimeoutElapsed
      BY <1>0, <3>2 DEF TimeoutElapsed, TypeOK, BlockInOnePlace
    <3> QED BY <1>3, <3>1, <3>2
  <2>3. Entries(vdata)' = Entries(vdata) /\ NoRepeats(vdata)' = NoRepeats(vdata)
    BY <2>1 DEF Entries, NoRepeats
  <2>4. BlockInOnePlace'
    BY <1>0, <2>1, <2>2, <2>3 DEF BlockInOnePlace
  <2> QED BY <1>0, <2>1, <2>4 DEF CutWithinFile, PastEnd, CountExact, SpoiltWrapped,
                                     Offset
<1>4. ASSUME NEW b \in data, Recieve(b)
      PROVE  (BlockInOnePlace /\ CutWithinFile /\ CountExact /\ SpoiltWrapped)'
  <2>1. UNCHANGED <<lastBlockPos, received, written, spoilt>>
    BY <1>4 DEF Recieve
  <2>2. CASE b \in idle \cup issued
    <3>1. /\ vdata' = Append(vdata, b)
          /\ idle' = idle \ {b} /\ issued' = issued \ {b}
      BY <1>4, <2>2 DEF Recieve
    <3>2. b \notin Entries(vdata) /\ b \in Nat /\ vdata \in Seq(Nat)
      BY <1>0, <2>2 DEF BlockInOnePlace, TypeOK
    <3>3. Entries(vdata)' = Entries(vdata) \cup {b} /\ NoRepeats(vdata)'
      <4>1. NoRepeats(vdata)
        BY <1>0 DEF BlockInOnePlace
      <4>2. /\ Entries(Append(vdata, b)) = Entries(vdata) \cup {b}
            /\ NoRepeats(Append(vdata, b))
        BY <3>2, <4>1, EntriesAppend
      <4> QED BY <3>1, <4>2 DEF Entries, NoRepeats
    <3>4. BlockInOnePlace'
      BY <1>0, <2>1, <2>2, <3>1, <3>3 DEF BlockInOnePlace
    <3> QED BY <1>0, <2>1, <3>4 DEF CutWithinFile, PastEnd, CountExact, SpoiltWrapped,
                                     Offset
  <2>3. CASE b \notin idle \cup issued
    <3>1. UNCHANGED placeVars
      BY <1>4, <2>1, <2>3 DEF Recieve, placeVars
    <3> QED BY <3>1, FramePlaces
  <2> QED BY <2>2, <2>3
<1>5. CASE WriteBlock
  <2> DEFINE b == Head(vdata)
  <2>1. /\ vdata # <<>> /\ vdata' = Tail(vdata) /\ received' = received + 1
        /\ UNCHANGED <<lastBlockPos, idle, issued>>
    BY <1>5 DEF WriteBlock, mapVars
  <2>2. \/ written' = written \cup {b} /\ spoilt' = spoilt
        \/ /\ written' = written /\ spoilt' = spoilt \cup {b}
           /\ DiskFaults \/ Offset(b) # b * BlockSize
    <3>1. PICK ok \in IF DiskFaults THEN BOOLEAN ELSE {TRUE} :
             IF ok /\ Offset(b) = b * BlockSize
             THEN written' = written \cup {b} /\ UNCHANGED spoilt
             ELSE spoilt' = spoilt \cup {b} /\ UNCHANGED written
      BY <1>5 DEF WriteBlock
    <3>2. CASE DiskFaults
      BY <3>1, <3>2
    <3>3. CASE ~DiskFaults
      BY <3>1, <3>3
    <3> QED BY <3>2, <3>3
  <2>3. vdata \in Seq(Nat) /\ NoRepeats(vdata)
    BY <1>0 DEF TypeOK, BlockInOnePlace
  <2>4. /\ Entries(vdata) = Entries(Tail(vdata)) \cup {b}
        /\ NoRepeats(Tail(vdata)) /\ b \notin Entries(Tail(vdata))
    BY <2>1, <2>3, EntriesTail
  <2>5. Entries(vdata)' = Entries(Tail(vdata)) /\ NoRepeats(vdata)'
    BY <2>1, <2>4 DEF Entries, NoRepeats
  <2>6. b \notin written \cup spoilt
    BY <1>0, <2>4 DEF BlockInOnePlace
  <2>7. (written \cup spoilt)' = (written \cup spoilt) \cup {b}
    BY <2>2
  <2>8. BlockInOnePlace'
    <3>1. (written \cap spoilt)' = {}
      BY <1>0, <2>2, <2>6 DEF BlockInOnePlace
    <3> QED BY <1>0, <2>1, <2>4, <2>5, <2>6, <2>7, <3>1 DEF BlockInOnePlace
  <2>9. CountExact'
    <3>1. /\ IsFiniteSet((written \cup spoilt) \cup {b})
          /\ Cardinality((written \cup spoilt) \cup {b}) =
                Cardinality(written \cup spoilt) + 1
      BY <1>0, <2>6, FS_AddElement DEF CountExact
    <3> QED BY <1>0, <2>1, <2>7, <3>1 DEF CountExact
  <2>10. SpoiltWrapped'
    BY <1>0, <2>2 DEF SpoiltWrapped, Offset
  <2>11. CutWithinFile'
    BY <1>0, <2>1 DEF CutWithinFile, PastEnd, Offset
  <2> QED BY <2>8, <2>9, <2>10, <2>11
<1> QED BY <1>1, <1>2, <1>3, <1>4, <1>5, MovingSteps

-----------------------------------------------------------------------------
(* Only blocks of the file travel, and the receiver stops at its total.    *)

(* No step lets a block arrive that no provider can have sent. *)
LEMMA StepOnlyRealBlocks ==
    ASSUME IndInv, [Next]_vars
    PROVE  OnlyRealBlocks'
<1> DEFINE seen == data \cup Entries(vdata) \cup handled
<1>0. OnlyRealBlocks
  BY DEF IndInv
<1> SUFFICES seen' \subseteq seen \cup {b \in Nat : HasData(b)}
  BY <1>0 DEF OnlyRealBlocks, HasData, Offset
<1>1. vdata \in Seq(Nat)
  BY DEF IndInv, TypeOK
<1>2. CASE UNCHANGED <<data, vdata, written, spoilt>>
  BY <1>2 DEF handled, Entries
<1>3. ASSUME NEW p \in Provider, SendOk(p)
      PROVE  seen' \subseteq seen \cup {b \in Nat : HasData(b)}
  <2>1. sMsg[p] \subseteq Nat
    BY DEF IndInv, TypeOK
  <2>2. data' \subseteq data \cup {b \in Nat : HasData(b)}
    BY <1>3, <2>1 DEF SendOk
  <2>3. UNCHANGED <<vdata, written, spoilt>>
    BY <1>3 DEF SendOk, rcvVars
  <2> QED BY <2>2, <2>3 DEF handled, Entries
<1>4. ASSUME NEW b \in data, Lose(b) PROVE seen' \subseteq seen
  BY <1>4 DEF Lose, rcvVars, handled, Entries
<1>5. ASSUME NEW b \in data, Recieve(b) PROVE seen' \subseteq seen
  <2>1. b \in Nat
    BY DEF IndInv, TypeOK
  <2>2. Entries(Append(vdata, b)) = Entries(vdata) \cup {b}
    BY <1>1, <2>1, EntriesAppend
  <2>3. Entries(vdata)' \subseteq Entries(vdata) \cup {b}
    BY <1>5, <2>2 DEF Recieve, Entries
  <2>4. data' \subseteq data /\ handled' = handled
    BY <1>5 DEF Recieve, handled
  <2> QED BY <2>3, <2>4
<1>6. CASE WriteBlock
  <2>1. vdata # <<>> /\ vdata' = Tail(vdata) /\ data' = data
    BY <1>6 DEF WriteBlock
  <2>2. Entries(vdata) = Entries(Tail(vdata)) \cup {Head(vdata)}
    BY <1>1, <2>1, EntriesTail
  <2>3. Entries(vdata)' = Entries(Tail(vdata))
    BY <2>1 DEF Entries
  <2>4. handled' \subseteq handled \cup {Head(vdata)}
    BY <1>6 DEF WriteBlock, handled
  <2> QED BY <2>1, <2>2, <2>3, <2>4
<1>7. \/ UNCHANGED <<data, vdata, written, spoilt>>
      \/ \E p \in Provider : SendOk(p)
      \/ \E b \in data : Lose(b) \/ Recieve(b)
      \/ WriteBlock
  <2> USE DEF vars, rcvVars
  <2>1. CASE Round
    BY <2>1 DEF Round, UpdateDone, SplitFileSizeIntoBlockMap, GetBlocks,
                TakeBatch, PushTask, EndOfSenders, TimeoutElapsed,
                TimeoutNotYet, SleepRound
  <2>2. ASSUME NEW p \in Provider,
               AddProvider(p) \/ Sender(p) \/ LookupExit(p), ~SendOk(p)
        PROVE  UNCHANGED <<data, vdata, written, spoilt>>
    BY <2>2 DEF AddProvider, Sender, LookupExit, MakeRequestHeader, SendFail,
                AnswerYes, AnswerNo, RemoveFailConnSender
  <2>3. CASE CloseFile \/ HandleMessage \/ Deleted \/ UNCHANGED vars
    BY <2>3 DEF CloseFile, HandleMessage, Deleted
  <2> QED BY <2>1, <2>2, <2>3 DEF Next
<1> QED BY <1>2, <1>3, <1>4, <1>5, <1>6, <1>7

(* The receiver leaves its loop at its total and reports only after that.  *)
LEMMA StepReceiverAtTotal ==
    ASSUME IndInv, [Next]_vars
    PROVE  ReceiverAtTotal'
<1>0. ReceiverAtTotal /\ uiQ \in Seq({"finished", "abort"})
  BY DEF IndInv, TypeOK
<1>1. CASE UNCHANGED <<rcv, received, uiQ>>
  BY <1>0, <1>1 DEF ReceiverAtTotal, Entries, TotalBlocks
<1>2. ASSUME NEW p \in Provider, RemoveFailConnSender(p) PROVE ReceiverAtTotal'
  <2>1. UNCHANGED <<rcv, received>> /\ uiQ' \in {uiQ, Append(uiQ, "abort")}
    BY <1>2 DEF RemoveFailConnSender, rcvVars
  <2>2. Entries(Append(uiQ, "abort")) = Entries(uiQ) \cup {"abort"}
    BY <1>0, EntriesAppend
  <2>3. "finished" \in Entries(uiQ)' => "finished" \in Entries(uiQ)
    BY <2>1, <2>2 DEF Entries
  <2> QED BY <1>0, <2>1, <2>3 DEF ReceiverAtTotal, TotalBlocks
<1>3. CASE WriteBlock
  <2>1. /\ rcv = "run" /\ uiQ' = uiQ
        /\ rcv' = (IF received' = TotalBlocks THEN "closing" ELSE "run")
    BY <1>3 DEF WriteBlock, uiVars
  <2>2. "finished" \notin Entries(uiQ)'
    BY <1>0, <2>1 DEF ReceiverAtTotal, Entries
  <2> QED BY <2>1, <2>2 DEF ReceiverAtTotal, TotalBlocks
<1>4. CASE CloseFile
  BY <1>0, <1>4 DEF CloseFile, ReceiverAtTotal, TotalBlocks
<1>5. CASE HandleMessage
  <2>1. UNCHANGED <<rcv, received>> /\ uiQ # <<>> /\ uiQ' = Tail(uiQ)
    BY <1>5 DEF HandleMessage, rcvVars
  <2>2. Entries(uiQ) = Entries(Tail(uiQ)) \cup {Head(uiQ)}
    BY <1>0, <2>1, EntriesTail
  <2>3. Entries(uiQ)' = Entries(Tail(uiQ))
    BY <2>1 DEF Entries
  <2> QED BY <1>0, <2>1, <2>2, <2>3 DEF ReceiverAtTotal, TotalBlocks
<1>6. \/ UNCHANGED <<rcv, received, uiQ>>
      \/ \E p \in Provider : RemoveFailConnSender(p)
      \/ WriteBlock \/ CloseFile \/ HandleMessage
  <2> USE DEF vars, rcvVars, uiVars
  <2>1. CASE Round
    BY <2>1 DEF Round, UpdateDone, SplitFileSizeIntoBlockMap, GetBlocks,
                TakeBatch, PushTask, EndOfSenders, TimeoutElapsed,
                TimeoutNotYet, SleepRound
  <2>2. ASSUME NEW p \in Provider,
               AddProvider(p) \/ Sender(p) \/ LookupExit(p),
               ~RemoveFailConnSender(p)
        PROVE  UNCHANGED <<rcv, received, uiQ>>
    BY <2>2 DEF AddProvider, Sender, LookupExit, MakeRequestHeader, SendOk,
                SendFail, AnswerYes, AnswerNo
  <2>3. ASSUME NEW b \in data, Lose(b) \/ Recieve(b)
        PROVE  UNCHANGED <<rcv, received, uiQ>>
    BY <2>3 DEF Lose, Recieve
  <2>4. CASE Deleted \/ UNCHANGED vars
    BY <2>4 DEF Deleted
  <2> QED BY <2>1, <2>2, <2>3, <2>4 DEF Next
<1> QED BY <1>1, <1>2, <1>3, <1>4, <1>5, <1>6

-----------------------------------------------------------------------------
(* The inductive invariant is one: for any providers, sizes and limits,    *)
(* every block cut from the file is in exactly one of the map, the         *)
(* receiver's cache and the disk, and the counter counts the latter.       *)
THEOREM Accounting == Spec => []IndInv
<1>1. Init => IndInv
  BY InitIndInv
<1>2. IndInv /\ [Next]_vars => IndInv'
  BY StepTypeOK, StepPlaces, StepOnlyRealBlocks, StepReceiverAtTotal
  DEF IndInv, SpoiltWrapped
<1> QED BY <1>1, <1>2, PTL DEF Spec

(* Every variable keeps its type. *)
THEOREM TypeCorrect == Spec => []TypeOK
<1>1. IndInv => TypeOK
  BY DEF IndInv
<1> QED BY <1>1, Accounting, PTL

(* Every block cut from the file is in exactly one place, however the      *)
(* downloader, the reader thread and the receiver interleave.              *)
THEOREM BlocksAreInOnePlace == Spec => []BlockInOnePlace
<1>1. IndInv => BlockInOnePlace
  BY DEF IndInv
<1> QED BY <1>1, Accounting, PTL

(* The receiver's counter is the number of different blocks it has         *)
(* handled, however often a block's data arrives.                          *)
THEOREM CountIsExact == Spec => []CountExact
<1>1. IndInv => CountExact
  BY DEF IndInv
<1> QED BY <1>1, Accounting, PTL

-----------------------------------------------------------------------------
(* Block arithmetic of a file small enough for a DWORD.                    *)

(* Division brackets its dividend. *)
LEMMA Bracket ==
    ASSUME NEW m \in Nat, NEW d \in Nat \ {0}
    PROVE  /\ m \div d \in Nat
           /\ (m \div d) * d <= m
           /\ m < ((m \div d) + 1) * d
  OBVIOUS

(* Multiples of a positive number grow with the factor. *)
LEMMA Multiples ==
    ASSUME NEW a \in Int, NEW b \in Int, NEW d \in Nat \ {0}
    PROVE  /\ a <= b => a * d <= b * d
           /\ a < b => a * d < b * d
           /\ (a + 1) * d = a * d + d
  OBVIOUS

(* A product that stays below the modulus does not wrap. *)
LEMMA NoWrap ==
    ASSUME NEW m \in Nat, m < DWordMod
    PROVE  m % DWordMod = m
  BY SizesAssumption

(* No block that was cut lies beyond the end of the file, so none wraps.   *)
LEMMA CutBlocksDoNotWrap ==
    ASSUME IndInv, SmallFile, NEW b \in 0..(lastBlockPos - 1)
    PROVE  b * BlockSize <= FileSize /\ Offset(b) = b * BlockSize
<1> DEFINE k == (FileSize \div BlockSize) + 1
<1>1. /\ FileSize \in Nat /\ BlockSize \in Nat \ {0} /\ DWordMod \in Nat \ {0}
      /\ lastBlockPos \in Nat /\ b \in Nat /\ FileSize + BlockSize < DWordMod
  BY SizesAssumption DEF IndInv, TypeOK, SmallFile
<1>2. /\ k \in Nat /\ FileSize < k * BlockSize
      /\ (FileSize \div BlockSize) * BlockSize <= FileSize
  BY <1>1, Bracket
<1>3. k * BlockSize <= FileSize + BlockSize
  <2>1. k * BlockSize = (FileSize \div BlockSize) * BlockSize + BlockSize
    BY <1>1, Bracket, Multiples
  <2>2. (FileSize \div BlockSize) * BlockSize \in Nat
    BY <1>1, Bracket
  <2> QED BY <1>1, <1>2, <2>1, <2>2
<1>4. PastEnd(k)
  <2>1. k * BlockSize \in Nat /\ k * BlockSize < DWordMod
    BY <1>1, <1>2, <1>3
  <2>2. Offset(k) = k * BlockSize
    BY <2>1, NoWrap DEF Offset
  <2> QED BY <1>2, <2>2 DEF PastEnd
<1>5. k \notin 0..(lastBlockPos - 1)
  BY <1>4 DEF IndInv, CutWithinFile
<1>6. b <= FileSize \div BlockSize
  BY <1>1, <1>2, <1>5, Bracket
<1>7. b * BlockSize <= FileSize
  <2>1. b * BlockSize <= (FileSize \div BlockSize) * BlockSize
    BY <1>1, <1>6, Bracket, Multiples
  <2>2. b * BlockSize \in Nat /\ (FileSize \div BlockSize) * BlockSize \in Nat
    BY <1>1, Bracket
  <2> QED BY <1>1, <1>2, <2>1, <2>2
<1>8. Offset(b) = b * BlockSize
  <2>1. b * BlockSize \in Nat /\ b * BlockSize < DWordMod
    BY <1>1, <1>7
  <2> QED BY <2>1, NoWrap DEF Offset
<1> QED BY <1>7, <1>8

(* The receiver's total is the number of the file's blocks. *)
LEMMA TotalIsFileBlocks ==
    ASSUME SmallFile
    PROVE  /\ IsFiniteSet(FileBlocks)
           /\ Cardinality(FileBlocks) = TotalBlocks
<1> DEFINE T == (FileSize + BlockSize - 1) \div BlockSize
           m == FileSize + BlockSize - 1
<1>1. /\ FileSize \in Nat /\ BlockSize \in Nat \ {0} /\ DWordMod \in Nat \ {0}
      /\ FileSize < DWordMod /\ m \in Nat
  BY SizesAssumption DEF SmallFile
<1>2. TotalBlocks = T
  BY <1>1, NoWrap DEF TotalBlocks
<1>3. /\ T \in Nat /\ T * BlockSize \in Nat
      /\ T * BlockSize <= m /\ m < (T + 1) * BlockSize
      /\ (T + 1) * BlockSize = T * BlockSize + BlockSize
  BY <1>1, Bracket, Multiples
<1>4. ASSUME NEW b \in Nat
      PROVE  b * BlockSize < FileSize <=> b < T
  <2>1. CASE b < T
    <3>1. b * BlockSize + BlockSize <= T * BlockSize /\ b * BlockSize \in Nat
      <4>1. (b + 1) * BlockSize <= T * BlockSize
        BY <1>1, <1>3, <2>1, Multiples
      <4> QED BY <1>1, <4>1, Multiples
    <3> QED BY <1>1, <1>3, <2>1, <3>1
  <2>2. CASE ~(b < T)
    <3>1. T * BlockSize <= b * BlockSize /\ b * BlockSize \in Nat
      BY <1>1, <1>3, <2>2, Multiples
    <3> QED BY <1>1, <1>3, <2>2, <3>1
  <2> QED BY <2>1, <2>2
<1>5. FileBlocks = 0..(T - 1)
  <2>1. FileSize \div BlockSize \in Nat
    BY <1>1, Bracket
  <2>2. ASSUME NEW b \in FileBlocks PROVE b \in 0..(T - 1)
    <3>1. b \in Nat /\ b * BlockSize < FileSize
      BY <2>1 DEF FileBlocks
    <3>2. b < T
      BY <3>1, <1>4
    <3> QED BY <3>1, <3>2, <1>3
  <2>3. ASSUME NEW b \in 0..(T - 1) PROVE b \in FileBlocks
    <3>1. b \in Nat /\ b < T
      BY <1>3
    <3>2. b * BlockSize < FileSize /\ b * BlockSize \in Nat
      BY <1>1, <1>4, <3>1
    <3>3. b <= FileSize \div BlockSize
      <4>1. SUFFICES ASSUME ~(b <= FileSize \div BlockSize) PROVE FALSE
        OBVIOUS
      <4>2. (FileSize \div BlockSize) + 1 <= b
        BY <2>1, <3>1, <4>1
      <4>3. ((FileSize \div BlockSize) + 1) * BlockSize <= b * BlockSize
        BY <1>1, <2>1, <3>1, <4>2, Multiples
      <4>4. FileSize < ((FileSize \div BlockSize) + 1) * BlockSize
        BY <1>1, Bracket
      <4>5. ((FileSize \div BlockSize) + 1) * BlockSize \in Nat
        BY <1>1, <2>1
      <4> QED BY <1>1, <3>2, <4>3, <4>4, <4>5
    <3> QED BY <2>1, <3>1, <3>2, <3>3 DEF FileBlocks
  <2> QED BY <2>2, <2>3
<1>6. IsFiniteSet(0..(T - 1)) /\ Cardinality(0..(T - 1)) = T
  <2> HIDE DEF T
  <2>1. T - 1 \in Int /\ 0 \in Int
    BY <1>3
  <2>2. /\ IsFiniteSet(0..(T - 1))
        /\ Cardinality(0..(T - 1)) = IF 0 > T - 1 THEN 0 ELSE (T - 1) - 0 + 1
    BY <2>1, FS_Interval
  <2> QED BY <1>3, <2>2
<1> QED BY <1>2, <1>5, <1>6

-----------------------------------------------------------------------------
(* What the accounting gives a small file on a sound disk.                 *)

(* Every block that was cut and has data is a block of the file.           *)
LEMMA RealBlocksAreFileBlocks ==
    ASSUME IndInv, SmallFile,
           NEW b \in 0..(lastBlockPos - 1), HasData(b)
    PROVE  b \in FileBlocks
<1>0. /\ FileSize \in Nat /\ BlockSize \in Nat \ {0} /\ lastBlockPos \in Nat
  BY SizesAssumption DEF IndInv, TypeOK
<1>1. /\ FileSize \in Nat /\ BlockSize \in Nat \ {0} /\ b \in Nat
      /\ FileSize \div BlockSize \in Nat
  BY <1>0, Bracket
<1>2. b * BlockSize < FileSize /\ b * BlockSize \in Nat
  BY <1>1, CutBlocksDoNotWrap DEF HasData
<1>3. b <= FileSize \div BlockSize
  <2>1. SUFFICES ASSUME ~(b <= FileSize \div BlockSize) PROVE FALSE
    OBVIOUS
  <2>2. ((FileSize \div BlockSize) + 1) * BlockSize <= b * BlockSize
    BY <1>1, <2>1, Multiples
  <2>3. FileSize < ((FileSize \div BlockSize) + 1) * BlockSize
    BY <1>1, Bracket
  <2>4. ((FileSize \div BlockSize) + 1) * BlockSize \in Nat
    BY <1>1
  <2> QED BY <1>1, <1>2, <2>2, <2>3, <2>4
<1> QED BY <1>1, <1>2, <1>3 DEF FileBlocks

(* A receiver at its total has written the whole file, and nothing is left *)
(* in its cache.                                                           *)
LEMMA TotalMeansWhole ==
    ASSUME IndInv, SmallFile
    PROVE  /\ written \subseteq FileBlocks /\ spoilt = {}
           /\ received = TotalBlocks => written = FileBlocks /\ vdata = <<>>
<1>1. /\ mapFileBlocks \cup Entries(vdata) \cup handled = 0..(lastBlockPos - 1)
      /\ Entries(vdata) \cap handled = {}
      /\ IsFiniteSet(handled) /\ received = Cardinality(handled)
  BY DEF IndInv, BlockInOnePlace, CountExact
<1>2. \A b \in Entries(vdata) \cup handled : b \in FileBlocks
  BY <1>1, RealBlocksAreFileBlocks DEF IndInv, OnlyRealBlocks
<1>3. spoilt = {}
  <2>1. \A b \in spoilt : Offset(b) = b * BlockSize
    BY <1>1, CutBlocksDoNotWrap DEF handled
  <2> QED BY <2>1 DEF IndInv, SmallFile
<1>4. handled = written
  BY <1>3 DEF handled
<1>5. ASSUME received = TotalBlocks PROVE written = FileBlocks /\ vdata = <<>>
  <2>1. written = FileBlocks
    <3>1. Cardinality(handled) = Cardinality(FileBlocks)
      BY <1>1, <1>5, TotalIsFileBlocks
    <3> QED BY <1>2, <1>4, <3>1, TotalIsFileBlocks, FS_Subset
  <2>2. Entries(vdata) = {}
    BY <1>1, <1>2, <1>4, <2>1
  <2>3. vdata \in Seq(Nat)
    BY DEF IndInv, TypeOK
  <2>4. vdata = <<>>
    <3>1. SUFFICES ASSUME vdata # <<>> PROVE FALSE
      OBVIOUS
    <3>2. Head(vdata) \in Entries(vdata)
      BY <2>3, <3>1, EntriesTail
    <3> QED BY <2>2, <3>2
  <2> QED BY <2>1, <2>4
<1> QED BY <1>2, <1>3, <1>4, <1>5

(* For every file that a DWORD can address, on a disk without faults: the  *)
(* dialog is told "finished" only when every block is in its place.        *)
THEOREM FinishedIsComplete ==
    ASSUME SmallFile
    PROVE  Spec => []FinishedComplete
<1>1. IndInv => FinishedComplete
  BY TotalMeansWhole DEF IndInv, ReceiverAtTotal, FinishedComplete
<1> QED BY <1>1, Accounting, PTL

(* For the same files: nothing is handed to a receiver that has left its   *)
(* loop and is about to delete itself.                                     *)
THEOREM NothingIsLeftBehind ==
    ASSUME SmallFile
    PROVE  Spec => []NothingAfterClose
<1>1. IndInv => NothingAfterClose
  BY TotalMeansWhole DEF IndInv, ReceiverAtTotal, NothingAfterClose
<1> QED BY <1>1, Accounting, PTL

(* Only a write and the closing of the file move the receiver on. *)
LEMMA ReceiverSteps ==
    ASSUME [Next]_vars
    PROVE  rcv' = rcv \/ WriteBlock \/ CloseFile
<1> USE DEF vars, rcvVars, uiVars
<1>1. CASE Round
  BY <1>1 DEF Round, UpdateDone, SplitFileSizeIntoBlockMap, GetBlocks, TakeBatch,
     PushTask, EndOfSenders, TimeoutElapsed, TimeoutNotYet, SleepRound
<1>2. ASSUME NEW p \in Provider, AddProvider(p) \/ Sender(p) \/ LookupExit(p)
      PROVE  rcv' = rcv
  BY <1>2 DEF AddProvider, Sender, LookupExit, MakeRequestHeader, SendOk, SendFail,
     AnswerYes, AnswerNo, RemoveFailConnSender
<1>3. ASSUME NEW b \in data, Lose(b) \/ Recieve(b) PROVE rcv' = rcv
  BY <1>3 DEF Lose, Recieve
<1>4. CASE HandleMessage \/ Deleted \/ UNCHANGED vars
  BY <1>4 DEF HandleMessage, Deleted
<1> QED BY <1>1, <1>2, <1>3, <1>4 DEF Next

(* The receiver has not left its loop and reports nothing.                 *)
NeverFinished == rcv = "run" /\ "finished" \notin Entries(uiQ)

(* An empty file, or one whose size a DWORD takes for 0, is never reported *)
(* finished, on any disk and with any providers: its total is compared to  *)
(* the counter only after a block has been counted.                        *)
THEOREM NoTotalNeverFinishes ==
    ASSUME FileSize % DWordMod = 0
    PROVE  Spec => []NeverFinished
<1>1. TotalBlocks = 0
  BY SizesAssumption DEF TotalBlocks
<1>2. Init => rcv = "run"
  BY DEF Init
<1>3. IndInv /\ rcv = "run" /\ [Next]_vars => (rcv = "run")'
  <2> SUFFICES ASSUME IndInv, rcv = "run", [Next]_vars PROVE rcv' = "run"
    OBVIOUS
  <2>1. received \in Nat
    BY DEF IndInv, TypeOK
  <2>2. CASE WriteBlock
    <3>1. received' # TotalBlocks
      BY <1>1, <2>1, <2>2 DEF WriteBlock
    <3> QED BY <2>2, <3>1 DEF WriteBlock
  <2>3. ~CloseFile
    BY DEF CloseFile
  <2> QED BY <2>2, <2>3, ReceiverSteps
<1>4. IndInv /\ rcv = "run" => NeverFinished
  BY DEF IndInv, ReceiverAtTotal, NeverFinished
<1> QED BY <1>2, <1>3, <1>4, Accounting, PTL DEF Spec

-----------------------------------------------------------------------------
(* The download implements the abstract one.                               *)

(* The steps the abstract download sees: a block stored, the receiver's    *)
(* end and the dialog's deletion.                                          *)
LEMMA VisibleSteps ==
    ASSUME [Next]_vars
    PROVE  \/ UNCHANGED <<written, rcv, alive>>
           \/ alive /\ (WriteBlock \/ CloseFile \/ HandleMessage)
<1> USE DEF vars, rcvVars, uiVars
<1>1. CASE Round
  BY <1>1 DEF Round, UpdateDone, SplitFileSizeIntoBlockMap, GetBlocks,
              TakeBatch, PushTask, EndOfSenders, TimeoutElapsed,
              TimeoutNotYet, SleepRound
<1>2. ASSUME NEW p \in Provider, AddProvider(p) \/ Sender(p) \/ LookupExit(p)
      PROVE  UNCHANGED <<written, rcv, alive>>
  BY <1>2 DEF AddProvider, Sender, LookupExit, MakeRequestHeader, SendOk,
              SendFail, AnswerYes, AnswerNo, RemoveFailConnSender
<1>3. ASSUME NEW b \in data, Lose(b) \/ Recieve(b)
      PROVE  UNCHANGED <<written, rcv, alive>>
  BY <1>3 DEF Lose, Recieve
<1>4. CASE Deleted \/ UNCHANGED vars
  BY <1>4 DEF Deleted
<1> QED BY <1>1, <1>2, <1>3, <1>4 DEF Next

(* Every step is a step of the abstract download or leaves it unchanged. *)
LEMMA StepSimulates ==
    ASSUME SmallFile, IndInv, [Next]_vars
    PROVE  [FT!Next]_FT!vars
<1> USE DEF FT!vars
<1>1. CASE UNCHANGED <<written, rcv, alive>>
  BY <1>1
<1>2. CASE alive /\ WriteBlock
  <2> DEFINE b == Head(vdata)
  <2>1. vdata \in Seq(Nat) /\ vdata # <<>>
    BY <1>2 DEF WriteBlock, IndInv, TypeOK
  <2>2. b \in Entries(vdata)
    BY <2>1, EntriesTail
  <2>3. /\ b \in 0..(lastBlockPos - 1) /\ b \notin written
        /\ HasData(b)
    BY <2>2 DEF IndInv, BlockInOnePlace, OnlyRealBlocks, handled
  <2>4. b \in FileBlocks /\ Offset(b) = b * BlockSize
    BY <2>3, RealBlocksAreFileBlocks, CutBlocksDoNotWrap
  <2>5. written' = written \cup {b}
    BY <1>2, <2>4 DEF WriteBlock, SmallFile
  <2>6. rcv = "run" /\ rcv' # "gone" /\ alive' = alive
    BY <1>2 DEF WriteBlock, uiVars
  <2>7. FT!Store(b)
    BY <1>2, <2>3, <2>5, <2>6 DEF FT!Store
  <2> QED BY <2>4, <2>7 DEF FT!Next
<1>3. CASE alive /\ CloseFile
  <2>1. rcv = "closing" /\ rcv' = "gone" /\ written' = written
    BY <1>3 DEF CloseFile
  <2>2. written = FileBlocks
    BY <2>1, TotalMeansWhole DEF IndInv, ReceiverAtTotal
  <2>3. FT!Finish
    BY <1>3, <2>1, <2>2 DEF FT!Finish
  <2> QED BY <2>3 DEF FT!Next
<1>4. CASE alive /\ HandleMessage
  <2>1. written' = written /\ rcv' = rcv /\ (alive' = FALSE \/ alive' = alive)
    BY <1>4 DEF HandleMessage, rcvVars
  <2>2. CASE rcv = "gone" \/ alive' = alive
    BY <1>4, <2>1, <2>2
  <2>3. CASE rcv # "gone" /\ alive' = FALSE
    <3>1. FT!Abort
      BY <1>4, <2>1, <2>3 DEF FT!Abort
    <3> QED BY <3>1 DEF FT!Next
  <2> QED BY <2>1, <2>2, <2>3
<1> QED BY <1>1, <1>2, <1>3, <1>4, VisibleSteps

(* For every file that a DWORD can address, on a disk without faults, and  *)
(* whatever the network, the senders and the user do: blocks are stored    *)
(* one at a time and once each, and the download is finished with all of   *)
(* them or aborted, never both.                                            *)
THEOREM DownloaderImplementsFileTransfer ==
    ASSUME SmallFile
    PROVE  Spec => ImplementsFileTransfer
<1>1. Init => FT!Init
  BY DEF Init, FT!Init
<1>2. IndInv /\ [Next]_vars => [FT!Next]_FT!vars
  BY StepSimulates
<1> QED BY <1>1, <1>2, Accounting, PTL DEF Spec, ImplementsFileTransfer, FT!Spec


-----------------------------------------------------------------------------
(* The list of senders.                                                    *)

(* Unlisting removes the one entry it is asked to remove and no other. *)
LEMMA EntriesUnlist ==
    ASSUME NEW S, NEW s \in Seq(S), NEW e \in Entries(s), NoRepeats(s)
    PROVE  /\ NoRepeats(Unlist(s, e))
           /\ Entries(Unlist(s, e)) = Entries(s) \ {e}
<1> DEFINE k == CHOOSE i \in 1..Len(s) : s[i] = e
           n == Len(s) - 1
           u == [i \in 1..n |-> IF i < k THEN s[i] ELSE s[i + 1]]
<1>1. Len(s) \in Nat /\ k \in 1..Len(s) /\ s[k] = e /\ n \in Nat
  BY LenProperties DEF Entries
<1>2. Unlist(s, e) = u
  BY DEF Unlist
<1> HIDE DEF k
<1>3. Len(u) = n
  BY <1>1
<1>4. \A i \in 1..n : /\ i < k => u[i] = s[i]
                      /\ ~(i < k) => u[i] = s[i + 1]
                      /\ i \in 1..Len(s) /\ i + 1 \in 1..Len(s)
  BY <1>1
<1> HIDE DEF u
<1>5. NoRepeats(u)
  <2> SUFFICES ASSUME NEW i \in 1..n, NEW j \in 1..n, u[i] = u[j]
               PROVE  i = j
    BY <1>3 DEF NoRepeats
  <2>1. CASE i < k /\ j < k
    BY <2>1, <1>4 DEF NoRepeats
  <2>2. CASE i < k /\ ~(j < k)
    <3>1. s[i] = s[j + 1] /\ i \in 1..Len(s) /\ j + 1 \in 1..Len(s)
      BY <2>2, <1>4
    <3>2. i = j + 1
      BY <3>1 DEF NoRepeats
    <3> QED BY <3>2, <2>2, <1>1
  <2>3. CASE ~(i < k) /\ j < k
    <3>1. s[i + 1] = s[j] /\ i + 1 \in 1..Len(s) /\ j \in 1..Len(s)
      BY <2>3, <1>4
    <3>2. i + 1 = j
      BY <3>1 DEF NoRepeats
    <3> QED BY <3>2, <2>3, <1>1
  <2>4. CASE ~(i < k) /\ ~(j < k)
    <3>1. s[i + 1] = s[j + 1] /\ i + 1 \in 1..Len(s) /\ j + 1 \in 1..Len(s)
      BY <2>4, <1>4
    <3>2. i + 1 = j + 1
      BY <3>1 DEF NoRepeats
    <3> QED BY <3>2
  <2> QED BY <2>1, <2>2, <2>3, <2>4
<1>6. ASSUME NEW i \in 1..n PROVE u[i] \in Entries(s) \ {e}
  <2>1. PICK m \in 1..Len(s) : u[i] = s[m] /\ m # k
    <3>1. CASE i < k
      BY <3>1, <1>1, <1>4
    <3>2. CASE ~(i < k)
      <4>1. i + 1 # k
        BY <3>2, <1>1
      <4> QED BY <3>2, <4>1, <1>4
    <3> QED BY <3>1, <3>2
  <2>2. s[m] # e
    BY <2>1, <1>1 DEF NoRepeats
  <2> QED BY <2>1, <2>2 DEF Entries
<1>7. ASSUME NEW x \in Entries(s) \ {e} PROVE x \in Entries(u)
  <2>1. PICK m \in 1..Len(s) : s[m] = x
    BY <1>7 DEF Entries
  <2>2. m # k
    BY <2>1, <1>1, <1>7
  <2>3. CASE m < k
    <3>1. m \in 1..n /\ u[m] = x
      BY <2>1, <2>3, <1>1, <1>4
    <3> QED BY <3>1, <1>3 DEF Entries
  <2>4. CASE ~(m < k)
    <3>1. m - 1 \in 1..n /\ ~(m - 1 < k) /\ (m - 1) + 1 = m
      BY <2>2, <2>4, <1>1
    <3>2. u[m - 1] = x
      BY <2>1, <3>1, <1>4
    <3> QED BY <3>1, <3>2, <1>3 DEF Entries
  <2> QED BY <2>3, <2>4
<1>8. Entries(u) = Entries(s) \ {e}
  BY <1>3, <1>6, <1>7 DEF Entries
<1> QED BY <1>2, <1>5, <1>8

(* The index of the walk names a listed sender while a batch is cut for it *)
(* and handed to it.                                                       *)
IndexNamesSender == pc \in {"take", "push"} => idx <= Len(vObjSender)

(* What is inductive about the list. *)
ListInv == ListMatchesSenders /\ IndexNamesSender

(* A step that moves no sender into or out of a listed state, and leaves   *)
(* the list alone, keeps them in agreement.                                *)
LEMMA ListFrame ==
    ASSUME ListMatchesSenders, UNCHANGED listVars,
           \A q \in Provider : /\ sPc'[q] = "none" <=> sPc[q] = "none"
                               /\ sPc'[q] = "gone" <=> sPc[q] = "gone"
    PROVE  ListMatchesSenders'
  BY DEF ListMatchesSenders, listVars, Entries, NoRepeats

(* No step but a new provider's and a leaving sender's changes what the    *)
(* list has to say.                                                        *)
LEMMA ListSteps ==
    ASSUME TypeOK, [Next]_vars
    PROVE  \/ \E p \in Provider : AddProvider(p) \/ RemoveFailConnSender(p)
           \/ /\ UNCHANGED listVars
              /\ \A q \in Provider : /\ sPc'[q] = "none" <=> sPc[q] = "none"
                                     /\ sPc'[q] = "gone" <=> sPc[q] = "gone"
<1> USE DEF vars, loopVars, mapVars, listVars, senderVars, rcvVars, uiVars
<1> DEFINE Same == /\ UNCHANGED listVars
                   /\ \A q \in Provider : /\ sPc'[q] = "none" <=> sPc[q] = "none"
                                          /\ sPc'[q] = "gone" <=> sPc[q] = "gone"
<1>1. CASE Round
  BY <1>1 DEF Round, UpdateDone, SplitFileSizeIntoBlockMap, GetBlocks, TakeBatch,
              PushTask, EndOfSenders, TimeoutElapsed, TimeoutNotYet, SleepRound
<1>2. ASSUME NEW p \in Provider,
             \/ MakeRequestHeader(p) \/ SendOk(p) \/ SendFail(p)
             \/ AnswerYes(p) \/ AnswerNo(p) \/ LookupExit(p)
      PROVE  Same
  <2>0. sPc \in [Provider -> {"none", "poll", "send", "ask", "remove", "gone",
                              "vanished"}]
    BY DEF TypeOK
  <2>1. UNCHANGED listVars
    BY <1>2 DEF MakeRequestHeader, SendOk, SendFail, AnswerYes, AnswerNo,
                LookupExit
  <2>2. /\ sPc[p] \in {"poll", "send", "ask"}
        /\ \E v \in {"send", "poll", "remove", "ask", "vanished"} :
              sPc' = [sPc EXCEPT ![p] = v]
    BY <1>2 DEF MakeRequestHeader, SendOk, SendFail, AnswerYes, AnswerNo,
                LookupExit
  <2> QED BY <2>0, <2>1, <2>2
<1>3. ASSUME NEW b \in data, Lose(b) \/ Recieve(b) PROVE Same
  BY <1>3 DEF Lose, Recieve
<1>4. CASE WriteBlock \/ CloseFile \/ HandleMessage \/ Deleted \/ UNCHANGED vars
  BY <1>4 DEF WriteBlock, CloseFile, HandleMessage, Deleted
<1> QED BY <1>1, <1>2, <1>3, <1>4 DEF Next, Sender

(* The list gains the started sender and loses the one that leaves. *)
LEMMA StepListMatches ==
    ASSUME TypeOK, ListMatchesSenders, [Next]_vars
    PROVE  ListMatchesSenders'
<1>0. /\ vObjSender \in Seq(Provider)
      /\ sPc \in [Provider -> {"none", "poll", "send", "ask", "remove", "gone",
                               "vanished"}]
      /\ NoRepeats(vObjSender)
      /\ Entries(vObjSender) = {q \in Provider : sPc[q] \notin {"none", "gone"}}
      /\ vProviderMACs = {q \in Provider : sPc[q] # "none"}
  BY DEF TypeOK, ListMatchesSenders
<1>1. ASSUME NEW p \in Provider, AddProvider(p) PROVE ListMatchesSenders'
  <2>1. p \notin vProviderMACs /\ p \notin Entries(vObjSender)
    BY <1>0, <1>1 DEF AddProvider
  <2>2. /\ Entries(vObjSender') = Entries(vObjSender) \cup {p}
        /\ NoRepeats(vObjSender')
    BY <1>0, <1>1, <2>1, EntriesAppend DEF AddProvider
  <2>3. sPc' = [sPc EXCEPT ![p] = "poll"] /\ vProviderMACs' = vProviderMACs \cup {p}
    BY <1>1 DEF AddProvider
  <2>4. Entries(vObjSender') = {q \in Provider : sPc'[q] \notin {"none", "gone"}}
    BY <1>0, <2>2, <2>3
  <2>5. vProviderMACs' = {q \in Provider : sPc'[q] # "none"}
    BY <1>0, <2>3
  <2> QED BY <2>2, <2>4, <2>5 DEF ListMatchesSenders
<1>2. ASSUME NEW p \in Provider, RemoveFailConnSender(p)
      PROVE  ListMatchesSenders'
  <2>1. p \in Entries(vObjSender)
    BY <1>0, <1>2 DEF RemoveFailConnSender
  <2>2. vObjSender' = Unlist(vObjSender, p)
    BY <1>2, <2>1 DEF RemoveFailConnSender
  <2>3. /\ Entries(vObjSender') = Entries(vObjSender) \ {p}
        /\ NoRepeats(vObjSender')
    BY <1>0, <2>1, <2>2, EntriesUnlist
  <2>4. /\ sPc[p] = "remove" /\ sPc' = [sPc EXCEPT ![p] = "gone"]
        /\ vProviderMACs' = vProviderMACs
    BY <1>2 DEF RemoveFailConnSender
  <2>5. Entries(vObjSender') = {q \in Provider : sPc'[q] \notin {"none", "gone"}}
    BY <1>0, <2>3, <2>4
  <2>6. vProviderMACs' = {q \in Provider : sPc'[q] # "none"}
    BY <1>0, <2>4
  <2> QED BY <2>3, <2>5, <2>6 DEF ListMatchesSenders
<1> QED BY <1>1, <1>2, ListSteps, ListFrame

(* The walk holds m_lockSenderObject, and providers are added outside it. *)
LEMMA StepListStable ==
    ASSUME [Next]_vars, pc \in {"get", "take", "push"}
    PROVE  vObjSender' = vObjSender
<1> USE DEF vars, loopVars, mapVars, listVars, senderVars, rcvVars, uiVars
<1>1. CASE Round
  BY <1>1 DEF Round, UpdateDone, SplitFileSizeIntoBlockMap, GetBlocks, TakeBatch,
              PushTask, EndOfSenders, TimeoutElapsed, TimeoutNotYet, SleepRound
<1>2. ASSUME NEW p \in Provider, AddProvider(p) \/ Sender(p) \/ LookupExit(p)
      PROVE  vObjSender' = vObjSender
  BY <1>2 DEF AddProvider, Sender, LookupExit, MakeRequestHeader, SendOk,
              SendFail, AnswerYes, AnswerNo, RemoveFailConnSender
<1>3. ASSUME NEW b \in data, Lose(b) \/ Recieve(b) PROVE vObjSender' = vObjSender
  BY <1>3 DEF Lose, Recieve
<1>4. CASE WriteBlock \/ CloseFile \/ HandleMessage \/ Deleted \/ UNCHANGED vars
  BY <1>4 DEF WriteBlock, CloseFile, HandleMessage, Deleted
<1> QED BY <1>1, <1>2, <1>3, <1>4 DEF Next

(* The downloader moves its index only to look at the next sender. *)
LEMMA StepIndex ==
    ASSUME TypeOK, IndexNamesSender, [Next]_vars
    PROVE  IndexNamesSender'
<1> USE DEF vars, loopVars, mapVars, listVars, senderVars, rcvVars, uiVars
<1>1. CASE GetBlocks \/ TakeBatch
  BY <1>1 DEF GetBlocks, TakeBatch, IndexNamesSender
<1>2. CASE PushTask \/ UpdateDone \/ SplitFileSizeIntoBlockMap \/ EndOfSenders
           \/ TimeoutElapsed \/ TimeoutNotYet \/ SleepRound
  <2>1. pc' \notin {"take", "push"}
    BY <1>2 DEF PushTask, UpdateDone, SplitFileSizeIntoBlockMap, EndOfSenders,
                TimeoutElapsed, TimeoutNotYet, SleepRound
  <2> QED BY <2>1 DEF IndexNamesSender
<1>3. CASE UNCHANGED <<pc, idx>>
  BY <1>3, StepListStable DEF IndexNamesSender
<1>4. ASSUME NEW p \in Provider, AddProvider(p) \/ Sender(p) \/ LookupExit(p)
      PROVE  UNCHANGED <<pc, idx>>
  BY <1>4 DEF AddProvider, Sender, LookupExit, MakeRequestHeader, SendOk,
              SendFail, AnswerYes, AnswerNo, RemoveFailConnSender
<1>5. ASSUME NEW b \in data, Lose(b) \/ Recieve(b) PROVE UNCHANGED <<pc, idx>>
  BY <1>5 DEF Lose, Recieve
<1>6. CASE WriteBlock \/ CloseFile \/ HandleMessage \/ Deleted \/ UNCHANGED vars
  BY <1>6, <1>3 DEF WriteBlock, CloseFile, HandleMessage, Deleted
<1> QED BY <1>1, <1>2, <1>3, <1>4, <1>5, <1>6 DEF Next, Round

(* The list's part of the invariant holds always. *)
LEMMA ListInvAlways == Spec => []ListInv
<1>1. Init => ListInv
  BY DEF Init, ListInv, ListMatchesSenders, IndexNamesSender, Entries, NoRepeats
<1>2. TypeOK /\ ListInv /\ [Next]_vars => ListInv'
  BY StepListMatches, StepIndex DEF ListInv
<1> QED BY <1>1, <1>2, TypeCorrect, PTL DEF Spec

(* For any number of providers joining and senders leaving in any order:   *)
(* the list names every running sender once and no other.                  *)
THEOREM ListMatchesTheSenders == Spec => []ListMatchesSenders
<1>1. ListInv => ListMatchesSenders
  BY DEF ListInv
<1> QED BY <1>1, ListInvAlways, PTL

(* The downloader never hands a batch to a sender that has deleted itself. *)
THEOREM TasksGoToTheLiving == Spec => []TaskGoesToLiving
<1>1. TypeOK /\ ListInv => TaskGoesToLiving
  <2> SUFFICES ASSUME TypeOK, ListInv, pc = "push"
               PROVE  TaskGoesToLiving
    BY DEF TaskGoesToLiving
  <2>1. idx \in 1..Len(vObjSender)
    BY LenProperties DEF TypeOK, ListInv, IndexNamesSender
  <2>2. vObjSender[idx] \in Entries(vObjSender)
    BY <2>1 DEF Entries
  <2> QED BY <2>1, <2>2 DEF ListInv, ListMatchesSenders, TaskGoesToLiving
<1> QED BY <1>1, TypeCorrect, ListInvAlways, PTL

-----------------------------------------------------------------------------
(* The limits.                                                             *)

(* A bounded set of numbers that is not empty has a greatest one. *)
LEMMA Greatest ==
    ASSUME NEW n \in Nat, NEW B \in SUBSET (0..n), B # {}
    PROVE  \E x \in B : \A y \in B : y <= x
<1> DEFINE D == {i \in Nat : n - i \in B}
<1>1. PICK b \in B : TRUE
  OBVIOUS
<1>2. n - b \in D
  <2>1. b \in 0..n /\ n - b \in Nat /\ n - (n - b) = b
    BY <1>1
  <2> QED BY <2>1
<1>3. PICK d \in D : \A i \in D : <<i, d>> \notin OpToRel(<, Nat)
  BY <1>2, NatLessThanWellFounded, WFMin
<1>4. \A i \in D : d <= i
  <2>1. d \in Nat /\ \A i \in D : i \in Nat
    BY <1>3
  <2> HIDE DEF D
  <2>2. \A i \in D : ~(i < d)
    BY <1>3, <2>1 DEF OpToRel
  <2> QED BY <2>1, <2>2
<1>5. ASSUME NEW y \in B PROVE y <= n - d
  <2>1. y \in 0..n /\ n - y \in Nat /\ n - (n - y) = y
    OBVIOUS
  <2>2. d <= n - y
    BY <2>1, <1>4
  <2> QED BY <2>1, <2>2
<1> QED BY <1>3, <1>5

(* The smallest members of a set of numbers, up to m of them. *)
Smallest(S, m) == {b \in S : Cardinality({c \in S : c < b}) < m}

(* They are no more than m. *)
LEMMA SmallestOnes ==
    ASSUME NEW n \in Nat, NEW S \in SUBSET (0..n), NEW m \in Nat
    PROVE  Cardinality(Smallest(S, m)) <= m
<1> DEFINE B == Smallest(S, m)
<1>0. B \in SUBSET S /\ \A b \in B : Cardinality({c \in S : c < b}) < m
  BY DEF Smallest
<1> HIDE DEF B
<1>1. IsFiniteSet(S) /\ IsFiniteSet(B)
  <2>1. IsFiniteSet(0..n)
    BY FS_Interval
  <2>2. IsFiniteSet(S)
    BY <2>1, FS_Subset
  <2> QED BY <1>0, <2>2, FS_Subset
<1>2. CASE B = {}
  BY <1>2, FS_EmptySet DEF B
<1>3. CASE B # {}
  <2>1. B \in SUBSET (0..n)
    BY <1>0
  <2>2. PICK x \in B : \A y \in B : y <= x
    BY <1>3, <2>1, Greatest
  <2> DEFINE T == {c \in S : c < x}
  <2>3. IsFiniteSet(T) /\ Cardinality(T) \in Nat /\ Cardinality(T) < m /\ x \notin T
    <3>1. T \in SUBSET S /\ x \in 0..n
      BY <2>1
    <3>2. IsFiniteSet(T)
      BY <1>1, <3>1, FS_Subset
    <3> QED BY <1>0, <3>1, <3>2, FS_CardinalityType
  <2>4. B \in SUBSET (T \cup {x})
    <3> SUFFICES ASSUME NEW y \in B, y # x PROVE y \in T
      OBVIOUS
    <3> QED BY <1>0, <2>1, <2>2
  <2>5. IsFiniteSet(T \cup {x}) /\ Cardinality(T \cup {x}) = Cardinality(T) + 1
    BY <2>3, FS_AddElement
  <2>6. Cardinality(B) <= Cardinality(T \cup {x})
    BY <2>4, <2>5, FS_Subset
  <2>7. Cardinality(B) \in Nat
    BY <1>1, FS_CardinalityType
  <2>8. Cardinality(B) <= m
    BY <2>3, <2>5, <2>6, <2>7
  <2> QED BY <2>8 DEF B
<1> QED BY <1>2, <1>3

(* GetBlocks takes no more blocks than fit a request. *)
LEMMA BatchFits ==
    ASSUME IndInv
    PROVE  Cardinality(Batch) <= MaxReq
<1>1. idle \in SUBSET (0..lastBlockPos) /\ lastBlockPos \in Nat
  BY DEF IndInv, TypeOK, BlockInOnePlace, mapFileBlocks
<1> QED BY <1>1, SmallestOnes, SizesAssumption DEF Batch, Smallest

(* The map grows only where the file is split, and then within its room.   *)
LEMMA SplitFits ==
    ASSUME IndInv, SplitFileSizeIntoBlockMap, Cardinality(mapFileBlocks) <= Window
    PROVE  Cardinality(mapFileBlocks') <= Window
<1>1. /\ IsFiniteSet(mapFileBlocks) /\ Cardinality(mapFileBlocks) \in Nat
      /\ Window \in Nat /\ lastBlockPos \in Nat
  BY MapIsFinite, SizesAssumption DEF IndInv, TypeOK
<1>2. CASE Cardinality(mapFileBlocks) < Window \div 2
  <2>1. PICK n \in 0..(Window - Cardinality(mapFileBlocks)) :
           idle' = idle \cup (lastBlockPos..(lastBlockPos + n - 1))
    BY <1>2 DEF SplitFileSizeIntoBlockMap, Room
  <2> DEFINE I == lastBlockPos..(lastBlockPos + n - 1)
  <2>2. IsFiniteSet(I) /\ Cardinality(I) = n
    <3>1. /\ lastBlockPos \in Int /\ lastBlockPos + n - 1 \in Int
          /\ lastBlockPos > lastBlockPos + n - 1 => n = 0
          /\ (lastBlockPos + n - 1) - lastBlockPos + 1 = n
      BY <1>1
    <3> QED BY <3>1, FS_Interval
  <2>3. mapFileBlocks' = mapFileBlocks \cup I
    BY <1>2, <2>1 DEF SplitFileSizeIntoBlockMap, mapFileBlocks
  <2> HIDE DEF I
  <2>4. /\ Cardinality(mapFileBlocks \cup I) =
              Cardinality(mapFileBlocks) + Cardinality(I)
                - Cardinality(mapFileBlocks \cap I)
    BY <1>1, <2>2, FS_Union
  <2>5. Cardinality(mapFileBlocks \cap I) \in Nat
    <3>1. mapFileBlocks \cap I \in SUBSET I
      OBVIOUS
    <3>2. IsFiniteSet(mapFileBlocks \cap I)
      BY <2>2, <3>1, FS_Subset
    <3> QED BY <3>2, FS_CardinalityType
  <2> QED BY <1>1, <2>2, <2>3, <2>4, <2>5
<1>3. CASE ~(Cardinality(mapFileBlocks) < Window \div 2)
  BY <1>3 DEF SplitFileSizeIntoBlockMap, mapFileBlocks
<1> QED BY <1>2, <1>3

(* A map that does not grow stays within the limit. *)
LEMMA ShrinkingFits ==
    ASSUME IndInv, Cardinality(mapFileBlocks) <= Window,
           mapFileBlocks' \subseteq mapFileBlocks
    PROVE  Cardinality(mapFileBlocks') <= Window
<1> DEFINE M == mapFileBlocks
<1>1. \A T \in SUBSET M : Cardinality(T) <= Cardinality(M) /\ Cardinality(T) \in Nat
  BY MapIsFinite, FS_Subset, FS_CardinalityType
<1>2. Cardinality(M) \in Nat /\ Window \in Nat /\ Cardinality(M) <= Window
  BY MapIsFinite, SizesAssumption
<1>3. PICK T \in SUBSET M : T = mapFileBlocks'
  OBVIOUS
<1>4. Cardinality(T) <= Window
  BY <1>1, <1>2
<1> QED BY <1>3, <1>4

(* The limit of the map survives every step. *)
LEMMA StepMapFits ==
    ASSUME IndInv, [Next]_vars, Cardinality(mapFileBlocks) <= Window
    PROVE  Cardinality(mapFileBlocks') <= Window
<1>1. CASE SplitFileSizeIntoBlockMap
  BY <1>1, SplitFits
<1>2. CASE UNCHANGED placeVars
  <2>1. mapFileBlocks' = mapFileBlocks
    BY <1>2 DEF placeVars, mapFileBlocks
  <2> QED BY <2>1
<1>3. CASE TakeBatch
  <2>1. mapFileBlocks' \subseteq mapFileBlocks
    BY <1>3 DEF TakeBatch, Batch, mapFileBlocks
  <2> QED BY <2>1, ShrinkingFits
<1>4. CASE TimeoutElapsed
  <2>1. fresh \subseteq issued
    BY DEF IndInv, TypeOK
  <2>2. mapFileBlocks' \subseteq mapFileBlocks
    BY <1>4, <2>1 DEF TimeoutElapsed, mapFileBlocks
  <2> QED BY <2>2, ShrinkingFits
<1>5. ASSUME NEW b \in data, Recieve(b)
      PROVE  Cardinality(mapFileBlocks') <= Window
  <2>1. mapFileBlocks' \subseteq mapFileBlocks
    BY <1>5 DEF Recieve, mapFileBlocks
  <2> QED BY <2>1, ShrinkingFits
<1>6. CASE WriteBlock
  <2>1. mapFileBlocks' = mapFileBlocks
    BY <1>6 DEF WriteBlock, mapVars, mapFileBlocks
  <2> QED BY <2>1
<1> QED BY <1>1, <1>2, <1>3, <1>4, <1>5, <1>6, MovingSteps

(* Batch and tasks: who changes them. *)
LEMMA BatchSteps ==
    ASSUME [Next]_vars
    PROVE  \/ UNCHANGED <<vBlocks, sTask>>
           \/ TakeBatch \/ PushTask
           \/ /\ UNCHANGED vBlocks
              /\ \E p \in Provider : sTask' = [sTask EXCEPT ![p] = {}]
<1> USE DEF vars, loopVars, mapVars, listVars, senderVars, rcvVars, uiVars
<1>1. CASE Round
  BY <1>1 DEF Round, UpdateDone, SplitFileSizeIntoBlockMap, GetBlocks,
              EndOfSenders, TimeoutElapsed, TimeoutNotYet, SleepRound
<1>2. ASSUME NEW p \in Provider, MakeRequestHeader(p) \/ RemoveFailConnSender(p)
      PROVE  UNCHANGED vBlocks /\ sTask' = [sTask EXCEPT ![p] = {}]
  BY <1>2 DEF MakeRequestHeader, RemoveFailConnSender
<1>3. ASSUME NEW p \in Provider,
             \/ AddProvider(p) \/ SendOk(p) \/ SendFail(p) \/ LookupExit(p)
             \/ AnswerYes(p) \/ AnswerNo(p)
      PROVE  UNCHANGED <<vBlocks, sTask>>
  BY <1>3 DEF AddProvider, SendOk, SendFail, LookupExit, AnswerYes, AnswerNo
<1>4. ASSUME NEW b \in data, Lose(b) \/ Recieve(b)
      PROVE  UNCHANGED <<vBlocks, sTask>>
  BY <1>4 DEF Lose, Recieve
<1>5. CASE WriteBlock \/ CloseFile \/ HandleMessage \/ Deleted \/ UNCHANGED vars
  BY <1>5 DEF WriteBlock, CloseFile, HandleMessage, Deleted
<1> QED BY <1>1, <1>2, <1>3, <1>4, <1>5 DEF Next, Sender

(* The limit of batch and tasks survives every step. *)
LEMMA StepTasksFit ==
    ASSUME IndInv, [Next]_vars, Cardinality(vBlocks) <= MaxReq,
           \A p \in Provider : Cardinality(sTask[p]) <= MaxReq
    PROVE  /\ Cardinality(vBlocks') <= MaxReq
           /\ \A p \in Provider : Cardinality(sTask'[p]) <= MaxReq
<1>0. sTask \in [Provider -> SUBSET Nat] /\ Cardinality({}) <= MaxReq
  BY FS_EmptySet, SizesAssumption DEF IndInv, TypeOK
<1>1. CASE TakeBatch
  BY <1>1, BatchFits DEF TakeBatch, senderVars
<1>2. CASE PushTask
  <2> DEFINE p == vObjSender[idx]
  <2>1. \/ UNCHANGED <<sTask, vBlocks>>
        \/ sTask' = [sTask EXCEPT ![p] = vBlocks] /\ vBlocks' = {}
    BY <1>2 DEF PushTask
  <2> QED BY <2>1, <1>0
<1>3. ASSUME NEW p \in Provider, sTask' = [sTask EXCEPT ![p] = {}]
      PROVE  \A q \in Provider : Cardinality(sTask'[q]) <= MaxReq
  BY <1>3, <1>0
<1> QED BY <1>1, <1>2, <1>3, BatchSteps

(* For every window and batch size: the map never holds more blocks than   *)
(* its limit, and neither the batch in hand nor a task more than fit a     *)
(* request, however the threads fill, cut, reset and shrink them.          *)
THEOREM LimitsHold == Spec => []WithinBounds
<1>1. Init => WithinBounds
  BY FS_EmptySet, SizesAssumption DEF Init, WithinBounds, mapFileBlocks
<1>2. IndInv /\ WithinBounds /\ [Next]_vars => WithinBounds'
  <2> SUFFICES ASSUME IndInv, WithinBounds, [Next]_vars
               PROVE  WithinBounds'
    OBVIOUS
  <2>1. Cardinality(mapFileBlocks') <= Window
    BY StepMapFits DEF WithinBounds
  <2>2. /\ Cardinality(vBlocks') <= MaxReq
        /\ \A p \in Provider : Cardinality(sTask'[p]) <= MaxReq
    BY StepTasksFit DEF WithinBounds
  <2> QED BY <2>1, <2>2 DEF WithinBounds
<1> QED BY <1>1, <1>2, Accounting, PTL DEF Spec

=============================================================================
