----------------------------- MODULE Downloader -----------------------------
(***************************************************************************)
(* One download of the P2PSharer client: the CDownloader thread that cuts  *)
(* the file into blocks and hands batches of them to the request senders,  *)
(* one CReqSender thread per provider, the UDP reader thread that accepts  *)
(* the blocks that arrive, the CFileClient thread that writes them, and    *)
(* the dialog that deletes the downloader when it is told to.              *)
(*                                                                         *)
(* Between these threads lie an unreliable network and four queues: the    *)
(* map of outstanding blocks, the task of each sender, the receiver's      *)
(* cache and the window's message queue.                                   *)
(***************************************************************************)
EXTENDS Integers, Sequences, FiniteSets

CONSTANTS
    Provider,     \* MAC addresses the resource index can name as owners
    MayFail,      \* providers whose requests may fail to be sent
    MayVanish,    \* providers whose address lookup at the server may fail
    MayIgnore,    \* providers that may leave a request unanswered
    FileSize,     \* bytes of the file (long long)
    BlockSize,    \* EACH_BLOCK_SIZE
    DWordMod,     \* 2^32: what a DWORD counts modulo
    Window,       \* MAX_CACHE_BLOCKS
    MaxReq,       \* MAX_REQUEST_BLOCKS_COUNT
    MaxRetry,     \* MAX_SEND_DATA_RETRY
    Garbage,      \* what the slots of a new, uninitialised request may hold
    DiskFaults    \* TRUE if a write to the file may fail

ASSUME SizesAssumption ==
    /\ FileSize \in Nat
    /\ BlockSize \in Nat \ {0}
    /\ DWordMod \in Nat \ {0}
    /\ Window \in Nat
    /\ MaxReq \in Nat \ {0}
    /\ MaxRetry \in Nat

ASSUME PeersAssumption ==
    /\ IsFiniteSet(Provider)
    /\ MayFail \subseteq Provider
    /\ MayVanish \subseteq Provider
    /\ MayIgnore \subseteq Provider
    /\ Garbage \subseteq Nat
    /\ DiskFaults \in BOOLEAN

VARIABLES
    pc,             \* where the downloader thread is in its loop
    idx,            \* the loop index over m_vObjSender, 1 outside the loop
    iGetBlockRes,   \* the last result of GetBlocks, kept between rounds
    vBlocks,        \* the batch cut from the map and not yet accepted
    vProviderMACs,  \* providers ever added
    vObjSender,     \* m_vObjSender: the senders tasks are handed to
    lastBlockPos,   \* m_dwLastBlockPos: the next block to enter the map
    idle,           \* blocks of m_mapFileBlocks with time stamp 0
    issued,         \* blocks of m_mapFileBlocks with a time stamp
    fresh,          \* the issued blocks stamped in this round of the loop
    sPc,            \* where each sender thread is
    sRelay,         \* senders that go through the server by now
    sRetry,         \* iRetry of each sender
    sTask,          \* m_vBlockNums of each sender
    sMsg,           \* the blocks named in each sender's request message
    data,           \* blocks asked for, with the answer on its way
    vdata,          \* CFileClient::m_vdata
    received,       \* CFileClient::m_dwRecievedBlocks
    written,        \* blocks that are in their place on the disk
    spoilt,         \* blocks counted although their write went wrong
    rcv,            \* the receiver: "run", "closing" or "gone"
    uiQ,            \* messages posted to the dialog
    alive           \* FALSE once the dialog has deleted the downloader

loopVars   == <<pc, idx, iGetBlockRes, vBlocks>>
mapVars    == <<lastBlockPos, idle, issued, fresh>>
listVars   == <<vProviderMACs, vObjSender>>
senderVars == <<sPc, sRelay, sRetry, sTask, sMsg>>
rcvVars    == <<vdata, received, written, spoilt, rcv>>
uiVars     == <<uiQ, alive>>
vars == <<loopVars, mapVars, listVars, senderVars, data, rcvVars, uiVars>>

-----------------------------------------------------------------------------
(* Block arithmetic. Products of two DWORDs wrap; the file size does not,  *)
(* but the receiver is given it as a DWORD.                                *)

Offset(b) == (b * BlockSize) % DWordMod

(* The test that ends the splitting of the file. *)
PastEnd(pos) == Offset(pos) > FileSize

(* Mutation: the read accepts zero bytes. *)
HasDataZeroRead(b) == Offset(b) <= FileSize

(* A provider's read at the block's offset returns at least one byte. *)
HasData(b) == Offset(b) < FileSize

(* ceil(m_dwFileSize / EACH_BLOCK_SIZE), m_dwFileSize being a DWORD. *)
TotalBlocks == ((FileSize % DWordMod) + BlockSize - 1) \div BlockSize

(* The blocks the file really has. *)
FileBlocks == {b \in 0..(FileSize \div BlockSize) : b * BlockSize < FileSize}

(* The keys of m_mapFileBlocks. *)
mapFileBlocks == idle \cup issued

(* Mutation: the filling stops one block too late. *)
RoomOneMore == Window + 1 - Cardinality(mapFileBlocks)

(* How many blocks the map is short of its limit. *)
Room == Window - Cardinality(mapFileBlocks)

(* The blocks GetBlocks takes: the smallest unissued keys, MaxReq at most. *)
Batch == {b \in idle : Cardinality({c \in idle : c < b}) < MaxReq}

Entries(s) == {s[i] : i \in 1..Len(s)}

NoRepeats(s) == \A i, j \in 1..Len(s) : s[i] = s[j] => i = j

(* The sequence without an element it holds once. *)
Unlist(s, e) ==
    LET k == CHOOSE i \in 1..Len(s) : s[i] = e
    IN  [i \in 1..(Len(s) - 1) |-> IF i < k THEN s[i] ELSE s[i + 1]]

-----------------------------------------------------------------------------
Init ==
    /\ pc = "update" /\ idx = 1 /\ iGetBlockRes = 0 /\ vBlocks = {}
    /\ vProviderMACs = {} /\ vObjSender = <<>>
    /\ lastBlockPos = 0 /\ idle = {} /\ issued = {} /\ fresh = {}
    /\ sPc = [p \in Provider |-> "none"]
    /\ sRelay = {}
    /\ sRetry = [p \in Provider |-> 0]
    /\ sTask = [p \in Provider |-> {}]
    /\ sMsg = [p \in Provider |-> {}]
    /\ data = {}
    /\ vdata = <<>> /\ received = 0 /\ written = {} /\ spoilt = {}
    /\ rcv = "run" /\ uiQ = <<>> /\ alive = TRUE

-----------------------------------------------------------------------------
(* The downloader thread: CDownloader::run and what it calls.              *)

(* UpdateServiceProvider got an owner it did not know: a sender thread is  *)
(* started for it and then listed. A sender without a task only polls, so  *)
(* starting and listing it are one step.                                   *)
AddProvider(p) ==
    /\ pc = "update"
    /\ p \notin vProviderMACs
    /\ vProviderMACs' = vProviderMACs \cup {p}
    /\ vObjSender' = Append(vObjSender, p)
    /\ sPc' = [sPc EXCEPT ![p] = "poll"]
    /\ \E g \in SUBSET Garbage : sMsg' = [sMsg EXCEPT ![p] = g]
    /\ UNCHANGED <<loopVars, mapVars, sRelay, sRetry, sTask, data, rcvVars,
                   uiVars>>

(* UpdateServiceProvider returns: without providers the round is skipped. *)
UpdateDone ==
    /\ pc = "update"
    /\ pc' = IF vProviderMACs # {} THEN "split" ELSE "sleep"
    /\ UNCHANGED <<idx, iGetBlockRes, vBlocks, mapVars, listVars, senderVars,
                   data, rcvVars, uiVars>>

(* The map is filled up to Window blocks when it is less than half full,   *)
(* or up to the first block that lies past the end of the file.            *)
SplitFileSizeIntoBlockMap ==
    /\ pc = "split"
    /\ pc' = "get"
    /\ IF Cardinality(mapFileBlocks) < Window \div 2
       THEN \E n \in 0..Room :
              /\ \A k \in 0..(n-1) : ~PastEnd(lastBlockPos + k)
              /\ n = Room \/ PastEnd(lastBlockPos + n)
              /\ idle' = idle \cup (lastBlockPos..(lastBlockPos + n - 1))
              /\ lastBlockPos' = lastBlockPos + n
       ELSE UNCHANGED <<idle, lastBlockPos>>
    /\ UNCHANGED <<idx, iGetBlockRes, vBlocks, issued, fresh, listVars, senderVars,
                   data, rcvVars, uiVars>>

(* GetBlocks, up to its lock: the map is looked at unlocked, and a batch   *)
(* no sender has accepted yet is offered again.                            *)
GetBlocks ==
    /\ pc = "get"
    /\ idx <= Len(vObjSender)
    /\ IF mapFileBlocks = {}
       THEN /\ iGetBlockRes' = 0 /\ idx' = idx + 1
            /\ UNCHANGED pc
       ELSE IF vBlocks # {}
       THEN /\ iGetBlockRes' = 1 /\ pc' = "push"
            /\ UNCHANGED idx
       ELSE /\ pc' = "take"
            /\ UNCHANGED <<idx, iGetBlockRes>>
    /\ UNCHANGED <<vBlocks, mapVars, listVars, senderVars, data, rcvVars,
                   uiVars>>

(* The locked half of GetBlocks: the batch is cut and stamped.             *)
TakeBatch ==
    /\ pc = "take"
    /\ vBlocks' = Batch
    /\ idle' = idle \ Batch
    /\ issued' = issued \cup Batch
    /\ fresh' = fresh \cup Batch
    /\ IF Batch # {}
       THEN iGetBlockRes' = 1 /\ pc' = "push" /\ UNCHANGED idx
       ELSE iGetBlockRes' = 2 /\ pc' = "get" /\ idx' = idx + 1
    /\ UNCHANGED <<lastBlockPos, listVars, senderVars, data, rcvVars, uiVars>>

(* The batch becomes the sender's task unless the sender still has one.    *)
PushTask ==
    LET p == vObjSender[idx] IN
    /\ pc = "push"
    /\ IF sTask[p] = {} /\ Cardinality(vBlocks) <= MaxReq
       THEN sTask' = [sTask EXCEPT ![p] = vBlocks] /\ vBlocks' = {}
       ELSE UNCHANGED <<sTask, vBlocks>>
    /\ pc' = "get" /\ idx' = idx + 1
    /\ UNCHANGED <<iGetBlockRes, mapVars, listVars, sPc, sRelay, sRetry, sMsg,
                   data, rcvVars, uiVars>>

(* Mutation: timeouts are looked for when the map was empty. *)
EndOfSendersWrongResult ==
    /\ pc = "get"
    /\ idx > Len(vObjSender)
    /\ pc' = IF iGetBlockRes = 0 THEN "timeout" ELSE "sleep"
    /\ idx' = 1
    /\ UNCHANGED <<iGetBlockRes, vBlocks, mapVars, listVars, senderVars, data,
                   rcvVars, uiVars>>

(* Every sender has been served; m_lockSenderObject is released. *)
EndOfSenders ==
    /\ pc = "get"
    /\ idx > Len(vObjSender)
    /\ pc' = IF iGetBlockRes = 2 THEN "timeout" ELSE "sleep"
    /\ idx' = 1
    /\ UNCHANGED <<iGetBlockRes, vBlocks, mapVars, listVars, senderVars,
                   data, rcvVars, uiVars>>

(* Mutation: no stamp is ever found old enough. *)
TimeoutElapsedNoReset ==
    /\ pc = "timeout"
    /\ pc' = "sleep"
    /\ UNCHANGED <<idx, iGetBlockRes, vBlocks, mapVars, listVars, senderVars,
                   data, rcvVars, uiVars>>

(* DealTimeoutBlockRequests, more than 500 ms after the last check made by *)
(* any download of the process. The subtraction is the wrong way round, so *)
(* every stamp older than the current tick is reset; only blocks stamped   *)
(* in the very tick of the check keep theirs.                              *)
TimeoutElapsed ==
    /\ pc = "timeout"
    /\ \E keep \in SUBSET fresh :
         /\ idle' = idle \cup (issued \ keep)
         /\ issued' = keep
         /\ fresh' = keep
    /\ pc' = "sleep"
    /\ UNCHANGED <<idx, iGetBlockRes, vBlocks, lastBlockPos, listVars,
                   senderVars, data, rcvVars, uiVars>>

TimeoutNotYet ==
    /\ pc = "timeout"
    /\ pc' = "sleep"
    /\ UNCHANGED <<idx, iGetBlockRes, vBlocks, mapVars, listVars, senderVars,
                   data, rcvVars, uiVars>>

(* The round ends; the next one begins at least 100 ms later, in another   *)
(* tick than any stamp given so far.                                       *)
SleepRound ==
    /\ pc = "sleep"
    /\ pc' = "update"
    /\ fresh' = {}
    /\ UNCHANGED <<idx, iGetBlockRes, vBlocks, lastBlockPos, idle, issued,
                   listVars, senderVars, data, rcvVars, uiVars>>

-----------------------------------------------------------------------------
(* The sender threads: CReqSender::run, P2PNoTrasmit and P2PWithTransmit.  *)

(* The task moves into the message. Slots the task does not fill keep what *)
(* the message held before.                                                *)
MakeRequestHeader(p) ==
    /\ sPc[p] = "poll"
    /\ sTask[p] # {}
    /\ \E kept \in SUBSET sMsg[p] :
         /\ Cardinality(sTask[p]) + Cardinality(kept) <= MaxReq
         /\ sMsg' = [sMsg EXCEPT ![p] = sTask[p] \cup kept]
    /\ sTask' = [sTask EXCEPT ![p] = {}]
    /\ sPc' = [sPc EXCEPT ![p] = "send"]
    /\ UNCHANGED <<loopVars, mapVars, listVars, sRelay, sRetry, data,
                   rcvVars, uiVars>>

(* The request leaves; the message is zeroed, which names block 0. That it *)
(* left is all the sender learns: a provider that ended, moved or does not *)
(* find the file (any more) never answers, nor does a server that does not *)
(* know whom to relay the request to.                                      *)
SendOk(p) ==
    /\ sPc[p] = "send"
    /\ \/ data' = data \cup {b \in sMsg[p] : HasData(b)}
       \/ p \in MayIgnore /\ UNCHANGED data
    /\ sMsg' = [sMsg EXCEPT ![p] = {0}]
    /\ sRetry' = [sRetry EXCEPT ![p] = 0]
    /\ sPc' = [sPc EXCEPT ![p] = "poll"]
    /\ UNCHANGED <<loopVars, mapVars, listVars, sRelay, sTask, rcvVars, uiVars>>

(* Mutation: one retry too many. *)
SendFailOneMore(p) ==
    /\ sPc[p] = "send"
    /\ p \in MayFail
    /\ IF sRetry[p] <= MaxRetry
       THEN /\ sRetry' = [sRetry EXCEPT ![p] = @ + 1]
            /\ sPc' = [sPc EXCEPT ![p] = "poll"]
            /\ UNCHANGED sMsg
       ELSE /\ sRetry' = [sRetry EXCEPT ![p] = 0]
            /\ sPc' = [sPc EXCEPT ![p] = IF p \in sRelay THEN "remove" ELSE "ask"]
            /\ sMsg' = [sMsg EXCEPT ![p] = {}]
    /\ UNCHANGED <<loopVars, mapVars, listVars, sRelay, sTask, data, rcvVars,
                   uiVars>>

(* The request could not be sent. The retry goes back to MakeRequestHeader *)
(* and so waits for another task: this batch is given up. After the last   *)
(* retry the function returns, and its message and counter with it.        *)
SendFail(p) ==
    /\ sPc[p] = "send"
    /\ p \in MayFail
    /\ IF sRetry[p] < MaxRetry
       THEN /\ sRetry' = [sRetry EXCEPT ![p] = @ + 1]
            /\ sPc' = [sPc EXCEPT ![p] = "poll"]
            /\ UNCHANGED sMsg
       ELSE /\ sRetry' = [sRetry EXCEPT ![p] = 0]
            /\ sPc' = [sPc EXCEPT ![p] = IF p \in sRelay THEN "remove" ELSE "ask"]
            /\ sMsg' = [sMsg EXCEPT ![p] = {}]
    /\ UNCHANGED <<loopVars, mapVars, listVars, sRelay, sTask, data, rcvVars,
                   uiVars>>

(* The server does not know the provider's address: SendMsg_P2PConnect     *)
(* ends the calling thread with ExitThread(0). Only a sender without a     *)
(* relay looks addresses up.                                               *)
LookupExit(p) ==
    /\ sPc[p] = "send"
    /\ p \in MayVanish \ sRelay
    /\ sPc' = [sPc EXCEPT ![p] = "vanished"]
    /\ sRetry' = [sRetry EXCEPT ![p] = 0]
    /\ sMsg' = [sMsg EXCEPT ![p] = {}]
    /\ UNCHANGED <<loopVars, mapVars, listVars, sRelay, sTask, data, rcvVars,
                   uiVars>>

(* The user agrees to relaying: P2PWithTransmit starts with a new message. *)
AnswerYes(p) ==
    /\ sPc[p] = "ask"
    /\ sRelay' = sRelay \cup {p}
    /\ \E g \in SUBSET Garbage : sMsg' = [sMsg EXCEPT ![p] = g]
    /\ sPc' = [sPc EXCEPT ![p] = "poll"]
    /\ UNCHANGED <<loopVars, mapVars, listVars, sRetry, sTask, data, rcvVars,
                   uiVars>>

AnswerNo(p) ==
    /\ sPc[p] = "ask"
    /\ sPc' = [sPc EXCEPT ![p] = "remove"]
    /\ UNCHANGED <<loopVars, mapVars, listVars, sRelay, sRetry, sTask, sMsg,
                   data, rcvVars, uiVars>>

(* Mutation: the lock is not taken. *)
RemoveFailUnlocked(p) ==
    /\ sPc[p] = "remove"
    /\ vObjSender' = IF p \in Entries(vObjSender) THEN Unlist(vObjSender, p)
                                                ELSE vObjSender
    /\ uiQ' = IF vObjSender' = <<>> THEN Append(uiQ, "abort") ELSE uiQ
    /\ sPc' = [sPc EXCEPT ![p] = "gone"]
    /\ sTask' = [sTask EXCEPT ![p] = {}]
    /\ UNCHANGED <<loopVars, mapVars, vProviderMACs, sRelay, sRetry, sMsg, data,
                   rcvVars, alive>>

(* Mutation: the first sender of the list is unlisted, whoever fails. *)
RemoveFailFirst(p) ==
    /\ sPc[p] = "remove"
    /\ pc \notin {"get", "take", "push"}
    /\ vObjSender' = Tail(vObjSender)
    /\ uiQ' = IF vObjSender' = <<>> THEN Append(uiQ, "abort") ELSE uiQ
    /\ sPc' = [sPc EXCEPT ![p] = "gone"]
    /\ sTask' = [sTask EXCEPT ![p] = {}]
    /\ UNCHANGED <<loopVars, mapVars, vProviderMACs, sRelay, sRetry, sMsg, data,
                   rcvVars, alive>>

(* The sender unlists itself and deletes itself; the one that leaves the   *)
(* list empty posts the abort. m_lockSenderObject keeps it out while the   *)
(* downloader walks the list.                                              *)
RemoveFailConnSender(p) ==
    /\ sPc[p] = "remove"
    /\ pc \notin {"get", "take", "push"}
    /\ vObjSender' = IF p \in Entries(vObjSender) THEN Unlist(vObjSender, p)
                                                ELSE vObjSender
    /\ uiQ' = IF vObjSender' = <<>> THEN Append(uiQ, "abort") ELSE uiQ
    /\ sPc' = [sPc EXCEPT ![p] = "gone"]
    /\ sTask' = [sTask EXCEPT ![p] = {}]
    /\ UNCHANGED <<loopVars, mapVars, vProviderMACs, sRelay, sRetry, sMsg, data,
                   rcvVars, alive>>

-----------------------------------------------------------------------------
(* The network and, at its other end, the provider's block server: of the  *)
(* blocks a request names it sends those it can read. What is on its way   *)
(* between the request and the arrival of the block may get lost.          *)

Lose(b) ==
    /\ b \in data
    /\ data' = data \ {b}
    /\ UNCHANGED <<loopVars, mapVars, listVars, senderVars, rcvVars, uiVars>>

(* Mutation: the block stays in the map. *)
RecieveKeepsBlock(b) ==
    /\ b \in data
    /\ data' \in {data, data \ {b}}
    /\ IF b \in mapFileBlocks
       THEN /\ vdata' = Append(vdata, b)
            /\ UNCHANGED <<idle, issued, fresh>>
       ELSE UNCHANGED <<vdata, idle, issued, fresh>>
    /\ UNCHANGED <<loopVars, lastBlockPos, listVars, senderVars, received, written,
                   spoilt, rcv, uiVars>>

(* Mutation: the map is not asked whether the block is outstanding. *)
RecieveUnchecked(b) ==
    /\ b \in data
    /\ data' \in {data, data \ {b}}
    /\ vdata' = Append(vdata, b)
    /\ idle' = idle \ {b} /\ issued' = issued \ {b} /\ fresh' = fresh \ {b}
    /\ UNCHANGED <<loopVars, lastBlockPos, listVars, senderVars, received,
                   written, spoilt, rcv, uiVars>>

(* The reader thread hands a block that arrives to CDownloader::Recieve,   *)
(* which passes it on if it is outstanding. The datagram may be a          *)
(* duplicate, with another copy still on its way.                          *)
Recieve(b) ==
    /\ b \in data
    /\ data' \in {data, data \ {b}}
    /\ IF b \in mapFileBlocks
       THEN /\ vdata' = Append(vdata, b)
            /\ idle' = idle \ {b}
            /\ issued' = issued \ {b}
            /\ fresh' = fresh \ {b}
       ELSE UNCHANGED <<vdata, idle, issued, fresh>>
    /\ UNCHANGED <<loopVars, lastBlockPos, listVars, senderVars, received, written,
                   spoilt, rcv, uiVars>>

-----------------------------------------------------------------------------
(* The receiver thread: CFileClient::run.                                  *)

(* A cached block is written at its (wrapping) offset and counted, whether *)
(* or not the write succeeded. The last one ends the loop.                 *)
WriteBlock ==
    /\ rcv = "run"
    /\ vdata # <<>>
    /\ vdata' = Tail(vdata)
    /\ received' = received + 1
    /\ \E ok \in IF DiskFaults THEN BOOLEAN ELSE {TRUE} :
         IF ok /\ Offset(Head(vdata)) = Head(vdata) * BlockSize
         THEN written' = written \cup {Head(vdata)} /\ UNCHANGED spoilt
         ELSE spoilt' = spoilt \cup {Head(vdata)} /\ UNCHANGED written
    /\ rcv' = IF received' = TotalBlocks THEN "closing" ELSE "run"
    /\ UNCHANGED <<loopVars, mapVars, listVars, senderVars, data, uiVars>>

(* The file is closed, the dialog is told, and the receiver deletes itself. *)
CloseFile ==
    /\ rcv = "closing"
    /\ rcv' = "gone"
    /\ uiQ' = Append(uiQ, "finished")
    /\ UNCHANGED <<loopVars, mapVars, listVars, senderVars, data, vdata,
                   received, written, spoilt, alive>>

-----------------------------------------------------------------------------
(* The dialog: CP2PSharerDlg::OnWndMsg deletes the downloader it is told   *)
(* about. The finished message names it by a string inside the receiver,   *)
(* which may be freed by then: it may or may not still find its entry.     *)

HandleMessage ==
    /\ uiQ # <<>>
    /\ uiQ' = Tail(uiQ)
    /\ \/ alive' = FALSE
       \/ Head(uiQ) = "finished" /\ UNCHANGED alive
    /\ UNCHANGED <<loopVars, mapVars, listVars, senderVars, data, rcvVars>>

(* What the threads do to a deleted downloader is outside this module.     *)
Deleted == ~alive /\ UNCHANGED vars

-----------------------------------------------------------------------------
Round ==
    \/ UpdateDone \/ SplitFileSizeIntoBlockMap \/ GetBlocks \/ TakeBatch
    \/ PushTask \/ EndOfSenders \/ TimeoutElapsed \/ TimeoutNotYet
    \/ SleepRound

Sender(p) ==
    \/ MakeRequestHeader(p) \/ SendOk(p) \/ SendFail(p)
    \/ AnswerYes(p) \/ AnswerNo(p) \/ RemoveFailConnSender(p)

Next ==
    \/ /\ alive
       /\ \/ Round
          \/ \E p \in Provider : AddProvider(p) \/ Sender(p) \/ LookupExit(p)
          \/ \E b \in data : Lose(b) \/ Recieve(b)
          \/ WriteBlock
          \/ CloseFile
          \/ HandleMessage
    \/ Deleted

Spec == Init /\ [][Next]_vars

-----------------------------------------------------------------------------
(* Fairness. Every thread of the client keeps running, and the user        *)
(* answers the question a sender asks (weak fairness). A block that is on  *)
(* its way again and again arrives some time, a send that is tried again   *)
(* and again succeeds some time, a sender that waits for a lock which is   *)
(* free again and again gets it, and the 500 ms between two timeout checks *)
(* elapse (strong fairness). Nothing makes a provider in MayIgnore answer. *)
Fairness ==
    /\ WF_vars(alive /\ Round)
    /\ SF_vars(alive /\ TimeoutElapsed)
    /\ \A p \in Provider : WF_vars(alive /\ Sender(p))
    /\ \A p \in MayFail : SF_vars(alive /\ RemoveFailConnSender(p))
    /\ \A p \in MayFail, b \in FileBlocks :
          SF_vars(alive /\ b \in sMsg[p] /\ SendOk(p))
    /\ \A b \in FileBlocks : SF_vars(alive /\ Recieve(b))
    /\ WF_vars(alive /\ (WriteBlock \/ CloseFile))
    /\ WF_vars(alive /\ HandleMessage)

FairSpec == Spec /\ Fairness

-----------------------------------------------------------------------------
(* Properties.                                                             *)

handled == written \cup spoilt

(* Every variable has its type: senders only in states their code reaches, *)
(* retries within MAX_SEND_DATA_RETRY.                                     *)
TypeOK ==
    /\ pc \in {"update", "split", "get", "take", "push", "timeout", "sleep"}
    /\ idx \in Nat \ {0}
    /\ iGetBlockRes \in 0..2
    /\ vBlocks \subseteq Nat
    /\ vProviderMACs \subseteq Provider
    /\ vObjSender \in Seq(Provider)
    /\ lastBlockPos \in Nat
    /\ idle \subseteq Nat /\ issued \subseteq Nat /\ fresh \subseteq issued
    /\ sPc \in [Provider -> {"none", "poll", "send", "ask", "remove", "gone",
                             "vanished"}]
    /\ sRelay \subseteq Provider
    /\ sRetry \in [Provider -> 0..MaxRetry]
    /\ sTask \in [Provider -> SUBSET Nat]
    /\ sMsg \in [Provider -> SUBSET Nat]
    /\ data \subseteq Nat
    /\ vdata \in Seq(Nat)
    /\ received \in Nat
    /\ written \subseteq Nat /\ spoilt \subseteq Nat
    /\ rcv \in {"run", "closing", "gone"}
    /\ uiQ \in Seq({"finished", "abort"})
    /\ alive \in BOOLEAN

(* Every block cut so far is in exactly one place: waiting in the map,     *)
(* under way in the map, in the receiver's cache (once), or written.       *)
BlockInOnePlace ==
    /\ idle \cap issued = {}
    /\ mapFileBlocks \cap Entries(vdata) = {}
    /\ mapFileBlocks \cap handled = {}
    /\ Entries(vdata) \cap handled = {}
    /\ written \cap spoilt = {}
    /\ NoRepeats(vdata)
    /\ mapFileBlocks \cup Entries(vdata) \cup handled = 0..(lastBlockPos - 1)

(* The receiver's counter, which decides when the file is complete, counts *)
(* different blocks: duplicated and late data is never counted twice.      *)
CountExact == IsFiniteSet(handled) /\ received = Cardinality(handled)

(* The file is reported complete only when every block of it is in place.  *)
FinishedComplete == "finished" \in Entries(uiQ) => written = FileBlocks

(* A receiver that has left its loop is handed no more work: what it is    *)
(* handed then goes to an object that deletes itself.                      *)
NothingAfterClose == rcv # "run" => vdata = <<>>

(* The senders' list and the senders agree: it lists every running (or     *)
(* vanished) sender once, none that has deleted itself, so the downloader  *)
(* never gives a task to a freed object and a removal always finds one.    *)
ListMatchesSenders ==
    /\ NoRepeats(vObjSender)
    /\ Entries(vObjSender) = {p \in Provider : sPc[p] \notin {"none", "gone"}}
    /\ vProviderMACs = {p \in Provider : sPc[p] # "none"}

(* PushTask dereferences m_vObjSender[i] without a test, steps after the   *)
(* index was compared with the size: there is such an entry, and the       *)
(* sender it names has been started and has not deleted itself meanwhile.  *)
TaskGoesToLiving ==
    pc = "push" => /\ idx \in 1..Len(vObjSender)
                   /\ vObjSender[idx] \in Provider
                   /\ sPc[vObjSender[idx]] \notin {"none", "gone"}

(* The map never holds more than MAX_CACHE_BLOCKS blocks, and no batch     *)
(* exceeds what fits a request.                                            *)
WithinBounds ==
    /\ Cardinality(mapFileBlocks) <= Window
    /\ Cardinality(vBlocks) <= MaxReq
    /\ \A p \in Provider : Cardinality(sTask[p]) <= MaxReq

(* What the proofs need besides: only real blocks travel, none is cut      *)
(* beyond the end of the file, and the receiver leaves its loop exactly at *)
(* its total.                                                              *)
OnlyRealBlocks == \A b \in data \cup Entries(vdata) \cup handled : HasData(b)

CutWithinFile == \A k \in 0..(lastBlockPos - 1) : ~PastEnd(k)

ReceiverAtTotal ==
    /\ rcv # "run" => received = TotalBlocks
    /\ "finished" \in Entries(uiQ) => rcv = "gone"

(* What the completeness of a finished file rests on: no write fails, and  *)
(* the file and the block past its end can be addressed by a DWORD.        *)
SmallFile == ~DiskFaults /\ FileSize + BlockSize < DWordMod

(* The inductive invariant: blocks are accounted for one by one, from the  *)
(* map over the cache to the disk, and the counter counts them.            *)
IndInv ==
    /\ TypeOK
    /\ BlockInOnePlace
    /\ CountExact
    /\ OnlyRealBlocks
    /\ CutWithinFile
    /\ ReceiverAtTotal
    /\ ~DiskFaults => \A b \in spoilt : Offset(b) # b * BlockSize

(* The abstract download this one implements. *)
FT == INSTANCE FileTransfer WITH
        Blocks  <- FileBlocks,
        stored  <- written,
        outcome <- IF rcv = "gone" THEN "finished"
                   ELSE IF alive THEN "running" ELSE "aborted"

ImplementsFileTransfer == FT!Spec

(* A download with a sender ends: finished, or aborted by its last sender. *)
EndsSomeTime == vObjSender # <<>> ~> (rcv = "gone" \/ ~alive)

(* The first listed sender whose thread has not vanished has a provider    *)
(* that answers the requests it gets.                                      *)
FirstIsAnswered ==
    \E k \in 1..Len(vObjSender) :
        /\ vObjSender[k] \notin MayIgnore
        /\ sPc[vObjSender[k]] # "vanished"
        /\ \A i \in 1..(k - 1) : sPc[vObjSender[i]] = "vanished"

(* A download whose first sender is answered ends, finished or aborted,    *)
(* unless others come to be first that are not: batches dropped by a       *)
(* failed send, lost blocks and tasks stuck with a thread that vanished    *)
(* all come back by the timeout, and the last sender to leave posts the    *)
(* abort. Being first matters: the smallest batch is offered to the first  *)
(* sender anew each time, so that one whose provider never answers keeps   *)
(* it from all the others.                                                 *)
EndsWhileAnswered ==
    FirstIsAnswered ~> \/ rcv = "gone" \/ ~alive
                       \/ vObjSender # <<>> /\ ~FirstIsAnswered

(* Every sender listed before p is answered, or its thread has vanished,   *)
(* and p is answered.                                                      *)
AnsweredUpTo(p) ==
    \E k \in 1..Len(vObjSender) :
        /\ vObjSender[k] = p /\ p \notin MayIgnore
        /\ \A i \in 1..(k - 1) : \/ vObjSender[i] \notin MayIgnore
                                  \/ sPc[vObjSender[i]] = "vanished"

(* One sender that stays is enough for the file to be completed, whatever  *)
(* happens to the others, once no abort is pending: those listed before    *)
(* it, which take the smallest batch first, may leave, or vanish with what *)
(* they were given, but must not swallow what they ask for.                *)
OneSteadySenderSuffices ==
    \A p \in Provider \ MayVanish :
        (alive /\ AnsweredUpTo(p) /\ "abort" \notin Entries(uiQ))
            ~> (rcv = "gone" \/ p \notin Entries(vObjSender))
=============================================================================
