------------------------------- MODULE Dialog -------------------------------
(***************************************************************************)
(* The window of the client: searches, the list of what they found, and    *)
(* the downloads that are started from it.                                 *)
(*                                                                         *)
(* The UI thread handles one click or message at a time. A click on Search *)
(* starts a thread that asks Redis for the resources whose names match and *)
(* hands the results to the UI thread one by one, waiting for each. A      *)
(* resource is a name and an MD5 value: a file that is registered under    *)
(* several names is several results. A double click on a row starts a      *)
(* download, whose threads post messages: its progress, that its last      *)
(* sender gave up, and, from its receiver, that it is finished. Nothing    *)
(* but the MD5 value of the file tells the UI thread which row, and which  *)
(* download, a message is about.                                           *)
(***************************************************************************)
EXTENDS Integers, Sequences, FiniteSets

CONSTANTS
    File,          \* the files, by their MD5 values
    Resource,      \* the fields of Redis' hash table: a file name and an MD5 value
    MD5,           \* the file a resource is a name of
    Word,          \* the words that are searched for
    Matches,       \* the resources Redis finds for each word
    MaxSearches,   \* how many searches are started at most
    MaxDownloads,  \* how many downloads are started at most
    MaxQueue,      \* posted messages that wait at most
    RedisFails,    \* TRUE if Redis may fail to answer
    None

ASSUME DialogAssumption ==
    /\ MD5 \in [Resource -> File]
    /\ Matches \in [Word -> SUBSET Resource]
    /\ {MaxSearches, MaxDownloads, MaxQueue} \subseteq Nat
    /\ RedisFails \in BOOLEAN
    /\ None \notin Word

Search   == 1..MaxSearches
Download == 1..MaxDownloads

(* A row of the list, and the result m_mapSearchResult has for it: they    *)
(* are filled and emptied together. progress names the file whose progress *)
(* the row shows.                                                          *)
Row == [resource : Resource, progress : File \cup {None}]

(* The file of a row: the filemd5 of its result. *)
FileOf(row) == MD5[row.resource]

(* A message posted, and the download it comes from, which no handler sees. *)
Posted == [kind : {"progress", "finished", "abort"}, file : File, by : Download]

VARIABLES
    searching,  \* m_bSearching
    keyword,    \* m_keyword
    th,         \* the search threads: where each is, its word, and what it has
                \* found and not yet shown
    rows,       \* m_listSearchResult and m_mapSearchResult
    itemOf,     \* m_mapFileItemByMD5: the index of the row of a file
    downloads,  \* g_mapFileDownloader: the download of a file, 0 if none
    dl,         \* the downloads: their file, whether the object is there
                \* (held), and whether the receiver's thread runs (rcv)
    uiQ,        \* messages posted to the window
    overlaps,   \* searches started while another was under way
    early       \* downloads started while one of the file was not over

searchVars   == <<searching, keyword, th, overlaps>>
downloadVars == <<downloads, dl, early>>
vars == <<searchVars, rows, itemOf, downloadVars, uiQ>>

Init ==
    /\ searching = FALSE /\ keyword = None
    /\ th = [s \in Search |-> [pc |-> "unused", word |-> None, left |-> {}]]
    /\ rows = <<>> /\ itemOf = [f \in {} |-> 1]
    /\ downloads = [f \in File |-> 0]
    /\ dl = <<>> /\ uiQ = <<>>
    /\ overlaps = 0 /\ early = 0

Unused == {s \in Search : th[s].pc = "unused"}
NextSearch == CHOOSE s \in Unused : \A r \in Unused : s <= r
UnderWay == {s \in Search : th[s].pc \in {"started", "ready", "asking", "showing"}}

-----------------------------------------------------------------------------
(* A search: OnBnClickedButtonSearch and CSearchResultMgr.                 *)

(* Mutation: the old rows stay. *)
ClickKeepsRows(w) ==
    /\ Unused # {} /\ ~searching
    /\ keyword' = w
    /\ th' = [th EXCEPT ![NextSearch].pc = "started"]
    /\ overlaps' = IF UnderWay = {} THEN overlaps ELSE overlaps + 1
    /\ UNCHANGED <<searching, rows, itemOf, downloadVars, uiQ>>

(* Unless a search is known to be under way, the rows and their results    *)
(* are deleted, and another thread is started on the same object.          *)
OnBnClickedButtonSearch(w) ==
    /\ Unused # {} /\ ~searching
    /\ rows' = <<>>
    /\ keyword' = w
    /\ th' = [th EXCEPT ![NextSearch].pc = "started"]
    /\ overlaps' = IF UnderWay = {} THEN overlaps ELSE overlaps + 1
    /\ UNCHANGED <<searching, itemOf, downloadVars, uiQ>>

(* The thread reads the word it searches for ...                           *)
ReadKeyword(s) ==
    /\ th[s].pc = "started"
    /\ th' = [th EXCEPT ![s].pc = "ready", ![s].word = keyword]
    /\ UNCHANGED <<searching, keyword, overlaps, rows, itemOf, downloadVars, uiQ>>

(* ... and says that it searches.                                          *)
SetSearching(s) ==
    /\ th[s].pc = "ready"
    /\ th' = [th EXCEPT ![s].pc = "asking"]
    /\ searching' = TRUE
    /\ UNCHANGED <<keyword, overlaps, rows, itemOf, downloadVars, uiQ>>

(* FindResource, under the lock of the Redis client, with its retries: the *)
(* fields of the hash table whose name part matches, each once.            *)
FindResource(s) ==
    /\ th[s].pc = "asking"
    /\ th' = [th EXCEPT ![s].pc = "showing", ![s].left = Matches[th[s].word]]
    /\ UNCHANGED <<searching, keyword, overlaps, rows, itemOf, downloadVars, uiQ>>

(* Mutation: the flag stays when Redis fails. *)
FindResourceFailsFlagged(s) ==
    /\ th[s].pc = "asking" /\ RedisFails
    /\ th' = [th EXCEPT ![s].pc = "failed"]
    /\ UNCHANGED <<searching, keyword, overlaps, rows, itemOf, downloadVars, uiQ>>

(* All retries failed.                                                     *)
FindResourceFails(s) ==
    /\ th[s].pc = "asking" /\ RedisFails
    /\ th' = [th EXCEPT ![s].pc = "failed"]
    /\ searching' = FALSE
    /\ UNCHANGED <<keyword, overlaps, rows, itemOf, downloadVars, uiQ>>

(* Mutation: an index that is there stays. *)
RememberFirst(f, i) == itemOf' = [g \in DOMAIN itemOf \cup {f} |->
                                    IF g \in DOMAIN itemOf THEN itemOf[g] ELSE i]

(* The row index of a file is remembered, in place of an older one.        *)
Remember(f, i) == itemOf' = [g \in DOMAIN itemOf \cup {f} |->
                               IF g = f THEN i ELSE itemOf[g]]

(* The thread waits until the UI thread has handled a result: a row is     *)
(* added at the end, and found by the file's MD5 value from then on.       *)
UpdateSearchResult(s) ==
    /\ th[s].pc = "showing"
    /\ \E r \in th[s].left :
          /\ th' = [th EXCEPT ![s].left = @ \ {r}]
          /\ rows' = Append(rows, [resource |-> r, progress |-> None])
          /\ Remember(MD5[r], Len(rows) + 1)
    /\ UNCHANGED <<searching, keyword, overlaps, downloadVars, uiQ>>

(* Mutation: the last result is not waited for. *)
EndSearchEarly(s) ==
    /\ th[s].pc = "showing" /\ Cardinality(th[s].left) <= 1
    /\ th' = [th EXCEPT ![s].pc = "ended"]
    /\ searching' = FALSE
    /\ UNCHANGED <<keyword, overlaps, rows, itemOf, downloadVars, uiQ>>

EndSearch(s) ==
    /\ th[s].pc = "showing" /\ th[s].left = {}
    /\ th' = [th EXCEPT ![s].pc = "ended"]
    /\ searching' = FALSE
    /\ UNCHANGED <<keyword, overlaps, rows, itemOf, downloadVars, uiQ>>

-----------------------------------------------------------------------------
(* A download, as far as the window sees it. When the downloader is gone   *)
(* its thread may still stop the receiver, or not: what it reads is freed. *)

Post(kind, d) ==
    /\ Len(uiQ) < MaxQueue
    /\ uiQ' = Append(uiQ, [kind |-> kind, file |-> dl[d].file, by |-> d])

(* Something of it may still post a message that ends a download.          *)
Lingers(f) ==
    \/ \E d \in DOMAIN dl : dl[d].file = f /\ (dl[d].held \/ dl[d].rcv)
    \/ \E i \in 1..Len(uiQ) : uiQ[i].file = f /\ uiQ[i].kind # "progress"

(* OnNMDblclkListResource: whatever is in the map is replaced.             *)
OnNMDblclkListResource(i) ==
    /\ Len(dl) < MaxDownloads /\ i \in 1..Len(rows)
    /\ LET f == FileOf(rows[i])
       IN  /\ dl' = Append(dl, [file |-> f, held |-> TRUE, rcv |-> TRUE])
           /\ downloads' = [downloads EXCEPT ![f] = Len(dl) + 1]
           /\ early' = IF Lingers(f) THEN early + 1 ELSE early
    /\ UNCHANGED <<searchVars, rows, itemOf, uiQ>>

(* The receiver has written a block.                                       *)
PostProgress(d) ==
    /\ dl[d].rcv
    /\ Post("progress", d)
    /\ UNCHANGED <<searchVars, rows, itemOf, downloadVars>>

(* The receiver ends, with the file complete or because it was stopped.    *)
PostFinished(d) ==
    /\ dl[d].rcv
    /\ Post("finished", d)
    /\ dl' = [dl EXCEPT ![d].rcv = FALSE]
    /\ UNCHANGED <<searchVars, rows, itemOf, downloads, early>>

(* A sender removes itself from the downloader and leaves its list empty.  *)
PostAbort(d) ==
    /\ dl[d].held
    /\ Post("abort", d)
    /\ UNCHANGED <<searchVars, rows, itemOf, downloadVars>>

-----------------------------------------------------------------------------
(* The messages: OnWndMsg. A message points to the MD5 value in the object *)
(* it was posted from. If that is deleted by now, the value may be another. *)

FirstMsg == Head(uiQ)

ReceiverGone == ~dl[FirstMsg.by].rcv
DownloaderGone == ~dl[FirstMsg.by].held

(* Progress goes to the row an MD5 value is mapped to, which is the first  *)
(* one if it is not; a row that is not there stays so.                     *)
ShowProgress(i) ==
    rows' = IF i \in 1..Len(rows)
            THEN [rows EXCEPT ![i].progress = FirstMsg.file] ELSE rows

UpdateDownloadProgress ==
    /\ uiQ # <<>> /\ FirstMsg.kind = "progress"
    /\ \/ LET f == FirstMsg.file
              i == IF f \in DOMAIN itemOf THEN itemOf[f] ELSE 1
          IN  Remember(f, i) /\ ShowProgress(i)
       \/ ReceiverGone /\ ShowProgress(1) /\ UNCHANGED itemOf
    /\ uiQ' = Tail(uiQ)
    /\ UNCHANGED <<searchVars, downloadVars>>

(* Mutation: it is not erased. *)
DeleteOnly(f) ==
    /\ IF downloads[f] = 0 THEN UNCHANGED dl
       ELSE dl' = [dl EXCEPT ![downloads[f]].held = FALSE]
    /\ UNCHANGED downloads

(* Mutation: the download of the row the file is in is deleted. *)
DeleteByRow(f) ==
    LET i == IF f \in DOMAIN itemOf THEN itemOf[f] ELSE 1
        g == IF i \in 1..Len(rows) THEN FileOf(rows[i]) ELSE f
    IN  IF downloads[g] = 0 THEN UNCHANGED <<downloads, dl>>
        ELSE /\ dl' = [dl EXCEPT ![downloads[g]].held = FALSE]
             /\ downloads' = [downloads EXCEPT ![g] = 0]

(* The download the map has under the MD5 value is deleted and erased.     *)
Delete(f) ==
    IF downloads[f] = 0 THEN UNCHANGED <<downloads, dl>>
    ELSE /\ dl' = [dl EXCEPT ![downloads[f]].held = FALSE]
         /\ downloads' = [downloads EXCEPT ![f] = 0]

(* The receiver deletes itself as soon as it has posted its last message.  *)
DownloadFinished ==
    /\ uiQ # <<>> /\ FirstMsg.kind = "finished"
    /\ Delete(FirstMsg.file) \/ UNCHANGED <<downloads, dl>>
    /\ uiQ' = Tail(uiQ)
    /\ UNCHANGED <<searchVars, rows, itemOf, early>>

DownloadAbort ==
    /\ uiQ # <<>> /\ FirstMsg.kind = "abort"
    /\ \/ Delete(FirstMsg.file)
       \/ DownloaderGone /\ UNCHANGED <<downloads, dl>>
    /\ uiQ' = Tail(uiQ)
    /\ UNCHANGED <<searchVars, rows, itemOf, early>>

-----------------------------------------------------------------------------
SearchStep(s) ==
    \/ ReadKeyword(s) \/ SetSearching(s) \/ FindResource(s)
    \/ FindResourceFails(s) \/ UpdateSearchResult(s) \/ EndSearch(s)

Next ==
    \/ \E w \in Word : OnBnClickedButtonSearch(w)
    \/ \E i \in 1..Len(rows) : OnNMDblclkListResource(i)
    \/ \E s \in Search : SearchStep(s)
    \/ \E d \in DOMAIN dl : PostProgress(d) \/ PostFinished(d) \/ PostAbort(d)
    \/ UpdateDownloadProgress \/ DownloadFinished \/ DownloadAbort

Spec == Init /\ [][Next]_vars

-----------------------------------------------------------------------------
(* Properties.                                                             *)

(* The type invariant; only a thread that shows results has any left.      *)
TypeOK ==
    /\ searching \in BOOLEAN /\ keyword \in Word \cup {None}
    /\ th \in [Search -> [pc : {"unused", "started", "ready", "asking", "showing",
                                "ended", "failed"},
                          word : Word \cup {None}, left : SUBSET Resource]]
    /\ \A s \in Search : th[s].left # {} => th[s].pc = "showing"
    /\ rows \in Seq(Row)
    /\ DOMAIN itemOf \subseteq File
    /\ \A f \in DOMAIN itemOf : itemOf[f] \in Nat \ {0}
    /\ downloads \in [File -> {0} \cup DOMAIN dl]
    /\ dl \in Seq([file : File, held : BOOLEAN, rcv : BOOLEAN])
    /\ uiQ \in Seq(Posted)
    /\ overlaps \in Nat /\ early \in Nat

(* The flag that keeps a second search away follows the threads: it is     *)
(* down when none is under way, however many overlapped and failed, so     *)
(* that the user can search again; and while no two overlapped it is up    *)
(* from the question to Redis to the last result.                          *)
FlagFollowsThreads ==
    /\ searching => UnderWay # {}
    /\ overlaps = 0 /\ (\E s \in Search : th[s].pc \in {"asking", "showing"})
          => searching

Listed == {rows[i].resource : i \in 1..Len(rows)}

LastSearch(s) == s \notin Unused /\ \A r \in Search \ Unused : r <= s

(* As long as no two searches overlapped, the list shows resources that    *)
(* match the last word, each name of each file once, and all of them when  *)
(* the search is through.                                                  *)
ShowsTheLastSearch ==
    overlaps = 0 =>
        /\ Cardinality(Listed) = Len(rows)
        /\ \A s \in Search :
              LastSearch(s) /\ th[s].pc \in {"showing", "ended"}
                  => Listed = Matches[keyword] \ th[s].left
        /\ \A s \in Search :
              LastSearch(s) /\ th[s].pc \notin {"showing", "ended"} => rows = <<>>

(* A file that is listed has its progress shown in a row of its own (of    *)
(* several names, the one that was listed last), although the map from     *)
(* files to rows is never emptied and searches and messages of older       *)
(* downloads come in between.                                              *)
ProgressFindsItsRow ==
    \A f \in {FileOf(rows[i]) : i \in 1..Len(rows)} :
        itemOf[f] \in 1..Len(rows) /\ FileOf(rows[itemOf[f]]) = f

(* The map never leads to a downloader that is deleted, so that no message *)
(* deletes one twice and no block is handed to one, however aborts, late   *)
(* finished messages and new downloads of the same file follow each other. *)
MapHoldsTheLiving == \A f \in File : downloads[f] # 0 => dl[downloads[f]].held

(* As long as no download is started while an older one of the same file   *)
(* is not over, a message deletes the download it comes from and no other. *)
DeletesItsOwn ==
    [][\A d \in DOMAIN dl :
          dl[d].held /\ ~dl'[d].held /\ early = 0
              => FirstMsg.kind # "progress" /\ FirstMsg.by = d]_vars
=============================================================================
