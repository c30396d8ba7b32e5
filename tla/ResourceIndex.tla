--------------------------- MODULE ResourceIndex ---------------------------
(***************************************************************************)
(* What a client offers to others: the list of the video files it found,   *)
(* kept in a file, the map it answers requests from, and the registration  *)
(* of new files with the Redis server.                                     *)
(*                                                                         *)
(* When the program starts, the resource manager's thread loads the list,  *)
(* has one thread per drive look for video files and append them to it,    *)
(* loads it again, registers what is in the second map and not in the      *)
(* first, and then replaces the first. Meanwhile the reader thread looks   *)
(* files up in the first map, which inserts an empty entry for a file that *)
(* is not there. A file stands for its content: its MD5 value.             *)
(***************************************************************************)
EXTENDS Integers, Sequences, FiniteSets

CONSTANTS
    Drive,        \* the disks of the computer
    File,         \* the video files
    CacheMax,     \* lines a scan keeps in memory (100)
    MaxStarts,    \* how often the program is started at most
    MaxChanges,   \* how many files the user adds or removes at most
    Interrupted,  \* TRUE if the program may end before it has registered all
    RedisFails    \* TRUE if a registration may fail

ASSUME ResourceAssumption ==
    /\ IsFiniteSet(Drive) /\ IsFiniteSet(File)
    /\ CacheMax \in Nat \ {0}
    /\ MaxStarts \in Nat /\ MaxChanges \in Nat
    /\ Interrupted \in BOOLEAN /\ RedisFails \in BOOLEAN

Line == Drive \X File      \* name|path|MD5|size of the file at a path

NoPath == <<>>             \* the content of an entry inserted by a look-up

(* m_mapResource, m_mapResourceTemp: the keys are MD5 values.              *)
ResourceMap == UNION {[S -> Line \cup {NoPath}] : S \in SUBSET File}

VARIABLES
    disk,        \* the video files on each drive
    list,        \* the file NAME_FILE_INFO_LIST
    owned,       \* files whose set of owners in Redis has this client
    named,       \* files in the hash table that Redis is searched by
    phase,       \* where the resource manager is
    resource,    \* m_mapResource
    temp,        \* m_mapResourceTemp
    unseen,      \* what each scan has not come across yet
    cache,       \* m_vfileList of each scan
    scanning,    \* the scans that run
    unchecked,   \* keys of m_mapResourceTemp not looked at yet
    naming,      \* the new file whose owner is registered next
    missing,     \* files flagged as not there
    serving,     \* files with a CFileServer
    starts, changes

memory == <<resource, temp, unseen, cache, scanning, unchecked, naming,
            missing, serving>>
stored == <<disk, list, owned, named>>
vars == <<stored, phase, memory, starts, changes>>

EmptyMap == [f \in {} |-> NoPath]

(* LoadResourceList: the last line of a file counts; other entries stay.   *)
LoadResourceList(map) ==
    LET listed == {list[i][2] : i \in 1..Len(list)}
        LastLine(f) == CHOOSE i \in 1..Len(list) :
                          list[i][2] = f /\ \A j \in (i + 1)..Len(list) : list[j][2] # f
    IN  [f \in listed \cup DOMAIN map |->
            IF f \in listed THEN list[LastLine(f)] ELSE map[f]]

Init ==
    /\ disk \in [Drive -> SUBSET File]
    /\ list = <<>> /\ owned = {} /\ named = {}
    /\ phase = "down"
    /\ resource = EmptyMap /\ temp = EmptyMap
    /\ unseen = [d \in Drive |-> {}] /\ cache = [d \in Drive |-> <<>>]
    /\ scanning = {} /\ unchecked = {} /\ naming = {}
    /\ missing = {} /\ serving = {}
    /\ starts = 0 /\ changes = 0

-----------------------------------------------------------------------------
(* CResourceMgr::run.                                                      *)

Start ==
    /\ phase = "down" /\ starts < MaxStarts
    /\ phase' = "load"
    /\ starts' = starts + 1
    /\ UNCHANGED <<stored, memory, changes>>

(* The old list is loaded, and the scans of all drives start.              *)
Load ==
    /\ phase = "load"
    /\ resource' = LoadResourceList(resource)
    /\ unseen' = disk /\ scanning' = Drive
    /\ phase' = "scan"
    /\ UNCHANGED <<stored, temp, cache, unchecked, naming, missing, serving,
                   starts, changes>>

(* What WriteCacheToFile appends, line by line: those it does not find as  *)
(* keys of the map, whose keys are MD5 values.                             *)
NewLines(lines) ==
    LET upTo[i \in 0..Len(lines)] ==
            IF i = 0 THEN <<>>
            ELSE IF lines[i] \notin DOMAIN resource
                 THEN Append(upTo[i - 1], lines[i]) ELSE upTo[i - 1]
    IN  upTo[Len(lines)]

(* CacheFileInfo: a line is cached; if the cache is full it is written and *)
(* emptied instead.                                                        *)
Visit(d) ==
    /\ d \in scanning
    /\ \E f \in unseen[d] :
          /\ unseen' = [unseen EXCEPT ![d] = @ \ {f}]
          /\ IF Len(cache[d]) < CacheMax
             THEN /\ cache' = [cache EXCEPT ![d] = Append(@, <<d, f>>)]
                  /\ UNCHANGED list
             ELSE /\ list' = list \o NewLines(cache[d])
                  /\ cache' = [cache EXCEPT ![d] = <<>>]
    /\ UNCHANGED <<disk, owned, named, phase, resource, temp, scanning,
                   unchecked, naming, missing, serving, starts, changes>>

(* Mutation: what is still cached is not written. *)
ScanEndsUnwritten(d) ==
    /\ d \in scanning /\ unseen[d] = {}
    /\ scanning' = scanning \ {d}
    /\ UNCHANGED <<stored, phase, resource, temp, unseen, cache, unchecked,
                   naming, missing, serving, starts, changes>>

(* A scan is through: it writes what it has cached.                        *)
ScanEnds(d) ==
    /\ d \in scanning /\ unseen[d] = {}
    /\ scanning' = scanning \ {d}
    /\ list' = list \o NewLines(cache[d])
    /\ cache' = [cache EXCEPT ![d] = <<>>]
    /\ UNCHANGED <<disk, owned, named, phase, resource, temp, unseen,
                   unchecked, naming, missing, serving, starts, changes>>

(* All scans are through: the new list is loaded beside the old.           *)
Reload ==
    /\ phase = "scan" /\ scanning = {}
    /\ temp' = LoadResourceList(temp)
    /\ unchecked' = DOMAIN temp'
    /\ phase' = "register"
    /\ UNCHANGED <<stored, resource, unseen, cache, scanning, naming, missing,
                   serving, starts, changes>>

(* A file in the new map is new if the old has no entry; its name goes to  *)
(* the hash table. A failure is logged.                                    *)
AddResourceToHashList(f) ==
    /\ phase = "register" /\ naming = {} /\ f \in unchecked
    /\ unchecked' = unchecked \ {f}
    /\ IF f \in DOMAIN resource
       THEN UNCHANGED <<named, naming>>
       ELSE /\ named' \in {named \cup {f}} \cup (IF RedisFails THEN {named} ELSE {})
            /\ naming' = {f}
    /\ UNCHANGED <<disk, list, owned, phase, resource, temp, unseen, cache,
                   scanning, missing, serving, starts, changes>>

(* The client joins the file's owners. A failure is logged here too.       *)
AddMACToResourceSet ==
    /\ phase = "register" /\ naming # {}
    /\ owned' \in {owned \cup naming} \cup (IF RedisFails THEN {owned} ELSE {})
    /\ naming' = {}
    /\ UNCHANGED <<disk, list, named, phase, resource, temp, unseen, cache,
                   scanning, unchecked, missing, serving, starts, changes>>

(* Mutation: the old map stays. *)
SwapNot ==
    /\ phase = "register" /\ unchecked = {} /\ naming = {}
    /\ phase' = "idle"
    /\ UNCHANGED <<stored, memory, starts, changes>>

(* The new map becomes the one requests are answered from.                 *)
Swap ==
    /\ phase = "register" /\ unchecked = {} /\ naming = {}
    /\ resource' = temp /\ temp' = resource
    /\ phase' = "idle"
    /\ UNCHANGED <<stored, unseen, cache, scanning, unchecked, naming, missing,
                   serving, starts, changes>>

-----------------------------------------------------------------------------
(* ProcMsgGetBlocks, as far as it finds the file: others ask for what the  *)
(* client is an owner of. A file that is not where the map says, or that   *)
(* the map has no path of, is flagged and not looked for again.            *)
GetBlocks(f) ==
    /\ phase # "down" /\ f \in owned
    /\ f \notin missing \cup serving
    /\ resource' = IF f \in DOMAIN resource THEN resource
                   ELSE [g \in {f} \cup DOMAIN resource |->
                           IF g = f THEN NoPath ELSE resource[g]]
    /\ IF resource'[f] # NoPath /\ f \in disk[resource'[f][1]]
       THEN serving' = serving \cup {f} /\ UNCHANGED missing
       ELSE missing' = missing \cup {f} /\ UNCHANGED serving
    /\ UNCHANGED <<stored, phase, temp, unseen, cache, scanning, unchecked,
                   naming, starts, changes>>

-----------------------------------------------------------------------------
(* The user and the world.                                                 *)

(* A file appears; a scan under way may still come across it.              *)
AddFile(d, f) ==
    /\ changes < MaxChanges /\ f \notin disk[d]
    /\ disk' = [disk EXCEPT ![d] = @ \cup {f}]
    /\ changes' = changes + 1
    /\ \/ UNCHANGED unseen
       \/ d \in scanning /\ unseen' = [unseen EXCEPT ![d] = @ \cup {f}]
    /\ UNCHANGED <<list, owned, named, phase, resource, temp, cache, scanning,
                   unchecked, naming, missing, serving, starts>>

(* A file that is not being served is removed.                             *)
RemoveFile(d, f) ==
    /\ changes < MaxChanges /\ f \in disk[d] /\ f \notin serving
    /\ disk' = [disk EXCEPT ![d] = @ \ {f}]
    /\ changes' = changes + 1
    /\ unseen' = [unseen EXCEPT ![d] = @ \ {f}]
    /\ UNCHANGED <<list, owned, named, phase, resource, temp, cache, scanning,
                   unchecked, naming, missing, serving, starts>>

(* The program ends, and everything but the list file and Redis is gone.   *)
Stop ==
    /\ phase = "idle" \/ (Interrupted /\ phase # "down")
    /\ phase' = "down"
    /\ resource' = EmptyMap /\ temp' = EmptyMap
    /\ unseen' = [d \in Drive |-> {}] /\ cache' = [d \in Drive |-> <<>>]
    /\ scanning' = {} /\ unchecked' = {} /\ naming' = {}
    /\ missing' = {} /\ serving' = {}
    /\ UNCHANGED <<stored, starts, changes>>

-----------------------------------------------------------------------------
Manager ==
    \/ Load \/ Reload \/ AddMACToResourceSet \/ Swap
    \/ \E f \in File : AddResourceToHashList(f)

Scan(d) == Visit(d) \/ ScanEnds(d)

Next ==
    \/ Start \/ Manager \/ Stop
    \/ \E d \in Drive : Scan(d)
    \/ \E f \in File : GetBlocks(f)
    \/ \E d \in Drive, f \in File : AddFile(d, f) \/ RemoveFile(d, f)

Spec == Init /\ [][Next]_vars

(* Fairness. The threads of a running program go on.                       *)
FairSpec ==
    /\ Spec
    /\ WF_vars(Manager)
    /\ \A d \in Drive : WF_vars(Scan(d))

-----------------------------------------------------------------------------
(* Properties.                                                             *)

(* Every variable has its type; a scan that is not under way has nothing   *)
(* left to see or to write.                                                *)
TypeOK ==
    /\ disk \in [Drive -> SUBSET File]
    /\ list \in Seq(Line)
    /\ owned \subseteq File /\ named \subseteq File
    /\ phase \in {"down", "load", "scan", "register", "idle"}
    /\ resource \in ResourceMap /\ temp \in ResourceMap
    /\ unseen \in [Drive -> SUBSET File]
    /\ cache \in [Drive -> Seq(Line)]
    /\ \A d \in Drive : Len(cache[d]) <= CacheMax
    /\ \A d \in Drive \ scanning : unseen[d] = {} /\ cache[d] = <<>>
    /\ scanning \subseteq Drive
    /\ unchecked \subseteq File /\ naming \subseteq File
    /\ missing \subseteq File /\ serving \subseteq File
    /\ starts \in 0..MaxStarts /\ changes \in 0..MaxChanges

HasPath(map, f) == f \in DOMAIN map /\ map[f] # NoPath

(* Once the list is loaded, a client that Redis names as an owner of a     *)
(* file has a path of the file: in its map, or in the one that is about to *)
(* replace it. It holds across restarts, although the list and Redis are   *)
(* written at different times and look-ups insert entries without a path.  *)
OfferedIsKnown ==
    phase \in {"scan", "register", "idle"} =>
        \A f \in owned : HasPath(resource, f) \/ (phase = "register" /\ HasPath(temp, f))

ListedFiles == {list[i][2] : i \in 1..Len(list)}

(* Of the files on a drive when the program starts, all are offered to     *)
(* others at last but those a scan drops, one each time its cache is full, *)
(* hence one in CacheMax + 1, and those that have a line in the list from  *)
(* a start that ended before they were registered: no later start takes    *)
(* these for new. Unless the user changes the drive, the program is ended  *)
(* again, or Redis fails.                                                  *)
OfferedInTime ==
    \A d \in Drive, S \in SUBSET File : \A N \in SUBSET S :
        LET dropped == Cardinality(S) \div (CacheMax + 1)
        IN  (/\ phase = "load" /\ disk[d] = S
             /\ N = {f \in S : f \in ListedFiles => f \in owned})
                ~> \/ Cardinality(owned \cap N) >= Cardinality(N) - dropped
                   \/ disk[d] # S \/ phase = "down"

(* The flag says that the file does not exist (ServerEX.cpp:545, :619) and *)
(* is never cleared. It is set for a file that does exist only before the  *)
(* list is loaded, and while new files are registered and the map that has *)
(* their paths is not yet swapped in, unless the user moves files about.   *)
FlaggedInGap ==
    [][\A f \in missing' \ missing :
          (\E d \in Drive : f \in disk[d])
              => phase \in {"load", "register"} \/ changes > 0]_vars
=============================================================================
