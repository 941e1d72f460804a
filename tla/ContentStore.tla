---------------------------- MODULE ContentStore ----------------------------
(***************************************************************************)
(* One object of the ContentAddressableStore (cache.rs) on disk, and the   *)
(* processes that share the directory.  put writes a temporary file under  *)
(* a lock file and renames it; opening the store removes every temporary   *)
(* and lock file it comes across; eviction removes the object; a process   *)
(* may be killed between any two steps.  Paths lead to inodes: a file that *)
(* was unlinked or renamed is still the one its opener writes or locks.    *)
(* All writers of an object write the same bytes, that being its name.     *)
(***************************************************************************)
EXTENDS Naturals, FiniteSets

CONSTANTS
    Processes,
    Inodes,         \* enough for the paths and the open files
    None            \* no inode, no process

ASSUME NoneIsNone == None \notin Processes \cup Inodes
ASSUME InodesEnough ==
    /\ IsFiniteSet(Processes) /\ IsFiniteSet(Inodes)
    /\ Cardinality(Inodes) >= 2 * Cardinality(Processes) + 3

VARIABLES
    object,         \* the inode at the path of the object
    temp,           \* the inode at the path with extension tmp
    lockFile,       \* the inode at the path with extension lock
    whole,          \* the inodes that have all the bytes of the object
    flock,          \* the process that has locked each inode
    step,           \* where each process is
    writes,         \* the temporary file each process has open
    locks,          \* the lock file each process has open
    walk,           \* what rebuild_index has still to come across
    indexed,        \* the processes with the object in their index
    disturbed       \* history: an open removed a file another process had open

storeVars == <<object, temp, lockFile, whole, flock, step, writes, locks, walk, indexed, disturbed>>
files == <<object, temp, lockFile, whole>>

Busy == {"locking", "checking", "creating", "writing", "renaming"}
Exclusive == Busy \ {"locking"}         \* with the lock

StoreInit ==
    /\ object = None
    /\ temp = None
    /\ lockFile = None
    /\ whole = {}
    /\ flock = [i \in Inodes |-> None]
    /\ step = [p \in Processes |-> "closed"]
    /\ writes = [p \in Processes |-> None]
    /\ locks = [p \in Processes |-> None]
    /\ walk = [p \in Processes |-> {}]
    /\ indexed = {}
    /\ disturbed = FALSE

InUse == {object, temp, lockFile} \cup {writes[p] : p \in Processes} \cup {locks[p] : p \in Processes}

(* The inode of a file that open() creates.                                *)
NewInode == CHOOSE i \in Inodes : i \notin InUse

-----------------------------------------------------------------------------
(* with_config: rebuild_index walks over the files.                        *)

OpenStore(p) ==
    /\ step[p] = "closed"
    /\ step' = [step EXCEPT ![p] = "opening"]
    /\ walk' = [walk EXCEPT ![p] = {"object", "temp", "lock"}]
    /\ UNCHANGED <<files, flock, writes, locks, indexed, disturbed>>

SeeObject(p) ==
    /\ "object" \in walk[p]
    /\ walk' = [walk EXCEPT ![p] = @ \ {"object"}]
    /\ indexed' = IF object # None THEN indexed \cup {p} ELSE indexed
    /\ UNCHANGED <<files, flock, step, writes, locks, disturbed>>

RemoveTemp(p) ==
    /\ "temp" \in walk[p]
    /\ walk' = [walk EXCEPT ![p] = @ \ {"temp"}]
    /\ temp' = None
    /\ disturbed' = (disturbed \/ \E q \in Processes : temp # None /\ writes[q] = temp)
    /\ UNCHANGED <<object, lockFile, whole, flock, step, writes, locks, indexed>>

RemoveLock(p) ==
    /\ "lock" \in walk[p]
    /\ walk' = [walk EXCEPT ![p] = @ \ {"lock"}]
    /\ lockFile' = None
    /\ disturbed' = (disturbed \/ \E q \in Processes : lockFile # None /\ locks[q] = lockFile)
    /\ UNCHANGED <<object, temp, whole, flock, step, writes, locks, indexed>>

Opened(p) ==
    /\ step[p] = "opening"
    /\ walk[p] = {}
    /\ step' = [step EXCEPT ![p] = "open"]
    /\ UNCHANGED <<files, flock, writes, locks, walk, indexed, disturbed>>

-----------------------------------------------------------------------------
(* put.  An object that exists is not written again.                       *)
OpenLock(p) ==
    /\ step[p] = "open"
    /\ object = None
    /\ LET file == IF lockFile = None THEN NewInode ELSE lockFile IN
           /\ lockFile' = file
           /\ locks' = [locks EXCEPT ![p] = file]
    /\ step' = [step EXCEPT ![p] = "locking"]
    /\ UNCHANGED <<object, temp, whole, flock, writes, walk, indexed, disturbed>>

(* Mutant: the lock is a shared one.                                       *)
AcquireShared(p) ==
    /\ step[p] = "locking"
    /\ flock' = [flock EXCEPT ![locks[p]] = p]
    /\ step' = [step EXCEPT ![p] = "checking"]
    /\ UNCHANGED <<files, writes, locks, walk, indexed, disturbed>>

Acquire(p) ==
    /\ step[p] = "locking"
    /\ flock[locks[p]] = None
    /\ flock' = [flock EXCEPT ![locks[p]] = p]
    /\ step' = [step EXCEPT ![p] = "checking"]
    /\ UNCHANGED <<files, writes, locks, walk, indexed, disturbed>>

(* The lock is released with the file that holds it.                       *)
LetGo(p) ==
    /\ flock' = [i \in Inodes |-> IF flock[i] = p THEN None ELSE flock[i]]
    /\ locks' = [locks EXCEPT ![p] = None]
    /\ writes' = [writes EXCEPT ![p] = None]

CheckAgain(p) ==
    /\ step[p] = "checking"
    /\ IF object # None
       THEN /\ step' = [step EXCEPT ![p] = "open"]
            /\ LetGo(p)
       ELSE /\ step' = [step EXCEPT ![p] = "creating"]
            /\ UNCHANGED <<flock, locks, writes>>
    /\ UNCHANGED <<files, walk, indexed, disturbed>>

(* Mutant: the object is written where it is read.                         *)
CreateInPlace(p) ==
    /\ step[p] = "creating"
    /\ LET file == IF temp = None THEN NewInode ELSE temp IN
           /\ temp' = file
           /\ object' = file
           /\ whole' = whole \ {file}
           /\ writes' = [writes EXCEPT ![p] = file]
    /\ step' = [step EXCEPT ![p] = "writing"]
    /\ UNCHANGED <<lockFile, flock, locks, walk, indexed, disturbed>>

(* atomic_write: the temporary file is created, or emptied.                *)
CreateTemp(p) ==
    /\ step[p] = "creating"
    /\ LET file == IF temp = None THEN NewInode ELSE temp IN
           /\ temp' = file
           /\ whole' = whole \ {file}
           /\ writes' = [writes EXCEPT ![p] = file]
    /\ step' = [step EXCEPT ![p] = "writing"]
    /\ UNCHANGED <<object, lockFile, flock, locks, walk, indexed, disturbed>>

Write(p) ==
    /\ step[p] = "writing"
    /\ whole' = whole \cup {writes[p]}
    /\ step' = [step EXCEPT ![p] = "renaming"]
    /\ UNCHANGED <<object, temp, lockFile, flock, writes, locks, walk, indexed, disturbed>>

(* The rename is of whatever file is at the path; the index follows it.    *)
Rename(p) ==
    /\ step[p] = "renaming"
    /\ temp # None
    /\ object' = temp
    /\ temp' = None
    /\ indexed' = indexed \cup {p}
    /\ step' = [step EXCEPT ![p] = "open"]
    /\ LetGo(p)
    /\ UNCHANGED <<lockFile, whole, walk, disturbed>>

(* "Failed to rename", if there is none.                                   *)
RenameFails(p) ==
    /\ step[p] = "renaming"
    /\ temp = None
    /\ step' = [step EXCEPT ![p] = "failed"]
    /\ LetGo(p)
    /\ UNCHANGED <<files, walk, indexed, disturbed>>

-----------------------------------------------------------------------------
(* evict_lru and gc remove an object of the index, if it is still there.   *)
RemoveObject(p) ==
    /\ step[p] = "open"
    /\ p \in indexed
    /\ object' = None
    /\ indexed' = indexed \ {p}
    /\ UNCHANGED <<temp, lockFile, whole, flock, step, writes, locks, walk, disturbed>>

(* The process ends, or is killed; what it had open is closed.             *)
Die(p) ==
    /\ step[p] # "closed"
    /\ step' = [step EXCEPT ![p] = "closed"]
    /\ walk' = [walk EXCEPT ![p] = {}]
    /\ indexed' = indexed \ {p}
    /\ LetGo(p)
    /\ UNCHANGED <<files, disturbed>>

-----------------------------------------------------------------------------
PutStep(p) == CheckAgain(p) \/ CreateTemp(p) \/ Write(p) \/ Rename(p) \/ RenameFails(p)
OpenStep(p) == SeeObject(p) \/ RemoveTemp(p) \/ RemoveLock(p) \/ Opened(p)

StoreNext ==
    \E p \in Processes :
        \/ OpenStore(p)
        \/ OpenStep(p)
        \/ OpenLock(p)
        \/ Acquire(p)
        \/ PutStep(p)
        \/ RemoveObject(p)
        \/ Die(p)

StoreSpec == StoreInit /\ [][StoreNext]_storeVars

-----------------------------------------------------------------------------
(* Types of the files and of what the processes have open.                 *)
StoreTypeOK ==
    /\ {object, temp, lockFile} \subseteq Inodes \cup {None}
    /\ whole \subseteq Inodes
    /\ flock \in [Inodes -> Processes \cup {None}]
    /\ step \in [Processes -> Busy \cup {"closed", "opening", "open", "failed"}]
    /\ writes \in [Processes -> Inodes \cup {None}]
    /\ locks \in [Processes -> Inodes \cup {None}]
    /\ walk \in [Processes -> SUBSET {"object", "temp", "lock"}]
    /\ indexed \subseteq Processes
    /\ disturbed \in BOOLEAN

(* Wherever a writer is killed: what is read under a hash is all of the    *)
(* object, as long as no store was opened over files that were in use.     *)
ObjectsWhole == ~disturbed /\ object # None => object \in whole

(* So is it that one process at a time is between lock and rename, and     *)
(* that its rename finds the temporary file it has written.                *)
OneWriter ==
    ~disturbed =>
        /\ \A p, q \in Processes : step[p] \in Exclusive /\ step[q] \in Exclusive => p = q
        /\ \A p \in Processes : step[p] = "renaming" => temp = writes[p]

(* Even so an object that was whole does not lose bytes while it is there. *)
WholeStays == [][object' = object /\ object \in whole => object \in whole']_storeVars

(* Objects are whole because their writers exclude one another.            *)
WritersSound ==
    /\ StoreTypeOK
    /\ ObjectsWhole
    /\ OneWriter
=============================================================================
