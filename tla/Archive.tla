------------------------------ MODULE Archive ------------------------------
(***************************************************************************)
(* The archive of the frozen PDFs (object-storage.ts): a PDF goes to R2,   *)
(* or to the local disk and into a queue when R2 does not take it; the     *)
(* daily job uploads what is queued, and gives up after some failures.     *)
(* The queue is a file that everyone reads, changes and writes back whole. *)
(* The requests for one key follow each other here: a PDF is archived      *)
(* again only after the one before it was deleted, or its request died     *)
(* (DevisLifecycle and FactureChain have requests that overlap).           *)
(***************************************************************************)
EXTENDS Naturals

CONSTANTS
    Keys,               \* the keys of the documents
    SyncMaxFailures,    \* SYNC_MAX_FAILURES
    MaxPdfs,            \* bound on the numbers of the PDFs of each key
    MaxDeaths           \* bound on the deaths of the process

ASSUME ArchiveAssumption ==
    /\ SyncMaxFailures \in Nat \ {0} /\ MaxPdfs \in [Keys -> Nat] /\ MaxDeaths \in Nat

VARIABLES
    r2,          \* the version of each key on R2, 0 when there is none
    local,       \* the version of each key on the local disk
    queue,       \* r2-pending-uploads.json: an entry for each key
    dead,        \* r2-dead-letter.json
    call,        \* what the request for each key is doing
    sync,        \* what the job is doing
    lastPdf,     \* the PDFs are numbered: a version is the number of a PDF
    made,        \* the last PDF made for each key
    kept,        \* the version that was archived and not deleted since, or 0
    lost,        \* the keys whose entry another writer of the queue wrote over
    late,        \* the keys of which the job put an old version over a newer one
    stray,       \* the keys of which a version that nobody keeps may be on a disk
    deaths

disks == <<r2, local>>
pdfs == <<lastPdf, made>>
archiveVars == <<disks, queue, dead, call, sync, pdfs, kept, lost, late, stray, deaths>>

-----------------------------------------------------------------------------
(* The queue file                                                          *)

\* failCount, and the version that enqueuedAt stands for.
Absent == [fails |-> 0, at |-> 0]
Empty == [k \in Keys |-> Absent]

NoCall == [pc |-> "idle", seen |-> Empty]
NoSync == [pc |-> "idle", seen |-> Empty, todo |-> Empty, remaining |-> Empty,
           putting |-> {}]

Calls(k, pc) == call[k].pc = pc
CallTo(k, pc) == call' = [call EXCEPT ![k] = [pc |-> pc, seen |-> call[k].seen]]

\* A file that is being written was truncated first.
BeingWritten == sync.pc = "write" \/ \E k \in Keys: call[k].pc \in {"add", "remove", "drop"}

\* readJsonFile: what does not parse is an empty queue.
ReadQueue == {queue} \union (IF BeingWritten THEN {Empty} ELSE {})

\* writeJsonFile: what others wrote since the file was read is gone.
Forgotten(seen) == {k \in Keys: queue[k] # Absent /\ queue[k] # seen[k]}

WriteQueue(seen, new, own) ==
    /\ queue' = new
    /\ lost' = (lost \union Forgotten(seen)) \ own

-----------------------------------------------------------------------------
(* The requests                                                            *)

\* archivePdf
ArchivePdf(k) ==
    /\ Calls(k, "idle") /\ kept[k] = 0
    /\ lastPdf < MaxPdfs[k]
    /\ lastPdf' = lastPdf + 1
    /\ made' = [made EXCEPT ![k] = lastPdf']
    /\ CallTo(k, "put")
    /\ UNCHANGED <<disks, queue, dead, sync, kept, lost, late, stray, deaths>>

PutSucceeds(k) ==
    /\ Calls(k, "put")
    /\ r2' = [r2 EXCEPT ![k] = made[k]]
    /\ late' = late \ {k}
    /\ stray' = IF local[k] = 0 THEN stray \ {k} ELSE stray
    /\ CallTo(k, "readRemove")
    /\ UNCHANGED <<local, queue, dead, sync, pdfs, kept, lost, deaths>>

WriteLocalPdf(k) == [local EXCEPT ![k] = made[k]]

\* The tries failed, though one of them may have arrived.
PutFails(k) ==
    /\ Calls(k, "put")
    /\ \/ r2' = [r2 EXCEPT ![k] = made[k]] /\ late' = late \ {k} /\ stray' = stray \ {k}
       \/ UNCHANGED <<r2, late, stray>>
    /\ local' = WriteLocalPdf(k)
    /\ CallTo(k, "readAdd")
    /\ UNCHANGED <<queue, dead, sync, pdfs, kept, lost, deaths>>

\* deleteArchivedPdf: a failure on R2 is logged, and nothing more.
DeleteArchivedPdf(k) ==
    /\ Calls(k, "idle") /\ kept[k] # 0
    /\ kept' = [kept EXCEPT ![k] = 0]
    /\ \/ r2' = [r2 EXCEPT ![k] = 0] /\ UNCHANGED stray
       \/ stray' = stray \union {k} /\ UNCHANGED r2
    /\ CallTo(k, "unlink")
    /\ UNCHANGED <<local, queue, dead, sync, pdfs, lost, late, deaths>>

Unlink(k) ==
    /\ Calls(k, "unlink")
    /\ local' = [local EXCEPT ![k] = 0]
    /\ CallTo(k, "readDrop")
    /\ UNCHANGED <<r2, queue, dead, sync, pdfs, kept, lost, late, stray, deaths>>

ReadPendingQueue(k) ==
    /\ \E step \in {<<"readAdd", "add">>, <<"readRemove", "remove">>, <<"readDrop", "drop">>}:
           /\ Calls(k, step[1])
           /\ \E seen \in ReadQueue: call' = [call EXCEPT ![k] = [pc |-> step[2], seen |-> seen]]
    /\ UNCHANGED <<disks, queue, dead, sync, pdfs, kept, lost, late, stray, deaths>>

\* An entry that is there keeps its failures.
EnqueuePendingR2Upload(k) ==
    /\ Calls(k, "add")
    /\ WriteQueue(call[k].seen,
                  [call[k].seen EXCEPT ![k] = [fails |-> call[k].seen[k].fails, at |-> made[k]]], {k})
    /\ kept' = [kept EXCEPT ![k] = made[k]]
    /\ call' = [call EXCEPT ![k] = NoCall]
    /\ UNCHANGED <<disks, dead, sync, pdfs, late, stray, deaths>>

\* The last step of an archive on R2, and of a deletion.
RemovePendingR2Upload(k) ==
    /\ Calls(k, "remove") \/ Calls(k, "drop")
    /\ WriteQueue(call[k].seen, [call[k].seen EXCEPT ![k] = Absent], {k})
    /\ kept' = [kept EXCEPT ![k] = IF Calls(k, "remove") THEN made[k] ELSE 0]
    /\ call' = [call EXCEPT ![k] = NoCall]
    /\ UNCHANGED <<disks, dead, sync, pdfs, late, stray, deaths>>

-----------------------------------------------------------------------------
(* The readers                                                             *)

\* An error of R2 and a file that is not there read the same.
ReadFromR2(k, answers) == IF answers THEN r2[k] ELSE 0
ReadLocalPdf(k) == local[k]

ReadArchivedPdf(k, answers) ==
    IF ReadFromR2(k, answers) # 0 THEN ReadFromR2(k, answers) ELSE ReadLocalPdf(k)

\* What the route of a PDF serves once its row says that it was archived: nothing is
\* made anew, a PDF that cannot be read is an error.
Served(k, answers) == {ReadArchivedPdf(k, answers)} \ {0}

-----------------------------------------------------------------------------
(* The job: syncPendingR2Uploads                                           *)

StartSync ==
    /\ sync.pc = "idle"
    /\ \E seen \in ReadQueue:
           /\ seen # Empty
           /\ sync' = [pc |-> "items", seen |-> seen, todo |-> seen, remaining |-> Empty, putting |-> {}]
    /\ UNCHANGED <<disks, queue, dead, call, pdfs, kept, lost, late, stray, deaths>>

SyncTo(pc, todo, remaining, putting) ==
    [pc |-> pc, seen |-> sync.seen, todo |-> todo, remaining |-> remaining, putting |-> putting]

Treated(k) == SyncTo("items", [sync.todo EXCEPT ![k] = Absent], sync.remaining, {})

AppendDeadLetter(k) == dead' = dead \union {<<k, sync.todo[k].at>>}

\* readLocalPdf; the PDF goes up in the next step, in the version it was read.
TakeItem(k) ==
    /\ sync.pc = "items" /\ sync.putting = {} /\ sync.todo[k] # Absent
    /\ IF local[k] = 0
       THEN AppendDeadLetter(k) /\ sync' = Treated(k)
       ELSE /\ sync' = SyncTo("items", sync.todo, sync.remaining, {<<k, local[k]>>})
            /\ UNCHANGED dead
    /\ UNCHANGED <<disks, queue, call, pdfs, kept, lost, late, stray, deaths>>

\* A deletion has begun, and nothing was archived since.
Deleted(k) == kept[k] = 0 /\ call[k].pc \in {"idle", "unlink", "readDrop", "drop"}

Uploaded(k, version) ==
    /\ r2' = [r2 EXCEPT ![k] = version]
    /\ late' = IF version < r2[k] THEN late \union {k}
               ELSE IF version = made[k] THEN late \ {k} ELSE late
    /\ stray' = IF version # made[k] \/ Deleted(k) THEN stray \union {k} ELSE stray

SyncSucceeds(k) ==
    /\ \E version \in 1 .. made[k]: <<k, version>> \in sync.putting /\ Uploaded(k, version)
    /\ sync' = Treated(k)
    /\ UNCHANGED <<local, queue, dead, call, pdfs, kept, lost, deaths>>

\* The mutant writes the item back as it was.
NotCounted(item) == item
Counted(item) == [fails |-> item.fails + 1, at |-> item.at]

\* The mutant does not push it on the list.
Dropped(k, item) == Treated(k)
Remains(k, item) ==
    SyncTo("items", [sync.todo EXCEPT ![k] = Absent], [sync.remaining EXCEPT ![k] = item], {})

SyncFails(k) ==
    /\ \E version \in 1 .. made[k]:
           /\ <<k, version>> \in sync.putting
           /\ Uploaded(k, version) \/ UNCHANGED <<r2, late, stray>>
    /\ LET item == Counted(sync.todo[k])
       IN IF item.fails >= SyncMaxFailures
          THEN AppendDeadLetter(k) /\ sync' = Treated(k)
          ELSE sync' = Remains(k, item) /\ UNCHANGED dead
    /\ UNCHANGED <<local, queue, call, pdfs, kept, lost, deaths>>

BeginWrite ==
    /\ sync.pc = "items" /\ sync.todo = Empty
    /\ sync' = SyncTo("write", sync.todo, sync.remaining, {})
    /\ UNCHANGED <<disks, queue, dead, call, pdfs, kept, lost, late, stray, deaths>>

WriteRemaining ==
    /\ sync.pc = "write"
    /\ WriteQueue(sync.seen, sync.remaining, {})
    /\ sync' = NoSync
    /\ UNCHANGED <<disks, dead, call, pdfs, kept, late, stray, deaths>>

\* The process dies; a file that was being written may stay truncated.
ProcessDies ==
    /\ deaths < MaxDeaths
    /\ deaths' = deaths + 1
    /\ \E left \in ReadQueue:
           queue' = left /\ lost' = lost \union {k \in Keys: left[k] # queue[k]}
    /\ call' = [k \in Keys |-> NoCall]
    /\ sync' = NoSync
    /\ stray' = stray \union {k \in Keys: ~Calls(k, "idle")}
    /\ UNCHANGED <<disks, dead, pdfs, kept, late>>

-----------------------------------------------------------------------------
ArchiveInit ==
    /\ r2 = [k \in Keys |-> 0] /\ local = [k \in Keys |-> 0]
    /\ queue = Empty /\ dead = {}
    /\ call = [k \in Keys |-> NoCall] /\ sync = NoSync
    /\ lastPdf = 0 /\ made = [k \in Keys |-> 0]
    /\ kept = [k \in Keys |-> 0] /\ lost = {} /\ late = {} /\ stray = {} /\ deaths = 0

\* What a request or the job does once it has begun.
GoOn(k) ==
    \/ PutSucceeds(k) \/ PutFails(k) \/ Unlink(k) \/ ReadPendingQueue(k)
    \/ EnqueuePendingR2Upload(k) \/ RemovePendingR2Upload(k)

SyncStep ==
    \/ StartSync \/ BeginWrite \/ WriteRemaining
    \/ \E k \in Keys: TakeItem(k) \/ SyncSucceeds(k) \/ SyncFails(k)

ArchiveNext ==
    \/ \E k \in Keys: ArchivePdf(k) \/ DeleteArchivedPdf(k) \/ GoOn(k)
    \/ SyncStep
    \/ ProcessDies

\* A handler that has begun goes on, and so does the job, which the cron starts every day.
ArchiveFairness ==
    /\ \A k \in Keys: WF_archiveVars(GoOn(k))
    /\ WF_archiveVars(SyncStep)

-----------------------------------------------------------------------------
(* Properties                                                              *)

\* A PDF whose archiving was reported is on R2 or on the disk until it is deleted, but
\* for one case: the job, which had read an older version, puts it over the newer one
\* (syncPendingR2Uploads, object-storage.ts:228-237).  If it is on the disk only it is
\* queued, or was given up with a dead letter, unless its entry was written over by
\* someone who had read the queue before (object-storage.ts:97-112, 224-257).
\* It is what the routes serve (readArchivedPdf, 205-209), or nothing while R2 does not
\* answer: another version of the key can only be one that R2 did not delete, that a
\* process left when it died, or that the job uploaded after its deletion.
KeptAndQueued ==
    \A k \in Keys: kept[k] # 0 /\ k \notin late =>
        /\ kept[k] \in {r2[k], local[k]}
        /\ r2[k] # kept[k] => queue[k] # Absent \/ <<k, kept[k]>> \in dead \/ k \in lost
        /\ k \notin stray => Served(k, TRUE) = {kept[k]} /\ Served(k, FALSE) \subseteq {kept[k]}

\* However long R2 refuses, the queue is empty in the end: each entry is uploaded or
\* given up.
QueueDrains == <>[](queue = Empty)
=============================================================================
