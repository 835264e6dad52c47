--------------------------- MODULE CronJobs_proofs ---------------------------
(***************************************************************************)
(* For any number of keys, PDFs, quotes, runs and deaths of the process:   *)
(* an archived PDF is kept (KeptAndQueued) and nobody is reminded twice    *)
(* (RemindedOnce).  KeyInv follows one key of the archive through its      *)
(* request and the job, which meet in files that each writes back as it    *)
(* had read them; RemindersInv says that a quote has one run that holds    *)
(* it, and that a quote that is due again had no mail.                     *)
(***************************************************************************)
EXTENDS CronJobs, TLAPS

-----------------------------------------------------------------------------
(* The archive: what is invariant                                          *)

Entry == [fails : Nat, at : Nat]
Queues == [Keys -> Entry]
Steps == {"idle", "put", "readAdd", "add", "readRemove", "remove", "unlink", "readDrop", "drop"}
CallRecord == [pc : Steps, seen : Queues]

FilesTyped ==
    /\ r2 \in [Keys -> Nat] /\ local \in [Keys -> Nat] /\ kept \in [Keys -> Nat]
    /\ made \in [Keys -> Nat] /\ lastPdf \in Nat

SyncTyped ==
    /\ sync.seen \in Queues /\ sync.todo \in Queues /\ sync.remaining \in Queues
    /\ sync.pc \in {"idle", "items", "write"}
    /\ sync.pc = "write" => sync.todo = Empty

ArchiveTypeOK ==
    FilesTyped /\ SyncTyped /\ queue \in Queues /\ call \in [Keys -> CallRecord]

Archiving(k) == call[k].pc \in {"put", "readAdd", "add", "readRemove", "remove"}
Deleting(k) == call[k].pc \in {"unlink", "readDrop", "drop"}

\* Nothing is of a PDF that is not made, and no entry is of one that is being archived.
MadeBefore(at, k) == at <= made[k] /\ (Archiving(k) => at < made[k])
Numbers(k) ==
    /\ made[k] <= lastPdf /\ (Archiving(k) => made[k] > 0)
    /\ r2[k] <= made[k] /\ local[k] <= made[k]
    /\ MadeBefore(queue[k].at, k) /\ \A j \in Keys: MadeBefore(call[j].seen[k].at, k)
    /\ MadeBefore(sync.seen[k].at, k)
    /\ Archiving(k) \/ Deleting(k) \/ Calls(k, "idle")

\* On R2 in its last version, or under an older one that the job put over it.
Up(k) == r2[k] = made[k] \/ k \in late

Keeps(k) ==
    /\ Calls(k, "readRemove") \/ Calls(k, "remove") => Up(k)
    /\ Calls(k, "readAdd") \/ Calls(k, "add") => local[k] = made[k]
    /\ kept[k] # 0 =>
        /\ Calls(k, "idle") /\ kept[k] = made[k]
        /\ Up(k) \/ (local[k] = made[k]
                     /\ (queue[k].at = made[k] \/ <<k, made[k]>> \in dead \/ k \in lost))

\* An item of the last version that the job is done with has gone up, is given up or
\* will be written back.
Works(k) ==
    /\ sync.todo[k] \in {sync.seen[k], Absent}
    /\ sync.remaining[k].at \in {sync.seen[k].at, 0}
    /\ \A v \in Nat: <<k, v>> \in sync.putting =>
           sync.pc = "items" /\ sync.todo[k] = sync.seen[k] /\ v \in 1 .. made[k]
    /\ kept[k] # 0 /\ sync.pc # "idle" /\ sync.seen[k].at = made[k] /\ ~Up(k) =>
           /\ \/ made[k] \in {sync.todo[k].at, sync.remaining[k].at}
              \/ <<k, made[k]>> \in dead
           /\ \A v \in Nat: <<k, v>> \in sync.putting => v = made[k]

Clean(k) ==
    k \notin stray =>
        /\ r2[k] \in {0, made[k]} /\ local[k] \in {0, made[k]}
        /\ kept[k] = 0 /\ ~Archiving(k) => r2[k] = 0
        /\ kept[k] = 0 /\ (Calls(k, "idle") \/ Calls(k, "readDrop") \/ Calls(k, "drop"))
             => local[k] = 0
        /\ Calls(k, "put") => local[k] = 0

KeyInv(k) == Numbers(k) /\ Keeps(k) /\ Works(k) /\ Clean(k)
ArchiveInv == ArchiveTypeOK /\ \A k \in Keys: KeyInv(k)

-----------------------------------------------------------------------------
\* The numbers and entries of one key have their types.
LEMMA Typed ==
    ASSUME ArchiveTypeOK, NEW i \in Keys
    PROVE  /\ {r2[i], local[i], made[i], kept[i]} \subseteq Nat
           /\ \A q \in Queues: q[i] \in Entry /\ q[i].at \in Nat /\ q[i].fails \in Nat
           /\ queue[i].at \in Nat /\ sync.seen[i].at \in Nat
           /\ sync.todo[i].at \in Nat /\ sync.remaining[i].at \in Nat
           /\ \A j \in Keys: call[j].seen \in Queues /\ call[j].seen[i].at \in Nat
<1>1. \A q \in Queues: q[i] \in Entry /\ q[i].at \in Nat /\ q[i].fails \in Nat
  BY DEF Queues, Entry
<1>2. \A j \in Keys: call[j].seen \in Queues
  BY DEF ArchiveTypeOK, CallRecord
<1> QED BY <1>1, <1>2 DEF ArchiveTypeOK, FilesTyped, SyncTyped

\* The entry, the queue and the call that stand for nothing.
LEMMA Nothing ==
    /\ Absent \in Entry /\ Absent.at = 0 /\ Empty \in Queues
    /\ \A i \in Keys: Empty[i] = Absent
    /\ NoCall \in CallRecord /\ NoCall.pc = "idle" /\ NoCall.seen = Empty
<1>1. Absent \in Entry /\ Absent.at = 0
  BY DEF Absent, Entry
<1>2. Empty \in Queues /\ \A i \in Keys: Empty[i] = Absent
  BY <1>1 DEF Empty, Queues
<1>3. NoCall \in CallRecord /\ NoCall.pc = "idle" /\ NoCall.seen = Empty
  <2>1. "idle" \in Steps
    BY DEF Steps
  <2> QED BY <1>2, <2>1 DEF NoCall, CallRecord
<1> QED BY <1>1, <1>2, <1>3

\* A key whose files stay is as it was, if an entry that others wrote over is lost.
LEMMA Untouched ==
    ASSUME ArchiveInv, ArchiveTypeOK', NEW i \in Keys,
           r2'[i] = r2[i], local'[i] = local[i], made'[i] = made[i], kept'[i] = kept[i],
           i \in late' <=> i \in late, i \in stray => i \in stray', UNCHANGED <<sync, dead>>,
           lastPdf <= lastPdf', call'[i].pc = call[i].pc,
           i \in lost => i \in lost',
           \/ queue'[i] = queue[i]
           \/ i \in lost' /\ MadeBefore(queue'[i].at, i)
           \/ queue[i] = Absent /\ MadeBefore(queue'[i].at, i),
           \A j \in Keys: call'[j].seen[i] \in {call[j].seen[i], queue[i], Absent}
    PROVE  KeyInv(i)'
<1> USE DEF Archiving, Deleting, Up, Calls, MadeBefore, KeyInv
<1>1. KeyInv(i) /\ ArchiveTypeOK /\ lastPdf \in Nat /\ lastPdf' \in Nat
  BY DEF ArchiveInv, ArchiveTypeOK, FilesTyped
<1>2. Numbers(i)'
  BY <1>1, Typed, Nothing DEF Numbers
<1>3. Keeps(i)'
  BY <1>1, Typed, Nothing DEF Keeps
<1>4. Works(i)'
  BY <1>1 DEF Works
<1>5. Clean(i)'
  BY <1>1 DEF Clean
<1> QED BY <1>2, <1>3, <1>4, <1>5

\* A request goes on to its next step, and leaves the queue alone.
LEMMA CallGoesOn ==
    ASSUME ArchiveInv, NEW k \in Keys, NEW pc \in Steps, CallTo(k, pc)
    PROVE  /\ call' \in [Keys -> CallRecord]
           /\ Calls(k, pc)' /\ \A j \in Keys \ {k}: call'[j].pc = call[j].pc
           /\ \A j \in Keys: call'[j].seen = call[j].seen
<1>1. \A j \in Keys: call[j].seen \in Queues
  BY Typed DEF ArchiveInv
<1> QED BY <1>1 DEF ArchiveInv, ArchiveTypeOK, CallTo, Calls, CallRecord

\* A request goes on, and what it did to the files of its key keeps that key's invariant.
LEMMA FilesStep ==
    ASSUME ArchiveInv, NEW k \in Keys, NEW pc \in Steps, CallTo(k, pc),
           FilesTyped', UNCHANGED <<queue, dead, sync, lost>>, lastPdf <= lastPdf',
           \A i \in Keys \ {k}:
               /\ r2'[i] = r2[i] /\ local'[i] = local[i] /\ made'[i] = made[i] /\ kept'[i] = kept[i]
               /\ (i \in late' <=> i \in late) /\ (i \in stray => i \in stray'),
           KeyInv(k)'
    PROVE  ArchiveInv'
<1>1. /\ call' \in [Keys -> CallRecord]
      /\ Calls(k, pc)' /\ \A j \in Keys \ {k}: call'[j].pc = call[j].pc
      /\ \A j \in Keys: call'[j].seen = call[j].seen
  BY CallGoesOn
<1>2. ArchiveTypeOK'
  <2>1. SyncTyped'
    BY DEF ArchiveInv, ArchiveTypeOK, SyncTyped
  <2> QED BY <1>1, <2>1 DEF ArchiveInv, ArchiveTypeOK
<1>3. ASSUME NEW i \in Keys \ {k} PROVE KeyInv(i)'
  <2> i \in Keys OBVIOUS
  <2> QED BY <1>1, <1>2, Untouched
<1> QED BY <1>2, <1>3 DEF ArchiveInv

\* archivePdf begins: the new PDF is later than all that anyone read.
LEMMA BeginsArchive ==
    ASSUME ArchiveInv, NEW k \in Keys, ArchivePdf(k)
    PROVE  ArchiveInv'
<1> USE DEF disks, pdfs
<1>1. /\ Calls(k, "idle") /\ kept[k] = 0 /\ lastPdf' = lastPdf + 1
      /\ made' = [made EXCEPT ![k] = lastPdf']
      /\ CallTo(k, "put")
      /\ UNCHANGED <<r2, local, queue, dead, sync, kept, lost, late, stray>>
  BY DEF ArchivePdf
<1>2. "put" \in Steps
  BY DEF Steps
<1>3. Calls(k, "put")' /\ \A j \in Keys: call'[j].seen = call[j].seen
  BY <1>1, <1>2, CallGoesOn
<1>4. /\ made'[k] = lastPdf + 1 /\ \A i \in Keys \ {k}: made'[i] = made[i]
      /\ lastPdf \in Nat /\ FilesTyped'
  BY <1>1 DEF ArchiveInv, ArchiveTypeOK, FilesTyped
<1>5. KeyInv(k)'
  <2> USE DEF Archiving, Deleting, Up, Calls, MadeBefore
  <2>1. KeyInv(k) /\ ArchiveTypeOK
    BY DEF ArchiveInv
  <2>2. Numbers(k)'
    BY <1>1, <1>3, <1>4, <2>1, Typed DEF KeyInv, Numbers
  <2>3. Keeps(k)'
    BY <1>1, <1>3 DEF Keeps
  <2>4. Works(k)'
    BY <1>1, <1>4, <2>1, Typed DEF KeyInv, Numbers, Works
  <2>5. Clean(k)'
    BY <1>1, <1>3, <2>1 DEF KeyInv, Clean
  <2> QED BY <2>2, <2>3, <2>4, <2>5 DEF KeyInv
<1> QED BY <1>1, <1>2, <1>4, <1>5, FilesStep

\* The PDF is on R2.
LEMMA PutArrives ==
    ASSUME ArchiveInv, NEW k \in Keys, PutSucceeds(k)
    PROVE  ArchiveInv'
<1> USE DEF disks, pdfs
<1>1. /\ Calls(k, "put") /\ r2' = [r2 EXCEPT ![k] = made[k]] /\ late' = late \ {k}
      /\ stray' = IF local[k] = 0 THEN stray \ {k} ELSE stray
      /\ CallTo(k, "readRemove")
      /\ UNCHANGED <<local, queue, dead, sync, lastPdf, made, kept, lost>>
  BY DEF PutSucceeds
<1>2. "readRemove" \in Steps
  BY DEF Steps
<1>3. Calls(k, "readRemove")' /\ \A j \in Keys: call'[j].seen = call[j].seen
  BY <1>1, <1>2, CallGoesOn
<1>4. FilesTyped'
  BY <1>1 DEF ArchiveInv, ArchiveTypeOK, FilesTyped
<1>5. KeyInv(k)'
  <2> USE DEF Archiving, Deleting, Up, Calls, MadeBefore
  <2>1. KeyInv(k) /\ ArchiveTypeOK /\ r2'[k] = made[k]
    BY <1>1 DEF ArchiveInv, ArchiveTypeOK, FilesTyped
  <2>2. Numbers(k)'
    BY <1>1, <1>3, <2>1, Typed DEF KeyInv, Numbers
  <2>3. Keeps(k)'
    BY <1>1, <1>3, <2>1, Typed DEF KeyInv, Numbers, Keeps
  <2>4. Works(k)'
    BY <1>1, <1>3, <2>1, Typed DEF KeyInv, Numbers, Keeps, Works
  <2>5. Clean(k)'
    BY <1>1, <1>3, <2>1, Typed DEF KeyInv, Keeps, Clean
  <2> QED BY <2>2, <2>3, <2>4, <2>5 DEF KeyInv
<1> QED BY <1>1, <1>2, <1>4, <1>5, FilesStep DEF ArchiveInv, ArchiveTypeOK, FilesTyped

\* It is on the disk, and may have arrived on R2.
LEMMA PutRefused ==
    ASSUME ArchiveInv, NEW k \in Keys, PutFails(k)
    PROVE  ArchiveInv'
<1> USE DEF disks, pdfs
<1>1. /\ Calls(k, "put") /\ local' = [local EXCEPT ![k] = made[k]]
      /\ \/ r2' = [r2 EXCEPT ![k] = made[k]] /\ late' = late \ {k} /\ stray' = stray \ {k}
         \/ UNCHANGED <<r2, late, stray>>
      /\ CallTo(k, "readAdd")
      /\ UNCHANGED <<queue, dead, sync, lastPdf, made, kept, lost>>
  BY DEF PutFails, WriteLocalPdf
<1>2. "readAdd" \in Steps
  BY DEF Steps
<1>3. Calls(k, "readAdd")' /\ \A j \in Keys: call'[j].seen = call[j].seen
  BY <1>1, <1>2, CallGoesOn
<1>4. FilesTyped'
  BY <1>1 DEF ArchiveInv, ArchiveTypeOK, FilesTyped
<1>5. KeyInv(k)'
  <2> USE DEF Archiving, Deleting, Up, Calls, MadeBefore
  <2>1. KeyInv(k) /\ ArchiveTypeOK /\ local'[k] = made[k] /\ r2'[k] \in {r2[k], made[k]}
    BY <1>1 DEF ArchiveInv, ArchiveTypeOK, FilesTyped
  <2>2. Numbers(k)'
    BY <1>1, <1>3, <2>1, Typed DEF KeyInv, Numbers
  <2>3. Keeps(k)'
    BY <1>1, <1>3, <2>1, Typed DEF KeyInv, Numbers, Keeps
  <2>4. Works(k)'
    BY <1>1, <1>3, <2>1, Typed DEF KeyInv, Numbers, Keeps, Works
  <2>5. Clean(k)'
    <3>1. UNCHANGED <<r2, late, stray>> \/ r2'[k] = made[k]
      BY <1>1, <2>1 DEF ArchiveTypeOK, FilesTyped
    <3>2. kept[k] = 0 /\ Archiving(k)
      BY <1>1, <2>1 DEF KeyInv, Keeps
    <3> QED BY <1>1, <1>3, <2>1, <3>1, <3>2 DEF KeyInv, Clean
  <2> QED BY <2>2, <2>3, <2>4, <2>5 DEF KeyInv
<1> QED BY <1>1, <1>2, <1>4, <1>5, FilesStep DEF ArchiveInv, ArchiveTypeOK, FilesTyped

\* deleteArchivedPdf begins; what R2 does not delete is a stray.
LEMMA BeginsDeletion ==
    ASSUME ArchiveInv, NEW k \in Keys, DeleteArchivedPdf(k)
    PROVE  ArchiveInv'
<1> USE DEF disks, pdfs
<1>1. /\ Calls(k, "idle") /\ kept[k] # 0 /\ kept' = [kept EXCEPT ![k] = 0]
      /\ \/ r2' = [r2 EXCEPT ![k] = 0] /\ UNCHANGED stray
         \/ stray' = stray \union {k} /\ UNCHANGED r2
      /\ CallTo(k, "unlink")
      /\ UNCHANGED <<local, queue, dead, sync, lastPdf, made, lost, late>>
  BY DEF DeleteArchivedPdf
<1>2. "unlink" \in Steps
  BY DEF Steps
<1>3. Calls(k, "unlink")' /\ \A j \in Keys: call'[j].seen = call[j].seen
  BY <1>1, <1>2, CallGoesOn
<1>4. FilesTyped'
  BY <1>1 DEF ArchiveInv, ArchiveTypeOK, FilesTyped
<1>5. KeyInv(k)'
  <2> USE DEF Archiving, Deleting, Up, Calls, MadeBefore
  <2>1. /\ KeyInv(k) /\ ArchiveTypeOK /\ kept'[k] = 0
        /\ r2'[k] \in {r2[k], 0} /\ (k \notin stray' => r2'[k] = 0)
    BY <1>1 DEF ArchiveInv, ArchiveTypeOK, FilesTyped
  <2>2. Numbers(k)'
    BY <1>1, <1>3, <2>1, Typed DEF KeyInv, Numbers
  <2>3. Keeps(k)'
    BY <1>1, <1>3, <2>1, Typed DEF KeyInv, Numbers, Keeps
  <2>4. Works(k)'
    BY <1>1, <1>3, <2>1, Typed DEF KeyInv, Numbers, Keeps, Works
  <2>5. Clean(k)'
    BY <1>1, <1>3, <2>1, Typed DEF KeyInv, Keeps, Clean
  <2> QED BY <2>2, <2>3, <2>4, <2>5 DEF KeyInv
<1> QED BY <1>1, <1>2, <1>4, <1>5, FilesStep DEF ArchiveInv, ArchiveTypeOK, FilesTyped

\* The file of the disk is deleted.
LEMMA Unlinks ==
    ASSUME ArchiveInv, NEW k \in Keys, Unlink(k)
    PROVE  ArchiveInv'
<1> USE DEF disks, pdfs
<1>1. /\ Calls(k, "unlink") /\ local' = [local EXCEPT ![k] = 0]
      /\ CallTo(k, "readDrop")
      /\ UNCHANGED <<r2, queue, dead, sync, lastPdf, made, kept, lost, late, stray>>
  BY DEF Unlink
<1>2. "readDrop" \in Steps
  BY DEF Steps
<1>3. Calls(k, "readDrop")' /\ \A j \in Keys: call'[j].seen = call[j].seen
  BY <1>1, <1>2, CallGoesOn
<1>4. FilesTyped'
  BY <1>1 DEF ArchiveInv, ArchiveTypeOK, FilesTyped
<1>5. KeyInv(k)'
  <2> USE DEF Archiving, Deleting, Up, Calls, MadeBefore
  <2>1. KeyInv(k) /\ ArchiveTypeOK /\ local'[k] = 0
    BY <1>1 DEF ArchiveInv, ArchiveTypeOK, FilesTyped
  <2>2. Numbers(k)'
    BY <1>1, <1>3, <2>1, Typed DEF KeyInv, Numbers
  <2>3. Keeps(k)'
    BY <1>1, <1>3, <2>1, Typed DEF KeyInv, Numbers, Keeps
  <2>4. Works(k)'
    BY <1>1, <1>3, <2>1, Typed DEF KeyInv, Numbers, Keeps, Works
  <2>5. Clean(k)'
    BY <1>1, <1>3, <2>1, Typed DEF KeyInv, Keeps, Clean
  <2> QED BY <2>2, <2>3, <2>4, <2>5 DEF KeyInv
<1> QED BY <1>1, <1>2, <1>4, <1>5, FilesStep DEF ArchiveInv, ArchiveTypeOK, FilesTyped

\* The queue file is read: a request goes on to write it.
LEMMA ReadsQueue ==
    ASSUME ArchiveInv, NEW k \in Keys, ReadPendingQueue(k)
    PROVE  ArchiveInv'
<1> USE DEF disks, pdfs
<1>1. PICK step \in {<<"readAdd", "add">>, <<"readRemove", "remove">>, <<"readDrop", "drop">>},
           seen \in {queue, Empty} :
        Calls(k, step[1]) /\ call' = [call EXCEPT ![k] = [pc |-> step[2], seen |-> seen]]
  BY DEF ReadPendingQueue, ReadQueue
<1>2. UNCHANGED <<r2, local, queue, dead, sync, lastPdf, made, kept, lost, late, stray>>
  BY DEF ReadPendingQueue
<1> DEFINE pc == step[2]
<1>3. seen \in Queues /\ pc \in Steps
      /\ \A i \in Keys: seen[i] = queue[i] \/ seen[i] = Absent
  BY Nothing DEF ArchiveInv, ArchiveTypeOK, Steps
<1>4. /\ call' \in [Keys -> CallRecord]
      /\ call'[k].pc = pc /\ call'[k].seen = seen
      /\ \A j \in Keys \ {k}: call'[j] = call[j]
  BY <1>1, <1>3 DEF ArchiveInv, ArchiveTypeOK, CallRecord
<1>5. ArchiveTypeOK'
  <2>1. FilesTyped' /\ SyncTyped'
    BY <1>2 DEF ArchiveInv, ArchiveTypeOK, FilesTyped, SyncTyped
  <2> QED BY <1>2, <1>4, <2>1 DEF ArchiveInv, ArchiveTypeOK
<1>6. ASSUME NEW i \in Keys \ {k} PROVE KeyInv(i)'
  <2> i \in Keys OBVIOUS
  <2>1. \A j \in Keys: call'[j].seen[i] \in {call[j].seen[i], queue[i], Absent}
    BY <1>3, <1>4
  <2> HIDE DEF pc
  <2> QED BY <1>2, <1>4, <1>5, <2>1, Untouched DEF ArchiveInv, ArchiveTypeOK, FilesTyped
<1>7. KeyInv(k)'
  <2> USE DEF Archiving, Deleting, Up, Calls, MadeBefore
  <2>1. KeyInv(k) /\ ArchiveTypeOK
    BY DEF ArchiveInv
  <2>2. Archiving(k)' <=> Archiving(k)
    BY <1>1, <1>4
  <2>3. Numbers(k)'
    <3>1. \A j \in Keys: call'[j].seen[k].at \in {call[j].seen[k].at, queue[k].at, 0}
      BY <1>3, <1>4, Nothing
    <3> QED BY <1>1, <1>2, <1>4, <2>1, <2>2, <3>1, Typed DEF KeyInv, Numbers
  <2>4. Keeps(k)'
    BY <1>1, <1>2, <1>4, <2>1 DEF KeyInv, Keeps
  <2>5. Works(k)'
    BY <1>2, <2>1 DEF KeyInv, Works
  <2>6. Clean(k)'
    BY <1>1, <1>2, <1>4, <2>1, <2>2 DEF KeyInv, Clean
  <2> QED BY <2>3, <2>4, <2>5, <2>6 DEF KeyInv
<1> QED BY <1>5, <1>6, <1>7 DEF ArchiveInv

\* A request writes the queue it read, with its own entry changed, and ends.
LEMMA WritesQueue ==
    ASSUME ArchiveInv, NEW k \in Keys, NEW own \in Entry, NEW version \in Nat,
           WriteQueue(call[k].seen, [call[k].seen EXCEPT ![k] = own], {k}),
           kept' = [kept EXCEPT ![k] = version],
           call' = [call EXCEPT ![k] = NoCall],
           UNCHANGED <<r2, local, dead, sync, lastPdf, made, late, stray>>
    PROVE  /\ ArchiveTypeOK' /\ \A i \in Keys \ {k}: KeyInv(i)'
           /\ queue'[k] = own /\ kept'[k] = version
           /\ Calls(k, "idle")' /\ ~Archiving(k)'
           /\ \A j \in Keys: call'[j].seen[k] \in {call[j].seen[k], Absent}
<1>1. call[k].seen \in Queues /\ queue \in Queues
  BY Typed DEF ArchiveInv, ArchiveTypeOK
<1>2. /\ queue' \in Queues /\ queue'[k] = own
      /\ \A i \in Keys \ {k}: queue'[i] = call[k].seen[i]
  BY <1>1 DEF WriteQueue, Queues
<1>3. /\ call' \in [Keys -> CallRecord] /\ call'[k] = NoCall
      /\ \A j \in Keys \ {k}: call'[j] = call[j]
  BY Nothing DEF ArchiveInv, ArchiveTypeOK
<1>4. kept' \in [Keys -> Nat] /\ kept'[k] = version /\ \A i \in Keys \ {k}: kept'[i] = kept[i]
  BY DEF ArchiveInv, ArchiveTypeOK, FilesTyped
<1>5. ArchiveTypeOK'
  <2>1. FilesTyped' /\ SyncTyped'
    BY <1>4 DEF ArchiveInv, ArchiveTypeOK, FilesTyped, SyncTyped
  <2> QED BY <1>2, <1>3, <2>1 DEF ArchiveTypeOK
<1>6. ASSUME NEW i \in Keys \ {k} PROVE KeyInv(i)'
  <2> i \in Keys OBVIOUS
  <2>1. \A j \in Keys: call'[j].seen[i] \in {call[j].seen[i], queue[i], Absent}
    BY <1>3, Nothing
  <2>2. call'[i].pc = call[i].pc
    BY <1>3
  <2>3. i \in lost => i \in lost'
    BY DEF WriteQueue
  <2>4. queue'[i] = queue[i] \/ i \in lost' \/ queue[i] = Absent
    BY <1>2 DEF WriteQueue, Forgotten
  <2>5. MadeBefore(queue'[i].at, i)
    BY <1>2, <1>3 DEF ArchiveInv, KeyInv, Numbers, MadeBefore, Archiving
  <2> QED BY <1>4, <1>5, <2>1, <2>2, <2>3, <2>4, <2>5, Untouched
           DEF ArchiveInv, ArchiveTypeOK, FilesTyped
<1>7. Calls(k, "idle")' /\ ~Archiving(k)'
  BY <1>3, Nothing DEF Calls, Archiving
<1>8. \A j \in Keys: call'[j].seen[k] \in {call[j].seen[k], Absent}
  BY <1>3, Nothing
<1> QED BY <1>2, <1>4, <1>5, <1>6, <1>7, <1>8

\* The last step of an archive on the disk: the entry is there when it is reported.
LEMMA Enqueues ==
    ASSUME ArchiveInv, NEW k \in Keys, EnqueuePendingR2Upload(k)
    PROVE  ArchiveInv'
<1> USE DEF disks
<1> DEFINE own == [fails |-> call[k].seen[k].fails, at |-> made[k]]
<1>1. KeyInv(k) /\ ArchiveTypeOK /\ lastPdf \in Nat
  BY DEF ArchiveInv, ArchiveTypeOK, FilesTyped
<1>2. call[k].seen[k].fails \in Nat /\ made[k] \in Nat
  <2>1. call[k].seen \in Queues
    BY <1>1, Typed
  <2> QED BY <1>1, <2>1, Typed
<1>3. own \in Entry /\ own.at = made[k]
  BY <1>2 DEF Entry
<1>4. /\ Calls(k, "add")
      /\ WriteQueue(call[k].seen, [call[k].seen EXCEPT ![k] = own], {k})
      /\ kept' = [kept EXCEPT ![k] = made[k]]
      /\ call' = [call EXCEPT ![k] = NoCall]
      /\ UNCHANGED <<r2, local, dead, sync, lastPdf, made, late, stray>>
  BY DEF EnqueuePendingR2Upload, pdfs
<1> HIDE DEF own
<1>5. /\ ArchiveTypeOK' /\ \A i \in Keys \ {k}: KeyInv(i)'
      /\ queue'[k] = own /\ kept'[k] = made[k]
      /\ Calls(k, "idle")' /\ ~Archiving(k)'
      /\ \A j \in Keys: call'[j].seen[k] \in {call[j].seen[k], Absent}
  BY <1>2, <1>3, <1>4, WritesQueue
<1>6. KeyInv(k)'
  <2> USE DEF Deleting, Up, Calls, MadeBefore
  <2>1. Archiving(k)
    BY <1>4 DEF Archiving
  <2>2. Numbers(k)'
    BY <1>1, <1>2, <1>3, <1>4, <1>5, Typed, Nothing DEF KeyInv, Numbers
  <2>3. Keeps(k)'
    BY <1>1, <1>3, <1>4, <1>5 DEF KeyInv, Keeps
  <2>4. Works(k)'
    <3>1. sync.seen[k].at # made[k]
      BY <1>1, <2>1, Typed DEF KeyInv, Numbers
    <3> QED BY <1>1, <1>4, <3>1 DEF KeyInv, Works
  <2>5. Clean(k)'
    BY <1>1, <1>4, <1>5, <2>1, <1>2 DEF KeyInv, Numbers, Clean
  <2> QED BY <2>2, <2>3, <2>4, <2>5 DEF KeyInv
<1> QED BY <1>5, <1>6 DEF ArchiveInv

\* The last step of an archive on R2 and of a deletion.
LEMMA RemovesEntry ==
    ASSUME ArchiveInv, NEW k \in Keys, RemovePendingR2Upload(k)
    PROVE  ArchiveInv'
<1> USE DEF disks
<1> DEFINE version == IF Calls(k, "remove") THEN made[k] ELSE 0
<1>1. KeyInv(k) /\ ArchiveTypeOK /\ lastPdf \in Nat
  BY DEF ArchiveInv, ArchiveTypeOK, FilesTyped
<1>2. made[k] \in Nat /\ version \in Nat
  BY <1>1, Typed
<1>3. /\ Calls(k, "remove") \/ Calls(k, "drop")
      /\ WriteQueue(call[k].seen, [call[k].seen EXCEPT ![k] = Absent], {k})
      /\ kept' = [kept EXCEPT ![k] = version]
      /\ call' = [call EXCEPT ![k] = NoCall]
      /\ UNCHANGED <<r2, local, dead, sync, lastPdf, made, late, stray>>
  BY DEF RemovePendingR2Upload, pdfs
<1>4. (version = made[k] /\ Calls(k, "remove")) \/ (version = 0 /\ Calls(k, "drop"))
  BY <1>3
<1> HIDE DEF version
<1>5. /\ ArchiveTypeOK' /\ \A i \in Keys \ {k}: KeyInv(i)'
      /\ queue'[k] = Absent /\ kept'[k] = version
      /\ Calls(k, "idle")' /\ ~Archiving(k)'
      /\ \A j \in Keys: call'[j].seen[k] \in {call[j].seen[k], Absent}
  BY <1>2, <1>3, WritesQueue, Nothing
<1>6. KeyInv(k)'
  <2> USE DEF Deleting, Up, Calls, MadeBefore
  <2>1. Calls(k, "remove") => Archiving(k)
    BY DEF Archiving
  <2>2. Numbers(k)'
    BY <1>1, <1>2, <1>3, <1>5, Typed, Nothing DEF KeyInv, Numbers
  <2>3. Keeps(k)'
    BY <1>1, <1>3, <1>4, <1>5 DEF KeyInv, Keeps
  <2>4. Works(k)'
    <3>1. Calls(k, "remove") => sync.seen[k].at # made[k]
      BY <1>1, <2>1, Typed DEF KeyInv, Numbers
    <3>2. version # 0 => sync.seen[k].at # made[k]
      BY <1>4, <3>1
    <3> QED BY <1>1, <1>3, <1>5, <3>2 DEF KeyInv, Works
  <2>5. Clean(k)'
    <3>1. kept[k] = 0
      BY <1>1, <1>3 DEF KeyInv, Keeps
    <3>2. Calls(k, "drop") => ~Archiving(k)
      BY DEF Archiving
    <3> QED BY <1>1, <1>2, <1>3, <1>4, <1>5, <2>1, <3>1, <3>2 DEF KeyInv, Numbers, Clean
  <2> QED BY <2>2, <2>3, <2>4, <2>5 DEF KeyInv
<1> QED BY <1>5, <1>6 DEF ArchiveInv

-----------------------------------------------------------------------------
(* The job                                                                 *)

\* What the job knows, written out.
LEMMA SyncRecord ==
    ASSUME ArchiveInv
    PROVE  /\ sync.seen \in Queues /\ sync.todo \in Queues /\ sync.remaining \in Queues
           /\ sync.pc \in {"idle", "items", "write"} /\ (sync.pc = "write" => sync.todo = Empty)
BY DEF ArchiveInv, ArchiveTypeOK, SyncTyped

\* A step of the job for one key leaves what the invariant says of another.
LEMMA OthersInSync ==
    ASSUME ArchiveInv, NEW i \in Keys,
           r2'[i] = r2[i], i \in late' <=> i \in late, i \in stray => i \in stray',
           UNCHANGED <<local, made, kept, call, queue, lost, lastPdf>>, dead \subseteq dead',
           sync'.seen = sync.seen, sync'.pc = sync.pc \/ sync'.putting = {},
           sync'.pc # "idle" => sync.pc # "idle",
           sync'.todo[i] = sync.todo[i], sync'.remaining[i] = sync.remaining[i],
           \A v \in Nat: <<i, v>> \notin sync'.putting
    PROVE  KeyInv(i)'
<1> USE DEF Archiving, Deleting, Up, Calls, MadeBefore
<1>1. KeyInv(i)
  BY DEF ArchiveInv
<1>2. Numbers(i)'
  BY <1>1 DEF KeyInv, Numbers
<1>3. Keeps(i)'
  BY <1>1 DEF KeyInv, Keeps
<1>4. Works(i)'
  BY <1>1 DEF KeyInv, Works
<1>5. Clean(i)'
  BY <1>1 DEF KeyInv, Clean
<1> QED BY <1>2, <1>3, <1>4, <1>5 DEF KeyInv

\* The job reads the queue.
LEMMA Starts ==
    ASSUME ArchiveInv, StartSync
    PROVE  ArchiveInv'
<1> USE DEF disks, pdfs
<1>1. PICK seen \in {queue, Empty} :
        sync' = [pc |-> "items", seen |-> seen, todo |-> seen, remaining |-> Empty, putting |-> {}]
  BY DEF StartSync, ReadQueue
<1>2. UNCHANGED <<r2, local, queue, dead, call, lastPdf, made, kept, lost, late, stray>>
  BY DEF StartSync
<1>3. seen \in Queues /\ \A i \in Keys: seen[i] = queue[i] \/ seen[i] = Absent
  BY Nothing DEF ArchiveInv, ArchiveTypeOK
<1>4. /\ sync'.pc = "items" /\ sync'.seen = seen /\ sync'.todo = seen /\ sync'.remaining = Empty
      /\ sync'.putting = {}
  BY <1>1
<1>5. ArchiveTypeOK'
  <2>1. FilesTyped' /\ SyncTyped'
    BY <1>2, <1>3, <1>4, Nothing DEF ArchiveInv, ArchiveTypeOK, FilesTyped, SyncTyped
  <2> QED BY <1>2, <2>1 DEF ArchiveInv, ArchiveTypeOK
<1>6. ASSUME NEW i \in Keys PROVE KeyInv(i)'
  <2> USE DEF Archiving, Deleting, Up, Calls, MadeBefore
  <2>1. KeyInv(i) /\ ArchiveTypeOK
    BY DEF ArchiveInv
  <2>2. sync'.seen[i].at \in {queue[i].at, 0}
    BY <1>3, <1>4, Nothing
  <2>3. Numbers(i)'
    BY <1>2, <2>1, <2>2, Typed DEF KeyInv, Numbers
  <2>4. Keeps(i)'
    BY <1>2, <2>1 DEF KeyInv, Keeps
  <2>5. Works(i)'
    BY <1>3, <1>4, Nothing DEF Works
  <2>6. Clean(i)'
    BY <1>2, <2>1 DEF KeyInv, Clean
  <2> QED BY <2>3, <2>4, <2>5, <2>6 DEF KeyInv
<1> QED BY <1>5, <1>6 DEF ArchiveInv

\* An item is through: what becomes of it, and of the files of its key, decides.
LEMMA Treats ==
    ASSUME ArchiveInv, NEW k \in Keys, NEW remaining \in Queues, NEW todo \in Queues,
           NEW putting, sync.pc = "items", todo = [sync.todo EXCEPT ![k] = todo[k]],
           sync' = SyncTo("items", todo, remaining, putting),
           remaining = [sync.remaining EXCEPT ![k] = remaining[k]],
           \A i \in Keys \ {k}, v \in Nat: <<i, v>> \notin putting,
           UNCHANGED <<local, queue, call, lastPdf, made, kept, lost>>, dead \subseteq dead',
           r2' \in [Keys -> Nat],
           \A i \in Keys \ {k}:
               r2'[i] = r2[i] /\ (i \in late' <=> i \in late) /\ (i \in stray => i \in stray'),
           KeyInv(k)'
    PROVE  ArchiveInv'
<1>1. /\ sync'.pc = "items" /\ sync'.seen = sync.seen /\ sync'.todo = todo
      /\ sync'.remaining = remaining /\ sync'.putting = putting
  BY DEF SyncTo
<1>2. sync.seen \in Queues /\ sync.todo \in Queues /\ sync.remaining \in Queues
  BY SyncRecord
<1>3. \A i \in Keys \ {k}: todo[i] = sync.todo[i] /\ remaining[i] = sync.remaining[i]
  BY <1>2 DEF Queues
<1>4. ArchiveTypeOK'
  <2>1. FilesTyped' /\ SyncTyped'
    BY <1>1, <1>2 DEF ArchiveInv, ArchiveTypeOK, FilesTyped, SyncTyped
  <2> QED BY <2>1 DEF ArchiveInv, ArchiveTypeOK
<1>5. ASSUME NEW i \in Keys \ {k} PROVE KeyInv(i)'
  <2> i \in Keys OBVIOUS
  <2> QED BY <1>1, <1>3, OthersInSync
<1> QED BY <1>4, <1>5 DEF ArchiveInv

\* The queues with one entry changed.
LEMMA OneEntry ==
    ASSUME NEW q \in Queues, NEW k \in Keys, NEW e \in Entry
    PROVE  /\ [q EXCEPT ![k] = e] \in Queues /\ [q EXCEPT ![k] = e][k] = e
           /\ [q EXCEPT ![k] = q[k]] = q
BY DEF Queues

\* The job takes an item: the PDF is on the disk, or is given up.
LEMMA Takes ==
    ASSUME ArchiveInv, NEW k \in Keys, TakeItem(k)
    PROVE  ArchiveInv'
<1> USE DEF disks, pdfs
<1>1. /\ sync.pc = "items" /\ sync.putting = {} /\ sync.todo[k] # Absent
      /\ UNCHANGED <<r2, local, queue, call, lastPdf, made, kept, lost, late, stray>>
  BY DEF TakeItem
<1>2. KeyInv(k) /\ ArchiveTypeOK /\ sync.todo \in Queues /\ sync.remaining \in Queues
      /\ r2 \in [Keys -> Nat] /\ local[k] \in Nat /\ made[k] \in Nat
  BY SyncRecord, Typed DEF ArchiveInv, ArchiveTypeOK, FilesTyped
<1>3. sync.remaining = [sync.remaining EXCEPT ![k] = sync.remaining[k]]
      /\ sync.todo = [sync.todo EXCEPT ![k] = sync.todo[k]]
  BY <1>2 DEF Queues
<1> USE DEF Archiving, Deleting, Up, Calls, MadeBefore
<1>4. CASE local[k] = 0
  <2> DEFINE todo == [sync.todo EXCEPT ![k] = Absent]
  <2>1. /\ todo \in Queues /\ todo[k] = Absent
        /\ sync' = SyncTo("items", todo, sync.remaining, {})
        /\ dead' = dead \union {<<k, sync.todo[k].at>>}
    BY <1>2, <1>4, OneEntry, Nothing DEF TakeItem, Treated, AppendDeadLetter
  <2>2. todo = [sync.todo EXCEPT ![k] = todo[k]]
    BY <2>1
  <2> HIDE DEF todo
  <2>3. /\ sync'.pc = "items" /\ sync'.seen = sync.seen /\ sync'.todo[k] = Absent
        /\ sync'.remaining = sync.remaining /\ sync'.putting = {}
    BY <2>1 DEF SyncTo
  <2>4. Numbers(k)' /\ Keeps(k)' /\ Clean(k)'
    BY <1>1, <1>2, <2>1, <2>3 DEF KeyInv, Numbers, Keeps, Clean
  <2>5. Works(k)'
    BY <1>1, <1>2, <2>1, <2>3, Nothing DEF KeyInv, Works
  <2> QED BY <1>1, <1>2, <1>3, <2>1, <2>2, <2>4, <2>5, Treats DEF KeyInv
<1>5. CASE local[k] # 0
  <2>1. /\ sync' = SyncTo("items", sync.todo, sync.remaining, {<<k, local[k]>>})
        /\ dead' = dead
    BY <1>5 DEF TakeItem
  <2>2. /\ sync'.pc = "items" /\ sync'.seen = sync.seen /\ sync'.todo = sync.todo
        /\ sync'.remaining = sync.remaining /\ sync'.putting = {<<k, local[k]>>}
    BY <2>1 DEF SyncTo
  <2>3. Numbers(k)' /\ Keeps(k)' /\ Clean(k)'
    BY <1>1, <1>2, <2>1, <2>2 DEF KeyInv, Numbers, Keeps, Clean
  <2>4. Works(k)'
    <3>1. sync.todo[k] = sync.seen[k] /\ local[k] \in 1 .. made[k]
      BY <1>1, <1>2, <1>5 DEF KeyInv, Numbers, Works
    <3>2. kept[k] # 0 /\ ~Up(k) => local[k] = made[k]
      BY <1>2 DEF KeyInv, Keeps
    <3>3. \A v \in Nat: <<k, v>> \in sync'.putting => v = local[k]
      BY <2>2
    <3> QED BY <1>1, <1>2, <2>1, <2>2, <3>1, <3>2, <3>3 DEF KeyInv, Works
  <2> QED BY <1>1, <1>2, <1>3, <2>1, <2>3, <2>4, Treats DEF KeyInv
<1> QED BY <1>4, <1>5

\* What an upload by the job does to the key it is for.
LEMMA UploadsItem ==
    ASSUME ArchiveInv, NEW k \in Keys, NEW version \in 1 .. made[k],
           <<k, version>> \in sync.putting, Uploaded(k, version)
    PROVE  /\ r2' \in [Keys -> Nat] /\ r2'[k] = version
           /\ \A i \in Keys \ {k}:
                  r2'[i] = r2[i] /\ (i \in late' <=> i \in late) /\ (i \in stray => i \in stray')
           /\ r2[k] = made[k] \/ k \in late \/ version = made[k] => r2'[k] = made[k] \/ k \in late'
           /\ k \notin stray' => k \notin stray /\ version = made[k] /\ ~Deleted(k)
<1>1. KeyInv(k) /\ made[k] \in Nat /\ r2[k] \in Nat /\ version \in Nat /\ r2 \in [Keys -> Nat]
      /\ r2[k] <= made[k]
  BY Typed DEF ArchiveInv, ArchiveTypeOK, FilesTyped, KeyInv, Numbers
<1>2. r2' \in [Keys -> Nat] /\ r2'[k] = version /\ \A i \in Keys \ {k}: r2'[i] = r2[i]
  BY <1>1 DEF Uploaded
<1>3. \A i \in Keys \ {k}: (i \in late' <=> i \in late) /\ (i \in stray => i \in stray')
  BY DEF Uploaded
<1>4. r2[k] = made[k] \/ k \in late \/ version = made[k] => r2'[k] = made[k] \/ k \in late'
  BY <1>1, <1>2 DEF Uploaded
<1>5. k \notin stray' => k \notin stray /\ version = made[k] /\ ~Deleted(k)
  BY DEF Uploaded
<1> QED BY <1>2, <1>3, <1>4, <1>5

\* The item of a key is through: it went up, stays in the queue, or was given up.
LEMMA ItemDone ==
    ASSUME ArchiveInv, NEW k \in Keys, NEW version \in 1 .. made[k],
           <<k, version>> \in sync.putting, Uploaded(k, version) \/ UNCHANGED <<r2, late, stray>>,
           sync'.pc = "items", sync'.seen = sync.seen, sync'.todo[k] = Absent, sync'.putting = {},
           UNCHANGED <<local, queue, call, lastPdf, made, kept, lost>>, dead \subseteq dead',
           sync'.remaining[k].at \in {sync.seen[k].at, 0},
           \/ Uploaded(k, version) /\ sync'.remaining = sync.remaining
           \/ sync'.remaining[k].at = sync.todo[k].at
           \/ <<k, sync.todo[k].at>> \in dead' /\ sync'.remaining = sync.remaining
    PROVE  KeyInv(k)'
<1> USE DEF Archiving, Deleting, Up, Calls, MadeBefore
<1>1. KeyInv(k) /\ made[k] \in Nat /\ r2[k] \in Nat /\ version \in Nat
      /\ kept[k] \in Nat /\ local[k] \in Nat
  BY Typed DEF ArchiveInv
<1>2. /\ Up(k) => Up(k)'
      /\ Uploaded(k, version) /\ version = made[k] => Up(k)'
      /\ k \notin stray' => /\ k \notin stray
                            /\ \/ UNCHANGED r2
                               \/ version = made[k] /\ r2'[k] = version /\ ~Deleted(k)
      /\ r2'[k] \in {r2[k], version}
  BY UploadsItem
<1>3. sync.todo[k] = sync.seen[k] /\ sync.pc = "items"
  BY <1>1 DEF KeyInv, Works
<1>4. Numbers(k)'
  BY <1>1, <1>2 DEF KeyInv, Numbers
<1>5. Keeps(k)'
  BY <1>1, <1>2 DEF KeyInv, Keeps
<1>6. Works(k)'
  <2>1. /\ sync'.todo[k] \in {sync'.seen[k], Absent}
        /\ sync'.remaining[k].at \in {sync'.seen[k].at, 0}
        /\ \A v \in Nat: <<k, v>> \notin sync'.putting
    OBVIOUS
  <2>2. ASSUME kept'[k] # 0, sync'.seen[k].at = made'[k], ~Up(k)'
        PROVE  made'[k] = sync'.remaining[k].at \/ <<k, made'[k]>> \in dead'
    <3>1. ~Up(k) /\ kept[k] # 0 /\ sync.seen[k].at = made[k]
      BY <1>2, <2>2
    <3>2. version = made[k]
      BY <1>1, <1>3, <3>1 DEF KeyInv, Works
    <3>3. ~Uploaded(k, version)
      BY <1>2, <2>2, <3>2
    <3>4. sync.todo[k].at = made[k]
      BY <1>3, <3>1
    <3> QED BY <3>3, <3>4
  <2> QED BY <2>1, <2>2 DEF Works
<1>7. Clean(k)'
  <2> SUFFICES ASSUME k \notin stray'
               PROVE  /\ r2'[k] \in {0, made[k]} /\ local[k] \in {0, made[k]}
                      /\ kept[k] = 0 /\ ~Archiving(k) => r2'[k] = 0
                      /\ kept[k] = 0 /\ (Calls(k, "idle") \/ Calls(k, "readDrop") \/ Calls(k, "drop"))
                           => local[k] = 0
                      /\ Calls(k, "put") => local[k] = 0
    BY DEF Clean
  <2>1. ~Archiving(k) /\ kept[k] = 0 => Deleted(k)
    BY <1>1 DEF KeyInv, Numbers, Deleted
  <2> QED BY <1>1, <1>2, <2>1 DEF KeyInv, Clean
<1> QED BY <1>4, <1>5, <1>6, <1>7 DEF KeyInv

\* The item of a key is taken off the list, and one may be written back.
LEMMA Lists ==
    ASSUME ArchiveInv, NEW k \in Keys
    PROVE  /\ [sync.todo EXCEPT ![k] = Absent] \in Queues
           /\ [sync.todo EXCEPT ![k] = Absent][k] = Absent
           /\ sync.remaining \in Queues
           /\ sync.remaining = [sync.remaining EXCEPT ![k] = sync.remaining[k]]
<1>1. sync.todo \in Queues /\ sync.remaining \in Queues
  BY SyncRecord
<1>2. Absent \in Entry
  BY Nothing
<1>3. [sync.todo EXCEPT ![k] = Absent] \in Queues /\ [sync.todo EXCEPT ![k] = Absent][k] = Absent
  BY <1>1, <1>2, OneEntry
<1>4. sync.remaining = [sync.remaining EXCEPT ![k] = sync.remaining[k]]
  BY <1>1 DEF Queues
<1> QED BY <1>1, <1>3, <1>4

\* What goes up is of an item that the job had listed.
LEMMA Listed ==
    ASSUME ArchiveInv, NEW k \in Keys, NEW version \in 1 .. made[k], <<k, version>> \in sync.putting
    PROVE  /\ version \in Nat /\ sync.pc = "items" /\ sync.todo[k] = sync.seen[k]
           /\ sync.remaining[k].at \in {sync.seen[k].at, 0}
<1>1. version \in Nat
  <2>1. made[k] \in Nat
    BY Typed DEF ArchiveInv
  <2> QED BY <2>1
<1>2. KeyInv(k)
  BY DEF ArchiveInv
<1> QED BY <1>1, <1>2 DEF KeyInv, Works

\* The upload of an item arrives.
LEMMA Succeeds ==
    ASSUME ArchiveInv, NEW k \in Keys, SyncSucceeds(k)
    PROVE  ArchiveInv'
<1> USE DEF pdfs
<1>1. PICK version \in 1 .. made[k] : <<k, version>> \in sync.putting /\ Uploaded(k, version)
  BY DEF SyncSucceeds
<1> DEFINE todo == [sync.todo EXCEPT ![k] = Absent]
<1>2. /\ sync' = SyncTo("items", todo, sync.remaining, {})
      /\ UNCHANGED <<local, queue, dead, call, lastPdf, made, kept, lost>>
  BY DEF SyncSucceeds, Treated
<1>3. /\ todo \in Queues /\ todo[k] = Absent /\ todo = [sync.todo EXCEPT ![k] = todo[k]]
      /\ sync.remaining \in Queues
      /\ sync.remaining = [sync.remaining EXCEPT ![k] = sync.remaining[k]]
  BY Lists
<1> HIDE DEF todo
<1>4. /\ sync'.pc = "items" /\ sync'.seen = sync.seen /\ sync'.todo = todo
      /\ sync'.remaining = sync.remaining /\ sync'.putting = {}
  BY <1>2 DEF SyncTo
<1>5. /\ version \in Nat /\ sync.pc = "items"
      /\ sync.remaining[k].at \in {sync.seen[k].at, 0}
  BY <1>1, Listed
<1>6. KeyInv(k)'
  BY <1>1, <1>2, <1>3, <1>4, <1>5, ItemDone
<1> QED BY <1>1, <1>2, <1>3, <1>5, <1>6, UploadsItem, Treats

\* The upload of an item fails, the item stays or is given up.
LEMMA Fails ==
    ASSUME ArchiveInv, NEW k \in Keys, SyncFails(k)
    PROVE  ArchiveInv'
<1> USE DEF pdfs
<1>1. PICK version \in 1 .. made[k] :
        <<k, version>> \in sync.putting /\ (Uploaded(k, version) \/ UNCHANGED <<r2, late, stray>>)
  BY DEF SyncFails
<1> DEFINE todo == [sync.todo EXCEPT ![k] = Absent]
           item == Counted(sync.todo[k])
           more == [sync.remaining EXCEPT ![k] = item]
<1>2. UNCHANGED <<local, queue, call, lastPdf, made, kept, lost>>
  BY DEF SyncFails
<1>3. /\ todo \in Queues /\ todo[k] = Absent /\ todo = [sync.todo EXCEPT ![k] = todo[k]]
      /\ sync.remaining \in Queues
      /\ sync.remaining = [sync.remaining EXCEPT ![k] = sync.remaining[k]]
  BY Lists
<1>4. item \in Entry /\ item.at = sync.todo[k].at
  BY SyncRecord, Typed DEF Counted, Entry, ArchiveInv
<1>5. more \in Queues /\ more[k] = item /\ more = [sync.remaining EXCEPT ![k] = more[k]]
  BY <1>3, <1>4, OneEntry
<1>6. /\ version \in Nat /\ sync.pc = "items" /\ sync.todo[k] = sync.seen[k]
      /\ sync.remaining[k].at \in {sync.seen[k].at, 0}
  BY <1>1, Listed
<1>7. \/ sync' = SyncTo("items", todo, sync.remaining, {})
           /\ dead' = dead \union {<<k, sync.todo[k].at>>}
      \/ sync' = SyncTo("items", todo, more, {}) /\ dead' = dead
  BY DEF SyncFails, Remains, Treated, AppendDeadLetter
<1>8. /\ r2' \in [Keys -> Nat]
      /\ \A i \in Keys \ {k}:
             r2'[i] = r2[i] /\ (i \in late' <=> i \in late) /\ (i \in stray => i \in stray')
  BY <1>1, UploadsItem DEF ArchiveInv, ArchiveTypeOK, FilesTyped
<1> HIDE DEF todo, item, more
<1>9. CASE sync' = SyncTo("items", todo, sync.remaining, {})
           /\ dead' = dead \union {<<k, sync.todo[k].at>>}
  <2>1. /\ sync'.pc = "items" /\ sync'.seen = sync.seen /\ sync'.todo = todo
        /\ sync'.remaining = sync.remaining /\ sync'.putting = {}
    BY <1>9 DEF SyncTo
  <2>2. KeyInv(k)'
    BY <1>1, <1>2, <1>3, <1>6, <1>9, <2>1, ItemDone
  <2> QED BY <1>2, <1>3, <1>6, <1>8, <1>9, <2>2, Treats
<1>10. CASE sync' = SyncTo("items", todo, more, {}) /\ dead' = dead
  <2>1. /\ sync'.pc = "items" /\ sync'.seen = sync.seen /\ sync'.todo = todo
        /\ sync'.remaining = more /\ sync'.putting = {}
    BY <1>10 DEF SyncTo
  <2>2. KeyInv(k)'
    BY <1>1, <1>2, <1>3, <1>4, <1>5, <1>6, <1>10, <2>1, ItemDone
  <2> QED BY <1>2, <1>3, <1>5, <1>6, <1>8, <1>10, <2>2, Treats
<1> QED BY <1>7, <1>9, <1>10

\* The job has treated all its items.
LEMMA BeginsWrite ==
    ASSUME ArchiveInv, BeginWrite
    PROVE  ArchiveInv'
<1> USE DEF disks, pdfs
<1>1. /\ sync.pc = "items" /\ sync.todo = Empty
      /\ sync' = SyncTo("write", sync.todo, sync.remaining, {})
      /\ UNCHANGED <<r2, local, queue, dead, call, lastPdf, made, kept, lost, late, stray>>
  BY DEF BeginWrite
<1>2. /\ sync'.pc = "write" /\ sync'.seen = sync.seen /\ sync'.todo = sync.todo
      /\ sync'.remaining = sync.remaining /\ sync'.putting = {}
  BY <1>1 DEF SyncTo
<1>3. ArchiveTypeOK'
  <2>1. FilesTyped' /\ SyncTyped'
    BY <1>1, <1>2 DEF ArchiveInv, ArchiveTypeOK, FilesTyped, SyncTyped
  <2> QED BY <1>1, <2>1 DEF ArchiveInv, ArchiveTypeOK
<1>4. ASSUME NEW i \in Keys PROVE KeyInv(i)'
  BY <1>1, <1>2, OthersInSync
<1> QED BY <1>3, <1>4 DEF ArchiveInv

\* The job writes what remains: an entry added since is lost, an entry it had read it has treated.
LEMMA Writes ==
    ASSUME ArchiveInv, WriteRemaining
    PROVE  ArchiveInv'
<1> USE DEF disks, pdfs
<1>1. /\ sync.pc = "write" /\ WriteQueue(sync.seen, sync.remaining, {}) /\ sync' = NoSync
      /\ UNCHANGED <<r2, local, dead, call, lastPdf, made, kept, late, stray>>
  BY DEF WriteRemaining
<1>2. /\ sync'.pc = "idle" /\ sync'.seen = Empty /\ sync'.todo = Empty
      /\ sync'.remaining = Empty /\ sync'.putting = {}
  BY <1>1 DEF NoSync
<1>3. /\ queue' = sync.remaining /\ lost \subseteq lost'
      /\ \A i \in Keys: queue[i] # Absent /\ queue[i] # sync.seen[i] => i \in lost'
  BY <1>1 DEF WriteQueue, Forgotten
<1>4. ArchiveTypeOK'
  <2>1. FilesTyped' /\ SyncTyped'
    BY <1>1, <1>2, Nothing DEF ArchiveInv, ArchiveTypeOK, FilesTyped, SyncTyped
  <2>2. queue' \in Queues
    BY <1>3, SyncRecord
  <2> QED BY <1>1, <2>1, <2>2 DEF ArchiveInv, ArchiveTypeOK
<1>5. ASSUME NEW i \in Keys PROVE KeyInv(i)'
  <2> USE DEF Archiving, Deleting, Up, Calls, MadeBefore
  <2>1. KeyInv(i) /\ ArchiveTypeOK /\ lastPdf \in Nat
    BY DEF ArchiveInv, ArchiveTypeOK, FilesTyped
  <2>2. sync.todo[i].at = 0
    BY <1>1, SyncRecord, Nothing
  <2>3. queue'[i].at \in {sync.seen[i].at, 0}
    BY <1>3, <2>1 DEF KeyInv, Works
  <2>4. Numbers(i)'
    BY <1>1, <1>2, <2>1, <2>3, Typed, Nothing DEF KeyInv, Numbers
  <2>5. Keeps(i)'
    <3>1. ASSUME kept[i] # 0, ~Up(i)
          PROVE  queue'[i].at = made[i] \/ <<i, made[i]>> \in dead \/ i \in lost'
      <4>1. kept[i] = made[i] /\ (queue[i].at = made[i] \/ <<i, made[i]>> \in dead \/ i \in lost)
        BY <2>1, <3>1 DEF KeyInv, Keeps
      <4>2. CASE queue[i].at = made[i]
        <5>1. queue[i] # Absent
          BY <3>1, <4>1, <4>2, Nothing
        <5>2. CASE queue[i] = sync.seen[i]
          BY <1>1, <1>3, <2>1, <2>2, <3>1, <4>1, <4>2, <5>2 DEF KeyInv, Works
        <5> QED BY <1>3, <5>1, <5>2
      <4> QED BY <1>3, <4>1, <4>2
    <3> QED BY <1>1, <2>1, <3>1 DEF KeyInv, Keeps
  <2>6. Works(i)'
    BY <1>2, Nothing DEF Works
  <2>7. Clean(i)'
    BY <1>1, <2>1 DEF KeyInv, Clean
  <2> QED BY <2>4, <2>5, <2>6, <2>7 DEF KeyInv
<1> QED BY <1>4, <1>5 DEF ArchiveInv

\* The process dies: the requests end where they were.
LEMMA Dies ==
    ASSUME ArchiveInv, ProcessDies
    PROVE  ArchiveInv'
<1> USE DEF disks, pdfs
<1>1. /\ queue' \in {queue, Empty} /\ lost' = lost \union {k \in Keys: queue'[k] # queue[k]}
      /\ call' = [k \in Keys |-> NoCall] /\ sync' = NoSync
      /\ stray' = stray \union {k \in Keys: ~Calls(k, "idle")}
      /\ UNCHANGED <<r2, local, dead, lastPdf, made, kept, late>>
  BY DEF ProcessDies, ReadQueue
<1>2. /\ sync'.pc = "idle" /\ sync'.seen = Empty /\ sync'.todo = Empty
      /\ sync'.remaining = Empty /\ sync'.putting = {}
  BY <1>1 DEF NoSync
<1>3. ArchiveTypeOK'
  <2>1. FilesTyped' /\ SyncTyped'
    BY <1>1, <1>2, Nothing DEF ArchiveInv, ArchiveTypeOK, FilesTyped, SyncTyped
  <2>2. queue' \in Queues /\ call' \in [Keys -> CallRecord]
    BY <1>1, Nothing DEF ArchiveInv, ArchiveTypeOK
  <2> QED BY <2>1, <2>2 DEF ArchiveTypeOK
<1>4. ASSUME NEW i \in Keys PROVE KeyInv(i)'
  <2> USE DEF Archiving, Deleting, Up, Calls, MadeBefore
  <2>1. KeyInv(i) /\ ArchiveTypeOK /\ lastPdf \in Nat
    BY DEF ArchiveInv, ArchiveTypeOK, FilesTyped
  <2>2. \A j \in Keys: call'[j].pc = "idle" /\ call'[j].seen[i].at = 0
    BY <1>1, Nothing
  <2>3. queue'[i].at \in {queue[i].at, 0} /\ sync'.seen[i].at = 0
    BY <1>1, <1>2, Nothing
  <2>4. Numbers(i)'
    BY <1>1, <2>1, <2>2, <2>3, Typed DEF KeyInv, Numbers
  <2>5. Keeps(i)'
    BY <1>1, <2>1, <2>2 DEF KeyInv, Keeps
  <2>6. Works(i)'
    BY <1>2, Nothing DEF Works
  <2>7. Clean(i)'
    <3>1. i \notin stray' => i \notin stray /\ Calls(i, "idle") /\ ~Archiving(i)
      BY <1>1
    <3> QED BY <1>1, <2>1, <2>2, <3>1 DEF KeyInv, Clean
  <2> QED BY <2>4, <2>5, <2>6, <2>7 DEF KeyInv
<1> QED BY <1>3, <1>4 DEF ArchiveInv

\* Nothing is archived at first.
LEMMA StartsClean == ArchiveInit => ArchiveInv
<1> SUFFICES ASSUME ArchiveInit PROVE ArchiveInv
  OBVIOUS
<1>1. /\ sync.pc = "idle" /\ sync.seen = Empty /\ sync.todo = Empty
      /\ sync.remaining = Empty /\ sync.putting = {}
  BY DEF ArchiveInit, NoSync
<1>2. ArchiveTypeOK
  <2>1. FilesTyped /\ SyncTyped
    BY <1>1, Nothing DEF ArchiveInit, FilesTyped, SyncTyped
  <2> QED BY <2>1, Nothing DEF ArchiveInit, ArchiveTypeOK
<1>3. ASSUME NEW k \in Keys PROVE KeyInv(k)
  <2> USE DEF Archiving, Deleting, Up, Calls, MadeBefore
  <2>1. \A j \in Keys: call[j].pc = "idle" /\ call[j].seen[k].at = 0
    BY Nothing DEF ArchiveInit
  <2>2. queue[k].at = 0 /\ sync.seen[k].at = 0
    BY <1>1, Nothing DEF ArchiveInit
  <2>3. Numbers(k)
    BY <2>1, <2>2 DEF ArchiveInit, Numbers
  <2>4. Keeps(k) /\ Works(k) /\ Clean(k)
    BY <1>1, <2>1, Nothing DEF ArchiveInit, Keeps, Works, Clean
  <2> QED BY <2>3, <2>4 DEF KeyInv
<1> QED BY <1>2, <1>3 DEF ArchiveInv

\* Each step of the archive keeps the invariant.
LEMMA ArchiveSteps == ArchiveInv /\ [ArchiveNext]_archiveVars => ArchiveInv'
<1> SUFFICES ASSUME ArchiveInv, [ArchiveNext]_archiveVars PROVE ArchiveInv'
  OBVIOUS
<1>1. ASSUME NEW k \in Keys, ArchivePdf(k) \/ DeleteArchivedPdf(k) \/ GoOn(k)
      PROVE  ArchiveInv'
  BY <1>1, BeginsArchive, BeginsDeletion, PutArrives, PutRefused, Unlinks, ReadsQueue,
     Enqueues, RemovesEntry DEF GoOn
<1>2. CASE SyncStep
  BY <1>2, Starts, BeginsWrite, Writes, Takes, Succeeds, Fails DEF SyncStep
<1>3. CASE UNCHANGED archiveVars
  BY <1>3 DEF archiveVars, disks, pdfs, ArchiveInv, ArchiveTypeOK, FilesTyped, SyncTyped, KeyInv,
              Numbers, Keeps, Works, Clean, Up, Calls, Archiving, Deleting, MadeBefore
<1> QED BY <1>1, <1>2, <1>3, Dies DEF ArchiveNext

\* The invariant has KeptAndQueued in it.
LEMMA InvKeeps == ArchiveInv => KeptAndQueued
<1> SUFFICES ASSUME ArchiveInv, NEW k \in Keys, kept[k] # 0, k \notin late
             PROVE  /\ kept[k] \in {r2[k], local[k]}
                    /\ r2[k] # kept[k] => queue[k] # Absent \/ <<k, kept[k]>> \in dead \/ k \in lost
                    /\ k \notin stray => Served(k, TRUE) = {kept[k]} /\ Served(k, FALSE) \subseteq {kept[k]}
  BY DEF KeptAndQueued
<1>1. KeyInv(k)
  BY DEF ArchiveInv
<1>2. kept[k] = made[k]
  BY <1>1 DEF KeyInv, Keeps
<1>3. kept[k] \in {r2[k], local[k]}
  BY <1>1, <1>2 DEF KeyInv, Keeps, Up
<1>4. r2[k] # kept[k] => queue[k] # Absent \/ <<k, kept[k]>> \in dead \/ k \in lost
  BY <1>1, <1>2, Nothing DEF KeyInv, Keeps, Up
<1>5. ASSUME k \notin stray
      PROVE  Served(k, TRUE) = {kept[k]} /\ Served(k, FALSE) \subseteq {kept[k]}
  <2>1. r2[k] \in {0, kept[k]} /\ local[k] \in {0, kept[k]}
    BY <1>1, <1>2, <1>5 DEF KeyInv, Clean
  <2> QED BY <1>3, <2>1 DEF Served, ReadArchivedPdf, ReadFromR2, ReadLocalPdf
<1> QED BY <1>3, <1>4, <1>5

-----------------------------------------------------------------------------
(* The reminders                                                           *)

RunRecord == [pc : {"idle", "claim", "client", "artisan", "mark", "audit"}, todo : SUBSET Devis,
              current : SUBSET Devis, sent : BOOLEAN]
Mails == [client : Nat, artisan : Nat]
Rows == [open : BOOLEAN, reminded : BOOLEAN]

RemindersTypeOK ==
    devis \in [Devis -> Rows] /\ run \in [Runs -> RunRecord] /\ mails \in [Devis -> Mails]

\* The run has claimed the quote and not yet marked it.
Holds(c, d) == d \in run[c].current /\ run[c].pc \in {"client", "artisan", "mark"}

Unmailed(d) == mails[d].client = 0 /\ mails[d].artisan = 0

OneHolder == \A d \in Devis: \A c, e \in Runs: Holds(c, d) /\ Holds(e, d) => c = e

HolderClaimed ==
    \A c \in Runs, d \in Devis: Holds(c, d) =>
        /\ devis[d].reminded
        /\ ~run[c].sent => Unmailed(d)
        /\ run[c].pc = "client" => mails[d].client = 0
        /\ run[c].pc \in {"client", "artisan"} => mails[d].artisan = 0

FreeUnmailed == \A d \in Devis: ~devis[d].reminded => Unmailed(d)

RemindersInv == RemindersTypeOK /\ RemindedOnce /\ OneHolder /\ HolderClaimed /\ FreeUnmailed

\* One run changes.
LEMMA RunBecomes ==
    ASSUME RemindersTypeOK, NEW c \in Runs, NEW new \in RunRecord, run' = [run EXCEPT ![c] = new]
    PROVE  /\ run' \in [Runs -> RunRecord] /\ run'[c] = new
           /\ \A e \in Runs \ {c}: run'[e] = run[e]
BY DEF RemindersTypeOK

\* The record of a run has its type.
LEMMA RunTyped ==
    ASSUME RemindersTypeOK, NEW c \in Runs
    PROVE  run[c].todo \subseteq Devis /\ run[c].current \subseteq Devis /\ run[c].sent \in BOOLEAN
BY DEF RemindersTypeOK, RunRecord

\* So have the row of a quote and its mails.
LEMMA RowTyped ==
    ASSUME RemindersTypeOK, NEW d \in Devis
    PROVE  /\ mails[d].client \in Nat /\ mails[d].artisan \in Nat
           /\ devis[d].open \in BOOLEAN /\ devis[d].reminded \in BOOLEAN
BY DEF RemindersTypeOK, Mails, Rows

\* A run that lets go of its quote, or has none.
LEMMA LetsGo ==
    ASSUME RemindersInv, NEW c \in Runs, NEW new \in RunRecord, new.pc \in {"idle", "claim"},
           run' = [run EXCEPT ![c] = new], UNCHANGED <<devis, mails>>
    PROVE  RemindersInv'
<1>1. /\ run' \in [Runs -> RunRecord] /\ run'[c] = new
      /\ \A e \in Runs \ {c}: run'[e] = run[e]
  BY RunBecomes DEF RemindersInv
<1>2. \A e \in Runs, d \in Devis: Holds(e, d)' => e # c /\ Holds(e, d)
  BY <1>1 DEF Holds
<1>3. RemindersTypeOK' /\ RemindedOnce' /\ FreeUnmailed'
  BY <1>1 DEF RemindersInv, RemindersTypeOK, RemindedOnce, FreeUnmailed, Unmailed
<1>4. OneHolder'
  BY <1>2 DEF RemindersInv, OneHolder
<1>5. HolderClaimed'
  BY <1>1, <1>2 DEF RemindersInv, HolderClaimed, Unmailed
<1> QED BY <1>3, <1>4, <1>5 DEF RemindersInv

\* A run between two quotes.
LEMMA ListingTyped ==
    ASSUME NEW todo \in SUBSET Devis
    PROVE  Listing(todo) \in RunRecord /\ Listing(todo).pc = "claim"
BY DEF Listing, RunRecord

\* The guarded update lets one run through.
LEMMA Claims ==
    ASSUME RemindersInv, NEW c \in Runs, NEW d \in Devis, Claim(c, d)
    PROVE  RemindersInv'
<1>1. RemindersTypeOK /\ run[c].todo \subseteq Devis /\ devis[d].open \in BOOLEAN
  BY RunTyped, RowTyped DEF RemindersInv
<1>2. CASE ~Claimable(d)
  <2>1. run' = [run EXCEPT ![c] = Listing(run[c].todo \ {d})] /\ UNCHANGED <<devis, mails>>
    BY <1>2 DEF Claim
  <2>2. Listing(run[c].todo \ {d}) \in RunRecord /\ Listing(run[c].todo \ {d}).pc = "claim"
    BY <1>1, ListingTyped
  <2> QED BY <2>1, <2>2, LetsGo
<1>3. CASE Claimable(d)
  <2> DEFINE new == [pc |-> "client", todo |-> run[c].todo \ {d}, current |-> {d}, sent |-> FALSE]
  <2>1. /\ devis' = [devis EXCEPT ![d] = [open |-> devis[d].open, reminded |-> TRUE]]
        /\ run' = [run EXCEPT ![c] = new] /\ UNCHANGED mails
    BY <1>3 DEF Claim, SetReminded
  <2>2. new \in RunRecord /\ new.pc = "client" /\ new.current = {d} /\ ~new.sent
    BY <1>1 DEF RunRecord
  <2> HIDE DEF new
  <2>3. /\ run' \in [Runs -> RunRecord] /\ run'[c] = new
        /\ \A e \in Runs \ {c}: run'[e] = run[e]
    BY <1>1, <2>1, <2>2, RunBecomes
  <2>4. /\ devis' \in [Devis -> Rows] /\ devis'[d].reminded
        /\ \A i \in Devis \ {d}: devis'[i] = devis[i]
    BY <1>1, <2>1 DEF RemindersTypeOK, Rows
  <2>5. Unmailed(d) /\ \A e \in Runs: ~Holds(e, d)
    BY <1>3 DEF Claimable, RemindersInv, FreeUnmailed, HolderClaimed
  <2>6. \A e \in Runs, i \in Devis: Holds(e, i)' =>
            \/ e = c /\ i = d
            \/ e # c /\ i # d /\ Holds(e, i)
    BY <2>2, <2>3, <2>5 DEF Holds
  <2>7. RemindersTypeOK' /\ RemindedOnce' /\ FreeUnmailed'
    BY <2>1, <2>3, <2>4 DEF RemindersInv, RemindersTypeOK, RemindedOnce, FreeUnmailed, Unmailed
  <2>8. OneHolder'
    BY <2>6 DEF RemindersInv, OneHolder
  <2>9. HolderClaimed'
    BY <2>1, <2>2, <2>3, <2>4, <2>5, <2>6 DEF RemindersInv, HolderClaimed, Unmailed
  <2> QED BY <2>7, <2>8, <2>9 DEF RemindersInv
<1> QED BY <1>2, <1>3

\* One of the two mails, sent or refused.
LEMMA MailStep ==
    ASSUME RemindersInv, NEW c \in Runs, NEW d \in Devis,
           NEW sent \in Mails, NEW next \in {"artisan", "mark"},
           d \in run[c].current, Mail(c, d, sent, next),
           \/ run[c].pc = "client" /\ next = "artisan" /\ sent.client = mails[d].client + 1
              /\ sent.artisan = mails[d].artisan
           \/ run[c].pc = "artisan" /\ next = "mark" /\ sent.artisan = mails[d].artisan + 1
              /\ sent.client = mails[d].client
    PROVE  RemindersInv'
<1>1. RemindersTypeOK /\ run[c] \in RunRecord /\ mails[d] \in Mails
  BY DEF RemindersInv, RemindersTypeOK
<1>2. PICK went \in BOOLEAN :
        /\ run' = [run EXCEPT ![c] = [pc |-> next, todo |-> run[c].todo, current |-> run[c].current,
                                      sent |-> went]]
        /\ \/ mails' = [mails EXCEPT ![d] = sent] /\ went
           \/ UNCHANGED mails /\ went = run[c].sent
  BY <1>1 DEF Mail, RunTo, RunRecord
<1> DEFINE new == [pc |-> next, todo |-> run[c].todo, current |-> run[c].current, sent |-> went]
<1>3. new \in RunRecord /\ new.pc = next /\ new.current = run[c].current /\ new.sent = went
  BY <1>1 DEF RunRecord
<1>4. run' = [run EXCEPT ![c] = new] /\ UNCHANGED devis
  BY <1>2 DEF Mail
<1> HIDE DEF new
<1>5. /\ run' \in [Runs -> RunRecord] /\ run'[c] = new
      /\ \A e \in Runs \ {c}: run'[e] = run[e]
  BY <1>1, <1>3, <1>4, RunBecomes
<1>6. /\ mails' \in [Devis -> Mails] /\ \A i \in Devis \ {d}: mails'[i] = mails[i]
      /\ \/ mails'[d] = sent /\ went
         \/ mails'[d] = mails[d] /\ went = run[c].sent
  BY <1>1, <1>2 DEF RemindersTypeOK
<1>7. Holds(c, d) /\ \A e \in Runs, i \in Devis: Holds(e, i)' => Holds(e, i)
  BY <1>3, <1>5 DEF Holds
<1>8. \A e \in Runs: Holds(e, d) => e = c
  BY <1>7 DEF RemindersInv, OneHolder
<1>9. RemindersTypeOK'
  BY <1>1, <1>4, <1>5, <1>6 DEF RemindersTypeOK
<1>10. RemindedOnce' /\ FreeUnmailed'
  BY <1>1, <1>4, <1>6, <1>7 DEF RemindersInv, RemindedOnce, FreeUnmailed, HolderClaimed, Unmailed
<1>11. OneHolder'
  BY <1>7 DEF RemindersInv, OneHolder
<1>12. HolderClaimed'
  <2> SUFFICES ASSUME NEW e \in Runs, NEW i \in Devis, Holds(e, i)'
               PROVE  /\ devis'[i].reminded
                      /\ ~run'[e].sent => mails'[i].client = 0 /\ mails'[i].artisan = 0
                      /\ run'[e].pc = "client" => mails'[i].client = 0
                      /\ run'[e].pc \in {"client", "artisan"} => mails'[i].artisan = 0
    BY DEF HolderClaimed, Unmailed
  <2>1. Holds(e, i)
    BY <1>7
  <2>2. CASE e = c
    BY <1>3, <1>4, <1>5, <1>6, <2>1, <2>2 DEF RemindersInv, HolderClaimed, Unmailed
  <2>3. CASE e # c
    BY <1>4, <1>5, <1>6, <1>8, <2>1, <2>3 DEF RemindersInv, HolderClaimed, Unmailed
  <2> QED BY <2>2, <2>3
<1> QED BY <1>9, <1>10, <1>11, <1>12 DEF RemindersInv

\* The claim is kept if a mail went out, and given back if none did.
LEMMA Marks ==
    ASSUME RemindersInv, NEW c \in Runs, NEW d \in Devis, Mark(c, d)
    PROVE  RemindersInv'
<1> DEFINE new == [pc |-> "audit", todo |-> run[c].todo, current |-> run[c].current,
                   sent |-> run[c].sent]
<1>1. RemindersTypeOK /\ run[c] \in RunRecord /\ devis[d].open \in BOOLEAN
  BY RowTyped DEF RemindersInv, RemindersTypeOK
<1>2. /\ run[c].pc = "mark" /\ d \in run[c].current /\ run' = [run EXCEPT ![c] = new]
      /\ devis' = [devis EXCEPT ![d] = [open |-> devis[d].open, reminded |-> run[c].sent]]
      /\ UNCHANGED mails
  BY DEF Mark, Remind, RunTo, SetReminded
<1>3. new \in RunRecord /\ new.pc = "audit"
  BY <1>1 DEF RunRecord
<1> HIDE DEF new
<1>4. /\ run' \in [Runs -> RunRecord] /\ run'[c] = new
      /\ \A e \in Runs \ {c}: run'[e] = run[e]
  BY <1>1, <1>2, <1>3, RunBecomes
<1>5. run[c].sent \in BOOLEAN
  BY <1>1 DEF RunRecord
<1>6. /\ devis' \in [Devis -> Rows] /\ devis'[d].reminded = run[c].sent
      /\ \A i \in Devis \ {d}: devis'[i] = devis[i]
  BY <1>1, <1>2, <1>5 DEF RemindersTypeOK, Rows
<1>7. Holds(c, d)
  BY <1>2 DEF Holds
<1>8. \A e \in Runs, i \in Devis: Holds(e, i)' => e # c /\ i # d /\ Holds(e, i)
  BY <1>3, <1>4, <1>7 DEF Holds, RemindersInv, OneHolder
<1>9. RemindersTypeOK' /\ RemindedOnce' /\ OneHolder'
  BY <1>1, <1>2, <1>4, <1>6, <1>8 DEF RemindersInv, RemindersTypeOK, RemindedOnce, OneHolder
<1>10. FreeUnmailed'
  BY <1>2, <1>6, <1>7 DEF RemindersInv, FreeUnmailed, HolderClaimed, Unmailed
<1>11. HolderClaimed'
  BY <1>2, <1>4, <1>6, <1>8 DEF RemindersInv, HolderClaimed, Unmailed
<1> QED BY <1>9, <1>10, <1>11 DEF RemindersInv

\* The client answers.
LEMMA Closes ==
    ASSUME RemindersInv, NEW d \in Devis, Close(d)
    PROVE  RemindersInv'
<1>1. RemindersTypeOK /\ devis[d].reminded \in BOOLEAN
  BY RowTyped DEF RemindersInv
<1>2. devis' = [devis EXCEPT ![d] = [open |-> FALSE, reminded |-> devis[d].reminded]]
      /\ UNCHANGED <<run, mails>>
  BY DEF Close
<1>3. devis' \in [Devis -> Rows] /\ \A i \in Devis: devis'[i].reminded = devis[i].reminded
  BY <1>1, <1>2 DEF RemindersTypeOK, Rows
<1> QED BY <1>1, <1>2, <1>3 DEF RemindersInv, RemindersTypeOK, RemindedOnce, OneHolder, HolderClaimed,
                                FreeUnmailed, Holds, Unmailed

\* No reminder went out at first.
LEMMA RemindersStart == RemindersInit => RemindersInv
BY DEF RemindersInit, NoRun, RunRecord, Rows, Mails, RemindersInv, RemindersTypeOK, RemindedOnce,
       OneHolder, HolderClaimed, FreeUnmailed, Holds, Unmailed

\* Each step of a run keeps the invariant.
LEMMA RemindersSteps == RemindersInv /\ [RemindersNext]_remindersVars => RemindersInv'
<1> SUFFICES ASSUME RemindersInv, [RemindersNext]_remindersVars PROVE RemindersInv'
  OBVIOUS
<1>1. ASSUME NEW c \in Runs, StartRun(c) PROVE RemindersInv'
  BY <1>1, ListingTyped, LetsGo DEF StartRun
<1>2. ASSUME NEW c \in Runs, EndRun(c) PROVE RemindersInv'
  <2>1. NoRun \in RunRecord /\ NoRun.pc = "idle"
    BY DEF NoRun, RunRecord
  <2> QED BY <1>2, <2>1, LetsGo DEF EndRun
<1>3. ASSUME NEW c \in Runs, NEW d \in Devis, MailClient(c, d) PROVE RemindersInv'
  <2> DEFINE sent == [client |-> mails[d].client + 1, artisan |-> mails[d].artisan]
  <2>1. sent \in Mails /\ sent.client = mails[d].client + 1 /\ sent.artisan = mails[d].artisan
    BY RowTyped DEF RemindersInv, Mails
  <2>2. d \in run[c].current /\ run[c].pc = "client" /\ Mail(c, d, sent, "artisan")
    BY <1>3 DEF MailClient, Remind
  <2> HIDE DEF sent
  <2> QED BY <2>1, <2>2, MailStep
<1>4. ASSUME NEW c \in Runs, NEW d \in Devis, MailArtisan(c, d) PROVE RemindersInv'
  <2> DEFINE sent == [client |-> mails[d].client, artisan |-> mails[d].artisan + 1]
  <2>1. sent \in Mails /\ sent.artisan = mails[d].artisan + 1 /\ sent.client = mails[d].client
    BY RowTyped DEF RemindersInv, Mails
  <2>2. d \in run[c].current /\ run[c].pc = "artisan" /\ Mail(c, d, sent, "mark")
    BY <1>4 DEF MailArtisan, Remind
  <2> HIDE DEF sent
  <2> QED BY <2>1, <2>2, MailStep
<1>5. ASSUME NEW c \in Runs, NEW d \in Devis, LogReminder(c, d) PROVE RemindersInv'
  BY <1>5, RunTyped, ListingTyped, LetsGo DEF LogReminder, RemindersInv
<1>6. CASE UNCHANGED remindersVars
  BY <1>6 DEF remindersVars, RemindersInv, RemindersTypeOK, RemindedOnce, OneHolder, HolderClaimed,
              FreeUnmailed, Holds, Unmailed
<1> QED BY <1>1, <1>2, <1>3, <1>4, <1>5, <1>6, Claims, Marks, Closes DEF RemindersNext

-----------------------------------------------------------------------------
(* The jobs together                                                       *)

\* The invariant of the cron: each job keeps its own, and leaves the other's state.
LEMMA Invariance == Spec => [](ArchiveInv /\ RemindersInv)
<1>1. Init => ArchiveInv /\ RemindersInv
  BY StartsClean, RemindersStart DEF Init
<1>2. ArchiveInv /\ RemindersInv /\ [Next]_vars => (ArchiveInv /\ RemindersInv)'
  <2> SUFFICES ASSUME ArchiveInv, RemindersInv, [Next]_vars
               PROVE  [ArchiveNext]_archiveVars /\ [RemindersNext]_remindersVars
    BY ArchiveSteps, RemindersSteps
  <2> QED BY DEF Next, vars
<1> QED BY <1>1, <1>2, PTL DEF Spec

\* syncPendingR2Uploads and archivePdf (object-storage.ts): a PDF whose archiving was reported
\* is kept, and queued or given up when it is not on R2, but for the causes that KeptAndQueued
\* names; whatever the requests, the job and the deaths of the process do in between.
THEOREM PdfsKept == Spec => []KeptAndQueued
<1> QED BY Invariance, InvKeeps, PTL

\* processReminders (reminders.ts): however many runs overlap, a quote is reminded once.
THEOREM NobodyTwice == Spec => []RemindedOnce
<1>1. RemindersInv => RemindedOnce
  BY DEF RemindersInv
<1> QED BY <1>1, Invariance, PTL
=============================================================================
