-------------------------- MODULE UploadFlow_proofs --------------------------
(***************************************************************************)
(* The invariants of the upload and resume commands, for files of any size *)
(* and any number of them, with any number of retry intervals.             *)
(***************************************************************************)
EXTENDS UploadFlowProps, TLAPS

\* Which task and which function each place in the program belongs to.
Shape ==
  /\ pc \in {"sent", "finish"} => task = "upload"
  /\ pc = "interval" => mode = "resume"
  /\ pc \in {"login", "interval"} => ~repeat
  /\ pc \in {"run", "sent", "login"} /\ mode = "direct" /\ task = "upload"
       => ~repeat /\ pc # "login"
  /\ task = "upload" /\ pc \in {"login", "interval"} => fileID > 0
  /\ mode = "resume" /\ (pc = "login" \/ (pc \in {"run", "sent"} /\ repeat)) => failed

\* Nothing has been uploaded of a file that has no ID yet.
NothingSent ==
  pc = "created" \/ (task = "create" /\ pc \in {"run", "login", "interval"})
    => bytes = 0 /\ offset = 0

\* A task never runs with resumeIntervalDone, and ResumeCreateFile, which starts
\* from resumeIntervalUndefined, makes at least one attempt.
Intervals ==
  /\ pc \in {"run", "sent", "login", "created"} => interval <= LastInterval
  /\ pc = "interval" => interval >= 1
  /\ task = "create" /\ mode = "direct" /\ pc \in {"run", "login"} => interval = 0
  /\ task = "create" /\ mode = "resume" /\ ~failed /\ pc \in {"run", "interval"}
       => interval = 1

\* The attempts so far, by the interval that has been reached.
Tries ==
  /\ AttemptsBounded
  /\ mode = "direct" /\ ~repeat /\ pc \in {"run", "sent", "login"} => tries <= 1
  /\ mode = "resume" =>
       /\ pc = "interval" => tries <= 2 * interval - 1
       /\ pc \in {"run", "sent", "login"} /\ ~repeat => tries <= 2 * interval
       /\ pc \in {"run", "sent"} /\ repeat => tries <= 2 * interval + 1

\* The inductive invariant.
IInv ==
  /\ TypeOK /\ NoBlockSkipped /\ SuccessUnlessSpent
  /\ Shape /\ NothingSent /\ Intervals /\ Tries

\* The initial state satisfies the invariant.
LEMMA InitIInv == Init => IInv
<1> SUFFICES ASSUME Init PROVE IInv
  OBVIOUS
<1> USE UploadAssumption DEF Init
<1>1. OutsideOK  BY DEF OutsideOK, IDs
<1>2. MemoryOK  BY DEF MemoryOK, Done, TriesCap
<1>3. WorkOK  BY DEF WorkOK, IDs
<1>4. FlagsOK  BY DEF FlagsOK
<1>5. NoBlockSkipped /\ SuccessUnlessSpent /\ Shape /\ NothingSent
  BY DEF NoBlockSkipped, SuccessUnlessSpent, Shape, NothingSent
<1>6. Intervals /\ Tries  BY DEF Intervals, Tries, AttemptsBounded
<1> QED
  BY <1>1, <1>2, <1>3, <1>4, <1>5, <1>6 DEF IInv, TypeOK

\* A command begins with the records there are.
LEMMA StartStep == ASSUME NEW r \in BOOLEAN, IInv, Start(r) PROVE IInv'
<1> USE UploadAssumption DEF IInv, TypeOK, Start, outside, command, loop,
      session, file
<1>1. OutsideOK'  BY DEF OutsideOK
<1>2. MemoryOK'  BY DEF OutsideOK, MemoryOK, IDs
<1>3. WorkOK'  BY DEF WorkOK
<1>4. FlagsOK'  BY DEF FlagsOK
<1>5. NoBlockSkipped'  BY DEF NoBlockSkipped
<1>6. SuccessUnlessSpent' /\ NothingSent'
  BY DEF SuccessUnlessSpent, NothingSent
<1>7. Shape'  BY DEF Shape
<1>8. Intervals'  BY DEF Intervals
<1>9. Tries'  BY DEF Tries, AttemptsBounded
<1> QED
  BY <1>1, <1>2, <1>3, <1>4, <1>5, <1>6, <1>7, <1>8, <1>9

\* The next file of the command starts from nothing.
LEMMA NextNewStep == ASSUME IInv, NextNew PROVE IInv'
<1> USE UploadAssumption DEF IInv, TypeOK, NextNew, StartCreate, outside,
      command, loop, session, file
<1>1. OutsideOK'  BY DEF OutsideOK
<1>2. MemoryOK'
  BY DEF OutsideOK, MemoryOK, Shape, Intervals, Done, TriesCap
<1>3. WorkOK'  BY DEF WorkOK
<1>4. FlagsOK'  BY DEF FlagsOK
<1>5. NoBlockSkipped'  BY DEF NoBlockSkipped
<1>6. SuccessUnlessSpent' /\ NothingSent'
  BY DEF SuccessUnlessSpent, NothingSent
<1>7. Shape'  BY DEF Shape
<1>8. Intervals'  BY DEF Intervals
<1>9. Tries'  BY DEF Tries, AttemptsBounded
<1> QED
  BY <1>1, <1>2, <1>3, <1>4, <1>5, <1>6, <1>7, <1>8, <1>9

\* A resume starts from the blocks and the interval of its record.
LEMMA NextRecordStep == ASSUME IInv, NextRecord PROVE IInv'
<1> USE UploadAssumption DEF IInv, TypeOK
<1>1. PICK i \in again :
        /\ again' = again \ {i}
        /\ record[i] # NoRecord
        /\ fileID' = i /\ bytes' = record[i].bytes
        /\ interval' = record[i].interval
        /\ StartUpload(record[i].bytes)
  BY DEF NextRecord
<1>2. /\ UNCHANGED <<created, stored, record, damaged, resuming, fresh, retries, sessErr>>
      /\ UNCHANGED <<taskID, failed, reported>>
  BY DEF NextRecord, outside, session
<1>3. /\ i \in IDs /\ i \in 1 .. created /\ i > 0
      /\ record[i].bytes \in 0 .. Size /\ record[i].interval \in 0 .. LastInterval
      /\ record[i].bytes <= stored[i]
  <2>1. i \in IDs
    BY <1>1 DEF WorkOK
  <2>2. record[i] \in Records
    BY <1>1, <2>1 DEF OutsideOK
  <2>3. i <= created /\ record[i].bytes <= stored[i]
    BY <1>1, <2>1 DEF NoBlockSkipped
  <2> QED
    BY <2>1, <2>2, <2>3 DEF Records, IDs, OutsideOK
<1> USE <1>1, <1>2, <1>3 DEF StartUpload
<1>4. OutsideOK' /\ WorkOK'
  BY DEF OutsideOK, WorkOK
<1>5. MemoryOK'
  BY DEF OutsideOK, MemoryOK, Done, TriesCap
<1>6. FlagsOK'
  BY DEF FlagsOK
<1>7. NoBlockSkipped'
  BY DEF NoBlockSkipped
<1>8. SuccessUnlessSpent' /\ NothingSent' /\ Shape'
  BY DEF SuccessUnlessSpent, NothingSent, Shape
<1>9. Intervals' /\ Tries'
  BY DEF Intervals, Tries, AttemptsBounded
<1> QED
  BY <1>4, <1>5, <1>6, <1>7, <1>8, <1>9

\* What is found in damaged files claims no block the service does not have.
LEMMA SalvagedLemma ==
  ASSUME OutsideOK, NEW f \in Salvaged
  PROVE  /\ f \in [IDs -> Records \cup {NoRecord}]
         /\ \A j \in IDs : \/ f[j] \in {record[j], NoRecord}
                           \/ j <= created /\ f[j].bytes <= stored[j]
<1>1. \A j \in IDs : f[j] \in Found(j)
  BY DEF Salvaged
<1>2. ASSUME NEW j \in IDs
      PROVE  /\ f[j] \in Records \cup {NoRecord}
             /\ \/ f[j] \in {record[j], NoRecord}
                \/ j <= created /\ f[j].bytes <= stored[j]
  <2>1. CASE f[j] \in {record[j], NoRecord}
    BY <2>1 DEF OutsideOK
  <2>2. CASE f[j] \in [bytes : 0 .. stored[j], interval : 0 .. LastInterval] /\ j <= created
    <3>1. stored[j] \in 0 .. Size
      BY DEF OutsideOK
    <3>2. f[j] \in Records /\ f[j].bytes <= stored[j]
      BY <2>2, <3>1, UploadAssumption DEF Records
    <3> QED
      BY <2>2, <3>2
  <2> QED
    BY <1>1, <2>1, <2>2 DEF Found
<1>3. f \in [IDs -> UNION {Found(j) : j \in IDs}]
  BY DEF Salvaged
<1> QED
  BY <1>2, <1>3

\* So do the records that are left when one is cleared.
LEMMA ClearRecordLemma ==
  ASSUME OutsideOK, NEW i \in IDs, ClearRecord(i)
  PROVE  /\ record' \in [IDs -> Records \cup {NoRecord}]
         /\ \A j \in IDs : \/ record'[j] \in {record[j], NoRecord}
                           \/ j <= created /\ record'[j].bytes <= stored[j]
<1>1. CASE damaged /\ record' \in Salvaged
  BY <1>1, SalvagedLemma
<1>2. CASE ~(damaged /\ record' \in Salvaged)
  BY <1>2 DEF ClearRecord, Without, OutsideOK
<1> QED
  BY <1>1, <1>2

\* A complete record is not resumed.
LEMMA NextCompleteStep == ASSUME IInv, NextComplete PROVE IInv'
<1> USE UploadAssumption DEF IInv, TypeOK, NextComplete, outside, command, loop, session, file
<1>0. /\ record' \in [IDs -> Records \cup {NoRecord}]
      /\ \A j \in IDs : \/ record'[j] \in {record[j], NoRecord}
                        \/ j <= created /\ record'[j].bytes <= stored[j]
  <2>1. \E i \in IDs : ClearRecord(i)
    BY DEF WorkOK
  <2> QED
    BY <2>1, ClearRecordLemma
<1>1. OutsideOK'  BY <1>0 DEF OutsideOK
<1>2. MemoryOK'  BY DEF MemoryOK
<1>3. WorkOK'  BY DEF WorkOK
<1>4. FlagsOK'  BY DEF FlagsOK
<1>5. NoBlockSkipped'  BY <1>0 DEF NoBlockSkipped, OutsideOK
<1>6. SuccessUnlessSpent' /\ NothingSent'
  BY DEF SuccessUnlessSpent, NothingSent
<1>7. Shape'  BY DEF Shape
<1>8. Intervals'  BY DEF Intervals
<1>9. Tries'  BY DEF Tries, AttemptsBounded
<1> QED
  BY <1>1, <1>2, <1>3, <1>4, <1>5, <1>6, <1>7, <1>8, <1>9

\* A file that cannot be read changes nothing but the list.
LEMMA SkipStep == ASSUME IInv, Skip PROVE IInv'
<1> USE UploadAssumption DEF IInv, TypeOK, Skip, outside, command, loop, session,
      file
<1>1. OutsideOK'  BY DEF OutsideOK
<1>2. MemoryOK'  BY DEF MemoryOK
<1>3. WorkOK'  BY DEF WorkOK
<1>4. FlagsOK'  BY DEF FlagsOK
<1>5. NoBlockSkipped'  BY DEF NoBlockSkipped
<1>6. SuccessUnlessSpent' /\ NothingSent'
  BY DEF SuccessUnlessSpent, NothingSent
<1>7. Shape'  BY DEF Shape
<1>8. Intervals'  BY DEF Intervals
<1>9. Tries'  BY DEF Tries, AttemptsBounded
<1> QED
  BY <1>1, <1>2, <1>3, <1>4, <1>5, <1>6, <1>7, <1>8, <1>9

\* The list is empty.
LEMMA EndCommandStep == ASSUME IInv, EndCommand PROVE IInv'
<1> USE UploadAssumption DEF IInv, TypeOK, EndCommand, outside, command, loop,
      session, file
<1>1. OutsideOK'  BY DEF OutsideOK
<1>2. MemoryOK'  BY DEF MemoryOK
<1>3. WorkOK'  BY DEF WorkOK
<1>4. FlagsOK'  BY DEF FlagsOK
<1>5. NoBlockSkipped'  BY DEF NoBlockSkipped
<1>6. SuccessUnlessSpent' /\ NothingSent'
  BY DEF SuccessUnlessSpent, NothingSent
<1>7. Shape'  BY DEF Shape
<1>8. Intervals'  BY DEF Intervals
<1>9. Tries'  BY DEF Tries, AttemptsBounded
<1> QED
  BY <1>1, <1>2, <1>3, <1>4, <1>5, <1>6, <1>7, <1>8, <1>9

\* The new file has no blocks, and nothing was uploaded of it.
LEMMA CreateOkStep == ASSUME IInv, CreateOk PROVE IInv'
<1> USE UploadAssumption DEF IInv, TypeOK, CreateOk, Running, outside, command,
      loop, session, file
<1>1. OutsideOK'  BY DEF OutsideOK
<1>2. MemoryOK'  BY DEF OutsideOK, MemoryOK, IDs
<1>3. WorkOK'  BY DEF WorkOK
<1>4. FlagsOK'  BY DEF FlagsOK
<1>5. NoBlockSkipped'  BY DEF NoBlockSkipped, OutsideOK, IDs
<1>6. SuccessUnlessSpent' /\ NothingSent'
  BY DEF SuccessUnlessSpent, NothingSent
<1>7. Shape'  BY DEF Shape
<1>8. Intervals'  BY DEF Intervals
<1>9. Tries'  BY DEF Tries, AttemptsBounded
<1> QED
  BY <1>1, <1>2, <1>3, <1>4, <1>5, <1>6, <1>7, <1>8, <1>9

\* A block moves the service and the attempt together.
LEMMA SendStep == ASSUME IInv, Send PROVE IInv'
<1> USE UploadAssumption DEF IInv, TypeOK, Send, Running, outside, command, loop,
      session, file
<1>1. OutsideOK'  BY DEF OutsideOK, MemoryOK, IDs
<1>2. MemoryOK'  BY DEF MemoryOK
<1>3. WorkOK'  BY DEF WorkOK
<1>4. FlagsOK'  BY DEF FlagsOK
<1>5. NoBlockSkipped'
  BY SMTT(20) DEF NoBlockSkipped, OutsideOK, MemoryOK, IDs, Records, NoRecord, Shape,
      NothingSent
<1>6. SuccessUnlessSpent' /\ NothingSent'
  BY DEF SuccessUnlessSpent, NothingSent
<1>7. Shape'  BY DEF Shape
<1>8. Intervals'  BY DEF Intervals
<1>9. Tries'  BY DEF Tries, AttemptsBounded
<1> QED
  BY <1>1, <1>2, <1>3, <1>4, <1>5, <1>6, <1>7, <1>8, <1>9

\* A write leaves each record as it is, ends it, or is the record written.
LEMMA WriteRecordLemma ==
  ASSUME OutsideOK, NEW i \in IDs, NEW r \in Records, WriteRecord(i, r)
  PROVE  /\ record' \in [IDs -> Records \cup {NoRecord}]
         /\ \A j \in IDs : \/ record'[j] \in {record[j], NoRecord}
                           \/ j <= created /\ record'[j].bytes <= stored[j]
                           \/ j = i /\ record'[j] = r
<1>1. CASE record' = [record EXCEPT ![i] = r] \/ UNCHANGED record
  BY <1>1 DEF OutsideOK
<1>2. CASE record' \in Salvaged
  BY <1>2, SalvagedLemma
<1> QED
  BY <1>1, <1>2 DEF WriteRecord

\* What the callback counts and records is at the service.
LEMMA SendCompleteStep == ASSUME IInv, SendComplete PROVE IInv'
<1> USE UploadAssumption DEF IInv, TypeOK, SendComplete, outside,
      command, loop, session, file
<1>0. /\ record' \in [IDs -> Records \cup {NoRecord}]
      /\ \A j \in IDs : \/ record'[j] \in {record[j], NoRecord}
                        \/ j <= created /\ record'[j].bytes <= stored[j]
                        \/ j = fileID /\ record'[j] = [bytes |-> pos, interval |-> 0]
  <2>1. fileID \in IDs /\ [bytes |-> pos, interval |-> 0] \in Records
    BY DEF OutsideOK, MemoryOK, Shape, IDs, Records
  <2> QED
    BY <2>1, WriteRecordLemma
<1>1. OutsideOK'  BY <1>0 DEF OutsideOK
<1>2. MemoryOK'  BY DEF MemoryOK, Done, TriesCap
<1>3. WorkOK'  BY DEF WorkOK
<1>4. FlagsOK'  BY DEF FlagsOK
<1>5. NoBlockSkipped'
  BY <1>0 DEF NoBlockSkipped, OutsideOK, MemoryOK, IDs, NoRecord, Shape
<1>6. SuccessUnlessSpent' /\ NothingSent'
  BY DEF SuccessUnlessSpent, NothingSent, Shape, MemoryOK
<1>7. Shape'  BY DEF Shape
<1>8. Intervals'  BY DEF Intervals, Shape
<1>9. Tries'  BY DEF Tries, AttemptsBounded
<1> QED
  BY <1>1, <1>2, <1>3, <1>4, <1>5, <1>6, <1>7, <1>8, <1>9

\* An attempt that is past every block leaves the file complete.
LEMMA UploadOkStep == ASSUME IInv, UploadOk PROVE IInv'
<1> USE UploadAssumption DEF IInv, TypeOK, UploadOk, Running, outside, command,
      loop, session, file
<1>1. OutsideOK'  BY DEF OutsideOK
<1>2. MemoryOK'  BY DEF MemoryOK
<1>3. WorkOK'  BY DEF WorkOK
<1>4. FlagsOK'  BY DEF FlagsOK
<1>5. NoBlockSkipped'  BY DEF NoBlockSkipped
<1>6. SuccessUnlessSpent' /\ NothingSent'
  BY DEF SuccessUnlessSpent, NothingSent, NoBlockSkipped, OutsideOK, MemoryOK, IDs
<1>7. Shape'  BY DEF Shape
<1>8. Intervals'  BY DEF Intervals
<1>9. Tries'  BY DEF Tries, AttemptsBounded
<1> QED
  BY <1>1, <1>2, <1>3, <1>4, <1>5, <1>6, <1>7, <1>8, <1>9

\* The first record of a file claims no block.
LEMMA CreatedStep == ASSUME IInv, Created PROVE IInv'
<1> USE UploadAssumption DEF IInv, TypeOK, Created, StartUpload,
      outside, command, loop, session, file
<1>0. /\ record' \in [IDs -> Records \cup {NoRecord}]
      /\ \A j \in IDs : \/ record'[j] \in {record[j], NoRecord}
                        \/ j <= created /\ record'[j].bytes <= stored[j]
                        \/ j = taskID /\ record'[j] = [bytes |-> bytes, interval |-> interval]
  <2>1. taskID \in IDs /\ [bytes |-> bytes, interval |-> interval] \in Records
    BY DEF OutsideOK, MemoryOK, Intervals, IDs, Records, Done
  <2> QED
    BY <2>1, WriteRecordLemma
<1>1. OutsideOK'  BY <1>0 DEF OutsideOK
<1>2. MemoryOK'  BY DEF MemoryOK, Done, TriesCap
<1>3. WorkOK'  BY DEF WorkOK
<1>4. FlagsOK'  BY DEF FlagsOK
<1>5. NoBlockSkipped'
  BY <1>0 DEF NoBlockSkipped, NothingSent, OutsideOK, MemoryOK, IDs, NoRecord
<1>6. SuccessUnlessSpent' /\ NothingSent'
  BY DEF SuccessUnlessSpent, NothingSent
<1>7. Shape'  BY DEF Shape
<1>8. Intervals'  BY DEF Intervals
<1>9. Tries'  BY DEF Tries, AttemptsBounded
<1> QED
  BY <1>1, <1>2, <1>3, <1>4, <1>5, <1>6, <1>7, <1>8, <1>9

\* The record of the finished file goes, and others that look complete.
LEMMA FinishStep == ASSUME IInv, Finish PROVE IInv'
<1> USE UploadAssumption DEF IInv, TypeOK, Finish, Return, outside, command, loop, session, file
<1>0. /\ record' \in [IDs -> Records \cup {NoRecord}]
      /\ \A j \in IDs : \/ record'[j] \in {record[j], NoRecord}
                        \/ j <= created /\ record'[j].bytes <= stored[j]
  <2>1. \E i \in IDs : ClearRecord(i)
    BY DEF MemoryOK, OutsideOK, IDs
  <2> QED
    BY <2>1, ClearRecordLemma
<1>1. OutsideOK'  BY <1>0 DEF OutsideOK
<1>2. MemoryOK'  BY DEF MemoryOK
<1>3. WorkOK'  BY DEF WorkOK
<1>4. FlagsOK'  BY DEF FlagsOK
<1>5. NoBlockSkipped'  BY <1>0 DEF NoBlockSkipped, OutsideOK
<1>6. SuccessUnlessSpent' /\ NothingSent'
  BY DEF SuccessUnlessSpent, NothingSent
<1>7. Shape'  BY DEF Shape
<1>8. Intervals'  BY DEF Intervals
<1>9. Tries'  BY DEF Tries, AttemptsBounded
<1> QED
  BY <1>1, <1>2, <1>3, <1>4, <1>5, <1>6, <1>7, <1>8, <1>9

\* The first interval begins, from the blocks that were confirmed.
LEMMA BeginResumeStep == ASSUME IInv, BeginResume PROVE IInv'
<1> USE UploadAssumption DEF IInv, TypeOK, BeginResume, Return, TaskFails,
      NextInterval, outside, command, loop, session, file
<1>1. OutsideOK'  BY DEF OutsideOK
<1>2. MemoryOK'  BY DEF MemoryOK, Done, TriesCap
<1>3. WorkOK'  BY DEF WorkOK
<1>4. FlagsOK'  BY DEF FlagsOK
<1>5. NoBlockSkipped'  BY DEF NoBlockSkipped
<1>6. SuccessUnlessSpent' /\ NothingSent'
  BY DEF SuccessUnlessSpent, NothingSent, Shape, MemoryOK
<1>7. Shape'  BY DEF Shape, MemoryOK
<1>8. Intervals'  BY DEF Intervals, Shape, MemoryOK, Done
<1>9. Tries'
  BY DEF Tries, AttemptsBounded, Intervals, Shape, MemoryOK, Done, TriesCap
<1> QED
  BY <1>1, <1>2, <1>3, <1>4, <1>5, <1>6, <1>7, <1>8, <1>9

\* A session error of CreateFile's own task.
LEMMA DirectSessionErrorStep == ASSUME IInv, DirectSessionError PROVE IInv'
<1> USE UploadAssumption DEF IInv, TypeOK, DirectSessionError, Return, TaskFails,
      UseRetry, outside, command, loop, session, file
<1>1. OutsideOK'  BY DEF OutsideOK
<1>2. MemoryOK'  BY DEF MemoryOK
<1>3. WorkOK'  BY DEF WorkOK
<1>4. FlagsOK'  BY DEF FlagsOK
<1>5. NoBlockSkipped'  BY DEF NoBlockSkipped
<1>6. SuccessUnlessSpent' /\ NothingSent'
  BY DEF SuccessUnlessSpent, NothingSent
<1>7. Shape'  BY DEF Shape
<1>8. Intervals'  BY DEF Intervals
<1>9. Tries'  BY DEF Tries, AttemptsBounded
<1> QED
  BY <1>1, <1>2, <1>3, <1>4, <1>5, <1>6, <1>7, <1>8, <1>9

\* An error that is returned leaves nothing to continue.
LEMMA DirectErrorStep == ASSUME IInv, DirectError PROVE IInv'
<1> USE UploadAssumption DEF IInv, TypeOK, DirectError, Return, TaskFails,
      Errors, outside, command, loop, session, file
<1>1. OutsideOK'  BY DEF OutsideOK
<1>2. MemoryOK'  BY DEF MemoryOK
<1>3. WorkOK'  BY DEF WorkOK
<1>4. FlagsOK'  BY DEF FlagsOK
<1>5. NoBlockSkipped'  BY DEF NoBlockSkipped
<1>6. SuccessUnlessSpent' /\ NothingSent'
  BY DEF SuccessUnlessSpent, NothingSent
<1>7. Shape'  BY DEF Shape
<1>8. Intervals'  BY DEF Intervals
<1>9. Tries'  BY DEF Tries, AttemptsBounded
<1> QED
  BY <1>1, <1>2, <1>3, <1>4, <1>5, <1>6, <1>7, <1>8, <1>9

\* After an attempt the next interval, or a login, or the end.
LEMMA ResumeErrorStep == ASSUME IInv, ResumeError PROVE IInv'
<1> USE UploadAssumption DEF IInv, TypeOK, ResumeError, Return, TaskFails,
      NextInterval, UseRetry, outside, command, loop, session, file
<1>1. OutsideOK'  BY DEF OutsideOK
<1>2. MemoryOK'  BY DEF MemoryOK, Done, TriesCap
<1>3. WorkOK'  BY DEF WorkOK
<1>4. FlagsOK'  BY DEF FlagsOK
<1>5. NoBlockSkipped'  BY DEF NoBlockSkipped
<1>6. SuccessUnlessSpent' /\ NothingSent'
  BY DEF SuccessUnlessSpent, NothingSent, Shape, MemoryOK
<1>7. Shape'  BY DEF Shape, MemoryOK
<1>8. Intervals'  BY DEF Intervals, MemoryOK, Done
<1>9. Tries'
  BY DEF Tries, AttemptsBounded, Intervals, Shape, MemoryOK, Done, TriesCap
<1> QED
  BY <1>1, <1>2, <1>3, <1>4, <1>5, <1>6, <1>7, <1>8, <1>9

\* After a repeated attempt the next interval, or the end.
LEMMA RepeatErrorStep == ASSUME IInv, RepeatError PROVE IInv'
<1> USE UploadAssumption DEF IInv, TypeOK, RepeatError, Return, TaskFails,
      Errors, NextInterval, RepeatEnds, outside, command, loop, session, file
<1>1. OutsideOK'  BY DEF OutsideOK
<1>2. MemoryOK'  BY DEF MemoryOK, Done, TriesCap
<1>3. WorkOK'  BY DEF WorkOK
<1>4. FlagsOK'  BY DEF FlagsOK
<1>5. NoBlockSkipped'  BY DEF NoBlockSkipped
<1>6. SuccessUnlessSpent' /\ NothingSent'
  BY DEF SuccessUnlessSpent, NothingSent, Shape, MemoryOK
<1>7. Shape'  BY DEF Shape, MemoryOK
<1>8. Intervals'  BY DEF Intervals, Shape, MemoryOK, Done
<1>9. Tries'
  BY DEF Tries, AttemptsBounded, Intervals, Shape, MemoryOK, Done, TriesCap
<1> QED
  BY <1>1, <1>2, <1>3, <1>4, <1>5, <1>6, <1>7, <1>8, <1>9

\* The task is repeated in the same interval.
LEMMA LoginOkStep == ASSUME IInv, LoginOk PROVE IInv'
<1> USE UploadAssumption DEF IInv, TypeOK, LoginOk, RunAgain, outside, command,
      loop, session, file
<1>1. OutsideOK'  BY DEF OutsideOK
<1>2. MemoryOK'
  BY DEF OutsideOK, MemoryOK, Shape, Intervals, Done, TriesCap
<1>3. WorkOK'  BY DEF WorkOK
<1>4. FlagsOK'  BY DEF FlagsOK
<1>5. NoBlockSkipped'  BY DEF NoBlockSkipped
<1>6. SuccessUnlessSpent' /\ NothingSent'
  BY DEF SuccessUnlessSpent, NothingSent
<1>7. Shape'  BY DEF Shape
<1>8. Intervals'  BY DEF Intervals, Shape
<1>9. Tries'
  BY DEF Tries, AttemptsBounded, Intervals, Shape, MemoryOK, Done, TriesCap
<1> QED
  BY <1>1, <1>2, <1>3, <1>4, <1>5, <1>6, <1>7, <1>8, <1>9

\* A failed login costs the interval.
LEMMA LoginFailsStep == ASSUME IInv, LoginFails PROVE IInv'
<1> USE UploadAssumption DEF IInv, TypeOK, LoginFails, Return, NextInterval,
      RepeatEnds, outside, command, loop, session, file
<1>1. OutsideOK'  BY DEF OutsideOK
<1>2. MemoryOK'  BY DEF MemoryOK, Done, TriesCap
<1>3. WorkOK'  BY DEF WorkOK
<1>4. FlagsOK'  BY DEF FlagsOK
<1>5. NoBlockSkipped'  BY DEF NoBlockSkipped
<1>6. SuccessUnlessSpent' /\ NothingSent'
  BY DEF SuccessUnlessSpent, NothingSent
<1>7. Shape'  BY DEF Shape, MemoryOK
<1>8. Intervals'  BY DEF Intervals, Shape, MemoryOK, Done
<1>9. Tries'
  BY DEF Tries, AttemptsBounded, Intervals, Shape, MemoryOK, Done, TriesCap
<1> QED
  BY <1>1, <1>2, <1>3, <1>4, <1>5, <1>6, <1>7, <1>8, <1>9

\* The attempt of the interval.
LEMMA CountdownOverStep == ASSUME IInv, CountdownOver PROVE IInv'
<1> USE UploadAssumption DEF IInv, TypeOK, CountdownOver, RunAgain, outside,
      command, loop, session, file
<1>1. OutsideOK'  BY DEF OutsideOK
<1>2. MemoryOK'
  BY DEF OutsideOK, MemoryOK, Shape, Intervals, Done, TriesCap
<1>3. WorkOK'  BY DEF WorkOK
<1>4. FlagsOK'  BY DEF FlagsOK
<1>5. NoBlockSkipped'  BY DEF NoBlockSkipped
<1>6. SuccessUnlessSpent' /\ NothingSent'
  BY DEF SuccessUnlessSpent, NothingSent
<1>7. Shape'  BY DEF Shape
<1>8. Intervals'  BY DEF Intervals, Shape
<1>9. Tries'
  BY DEF Tries, AttemptsBounded, Intervals, Shape, MemoryOK, Done, TriesCap
<1> QED
  BY <1>1, <1>2, <1>3, <1>4, <1>5, <1>6, <1>7, <1>8, <1>9

\* A cancelled resume leaves nothing to continue.
LEMMA CancelledStep == ASSUME IInv, Cancelled PROVE IInv'
<1> USE UploadAssumption DEF IInv, TypeOK, Cancelled, Return, outside, command,
      loop, session, file
<1>1. OutsideOK'  BY DEF OutsideOK
<1>2. MemoryOK'  BY DEF MemoryOK
<1>3. WorkOK'  BY DEF WorkOK
<1>4. FlagsOK'  BY DEF FlagsOK
<1>5. NoBlockSkipped'  BY DEF NoBlockSkipped
<1>6. SuccessUnlessSpent' /\ NothingSent'
  BY DEF SuccessUnlessSpent, NothingSent
<1>7. Shape'  BY DEF Shape
<1>8. Intervals'  BY DEF Intervals
<1>9. Tries'  BY DEF Tries, AttemptsBounded
<1> QED
  BY <1>1, <1>2, <1>3, <1>4, <1>5, <1>6, <1>7, <1>8, <1>9

\* The loop of ResumeCreateFile has always made an attempt.
LEMMA OutOfIntervalsStep == ASSUME IInv, OutOfIntervals PROVE IInv'
<1> USE UploadAssumption DEF IInv, TypeOK, OutOfIntervals, Return, outside,
      command, loop, session, file
<1>1. OutsideOK'  BY DEF OutsideOK
<1>2. MemoryOK'
  BY DEF OutsideOK, MemoryOK, Shape, Intervals, Done, TriesCap
<1>3. WorkOK'  BY DEF WorkOK
<1>4. FlagsOK'  BY DEF FlagsOK
<1>5. NoBlockSkipped'  BY DEF NoBlockSkipped
<1>6. SuccessUnlessSpent' /\ NothingSent'
  BY DEF SuccessUnlessSpent, NothingSent
<1>7. Shape'  BY DEF Shape, MemoryOK
<1>8. Intervals'  BY DEF Intervals, Shape
<1>9. Tries'  BY DEF Tries, AttemptsBounded
<1> QED
  BY <1>1, <1>2, <1>3, <1>4, <1>5, <1>6, <1>7, <1>8, <1>9

\* A login between the commands.
LEMMA LoginStep == ASSUME IInv, Login PROVE IInv'
<1> USE UploadAssumption DEF IInv, TypeOK, Login, outside, command, loop,
      session, file
<1>1. OutsideOK'  BY DEF OutsideOK
<1>2. MemoryOK'  BY DEF MemoryOK
<1>3. WorkOK'  BY DEF WorkOK
<1>4. FlagsOK'  BY DEF FlagsOK
<1>5. NoBlockSkipped'  BY DEF NoBlockSkipped
<1>6. SuccessUnlessSpent' /\ NothingSent'
  BY DEF SuccessUnlessSpent, NothingSent
<1>7. Shape'  BY DEF Shape
<1>8. Intervals'  BY DEF Intervals
<1>9. Tries'  BY DEF Tries, AttemptsBounded
<1> QED
  BY <1>1, <1>2, <1>3, <1>4, <1>5, <1>6, <1>7, <1>8, <1>9

\* A restarted program has nothing in hand, whatever is left of the records.
LEMMA CrashStep == ASSUME IInv, Crash \/ CutShort PROVE IInv'
<1>1. /\ Restart
      /\ record' \in [IDs -> Records \cup {NoRecord}]
      /\ \A i \in IDs : \/ record'[i] \in {record[i], NoRecord}
                        \/ i <= created /\ record'[i].bytes <= stored[i]
  <2>1. CASE record' \in Salvaged
    BY <2>1, SalvagedLemma DEF Crash, CutShort, IInv, TypeOK
  <2>2. CASE record' \notin Salvaged
    BY <2>2 DEF Crash, CutShort, Without, IInv, TypeOK, OutsideOK
  <2> QED
    BY <2>1, <2>2
<1> USE UploadAssumption DEF Restart, IInv, TypeOK, OutsideOK
<1>2. OutsideOK'  BY <1>1
<1>3. MemoryOK'
  BY <1>1 DEF MemoryOK, Done, TriesCap
<1>4. WorkOK'  BY <1>1 DEF WorkOK
<1>5. FlagsOK'  BY <1>1 DEF FlagsOK, Crash, CutShort
<1>6. NoBlockSkipped'  BY <1>1 DEF NoBlockSkipped, NoRecord
<1>7. SuccessUnlessSpent' /\ NothingSent'
  BY <1>1 DEF SuccessUnlessSpent, NothingSent
<1>8. Shape' /\ Intervals'  BY <1>1 DEF Shape, Intervals
<1>9. Tries'  BY <1>1 DEF Tries, AttemptsBounded
<1> QED
  BY <1>2, <1>3, <1>4, <1>5, <1>6, <1>7, <1>8, <1>9

\* The inductive step.
LEMMA Inductive == IInv /\ [Next]_vars => IInv'
<1> SUFFICES ASSUME IInv, [Next]_vars PROVE IInv'
  OBVIOUS
<1>1. ASSUME NEW r \in BOOLEAN, Start(r) PROVE IInv'
  BY <1>1, StartStep
<1>2. CASE Step
  <2>1. CASE NextNew \/ NextRecord \/ NextComplete \/ Skip \/ EndCommand
    BY <2>1, NextNewStep, NextRecordStep, NextCompleteStep, SkipStep, EndCommandStep
  <2>2. CASE CreateOk \/ Send \/ SendComplete \/ UploadOk \/ Created \/ Finish
    BY <2>2, CreateOkStep, SendStep, SendCompleteStep, UploadOkStep, CreatedStep,
       FinishStep
  <2>3. CASE BeginResume \/ DirectSessionError \/ DirectError \/ ResumeError
    BY <2>3, BeginResumeStep, DirectSessionErrorStep, DirectErrorStep, ResumeErrorStep
  <2>4. CASE RepeatError \/ LoginOk \/ LoginFails \/ CountdownOver \/ Cancelled
    BY <2>4, RepeatErrorStep, LoginOkStep, LoginFailsStep, CountdownOverStep,
       CancelledStep
  <2>5. CASE OutOfIntervals
    BY <2>5, OutOfIntervalsStep
  <2> QED
    BY <1>2, <2>1, <2>2, <2>3, <2>4, <2>5 DEF Step
<1>3. CASE Login \/ Crash \/ CutShort
  BY <1>3, LoginStep, CrashStep
<1>4. CASE UNCHANGED vars
  <2>1. TypeOK' /\ NoBlockSkipped'
    BY <1>4 DEF IInv, vars, outside, command, loop, session, file, TypeOK, OutsideOK,
                MemoryOK, WorkOK, FlagsOK, NoBlockSkipped
  <2>2. SuccessUnlessSpent' /\ Shape' /\ NothingSent' /\ Intervals' /\ Tries'
    BY <1>4 DEF IInv, vars, outside, command, loop, session, file, SuccessUnlessSpent,
                Shape, NothingSent, Intervals, Tries, AttemptsBounded
  <2> QED
    BY <2>1, <2>2 DEF IInv
<1> QED
  BY <1>1, <1>2, <1>3, <1>4 DEF Next

\* The inductive invariant holds in every state of every behaviour.
THEOREM Invariance == Spec => []IInv
<1> QED
  BY InitIInv, Inductive, PTL DEF Spec

\* Type correctness.
THEOREM TypeCorrect == Spec => []TypeOK
<1>1. IInv => TypeOK
  BY DEF IInv
<1> QED
  BY <1>1, Invariance, PTL

\* No attempt and no record is ahead of the service, whatever fails and whenever
\* the program is killed.
THEOREM BlocksContiguous == Spec => []NoBlockSkipped
<1>1. IInv => NoBlockSkipped
  BY DEF IInv
<1> QED
  BY <1>1, Invariance, PTL

\* What is reported as uploaded is at the service, up to the one way in which
\* ResumeCurrentUpload returns 0 without an attempt.
THEOREM SuccessIsReal == Spec => []SuccessUnlessSpent
<1>1. IInv => SuccessUnlessSpent
  BY DEF IInv
<1> QED
  BY <1>1, Invariance, PTL

\* A resume gives up after two attempts for each interval without progress.
THEOREM ResumeGivesUp == Spec => []AttemptsBounded
<1>1. IInv => AttemptsBounded
  BY DEF IInv, Tries
<1> QED
  BY <1>1, Invariance, PTL

\* A step that ends a record does so for the file it finishes, or for one whose
\* record shows it complete.
LEMMA RecordStep ==
  ASSUME IInv, [Next]_vars, NEW i \in IDs, record[i] # NoRecord, record'[i] = NoRecord
  PROVE  damaged \/ stored[i] = Size \/ i \in reported' \/ CutShort
<1> SUFFICES ASSUME ~damaged PROVE CutShort \/ stored[i] = Size \/ i \in reported'
  OBVIOUS
<1>1. ASSUME Complete(i) PROVE stored[i] = Size
  BY <1>1, UploadAssumption DEF IInv, TypeOK, OutsideOK, NoBlockSkipped, Complete
<1>2. ASSUME NEW j \in IDs, ClearRecord(j) PROVE i = j \/ Complete(i)
  BY <1>2 DEF ClearRecord, Without
<1>3. ASSUME NEW j \in IDs, NEW r \in Records, WriteRecord(j, r) PROVE FALSE
  BY <1>3, UploadAssumption DEF WriteRecord, Records, NoRecord, IInv, TypeOK, OutsideOK
<1>4. CASE Finish
  <2>1. fileID \in IDs
    BY <1>4, UploadAssumption DEF Finish, IInv, TypeOK, OutsideOK, MemoryOK, IDs
  <2>2. ClearRecord(fileID) /\ fileID \in reported'
    BY <1>4 DEF Finish
  <2> QED
    BY <1>1, <1>2, <2>1, <2>2
<1>5. CASE NextComplete
  <2>1. PICK j \in again : (record[j] = NoRecord \/ Complete(j)) /\ ClearRecord(j)
    BY <1>5 DEF NextComplete
  <2> QED
    BY <1>1, <1>2, <2>1 DEF IInv, TypeOK, WorkOK
<1>6. CASE SendComplete
  <2>1. fileID \in IDs /\ pos \in 0 .. Size
    BY <1>6, UploadAssumption
       DEF SendComplete, IInv, TypeOK, OutsideOK, MemoryOK, IDs, Shape
  <2>2. [bytes |-> pos, interval |-> 0] \in Records
    BY <2>1, UploadAssumption DEF Records
  <2>3. WriteRecord(fileID, [bytes |-> pos, interval |-> 0])
    BY <1>6 DEF SendComplete
  <2> QED
    BY <1>3, <2>1, <2>2, <2>3
<1>7. CASE Created
  <2>1. taskID \in IDs /\ bytes \in 0 .. Size /\ interval \in 0 .. LastInterval
    BY <1>7, UploadAssumption
       DEF Created, IInv, TypeOK, OutsideOK, MemoryOK, IDs, Intervals, Done
  <2>2. [bytes |-> bytes, interval |-> interval] \in Records
    BY <2>1 DEF Records
  <2>3. WriteRecord(taskID, [bytes |-> bytes, interval |-> interval])
    BY <1>7 DEF Created
  <2> QED
    BY <1>3, <2>1, <2>2, <2>3
<1>8. CASE UNCHANGED record
  BY <1>8
<1>9. CASE UNCHANGED vars
  BY <1>9, <1>8 DEF vars, outside
<1>10. ASSUME NEW b \in BOOLEAN, Start(b) PROVE UNCHANGED record
  BY <1>10 DEF Start, outside
<1>11. CASE NextNew \/ NextRecord \/ Skip \/ EndCommand \/ CreateOk \/ Send \/ UploadOk
  BY <1>8, <1>11 DEF NextNew, NextRecord, Skip, EndCommand, CreateOk, Send, UploadOk,
                     outside
<1>12. CASE BeginResume \/ DirectSessionError \/ DirectError \/ ResumeError \/ RepeatError
  BY <1>8, <1>12 DEF BeginResume, DirectSessionError, DirectError, ResumeError,
                     RepeatError, outside
<1>13. CASE LoginOk \/ LoginFails \/ CountdownOver \/ Cancelled \/ OutOfIntervals
  BY <1>8, <1>13 DEF LoginOk, LoginFails, CountdownOver, Cancelled, OutOfIntervals,
                     outside
<1>14. CASE Login \/ Crash
  BY <1>8, <1>14 DEF Login, Crash, outside
<1>15. CASE CutShort
  BY <1>15
<1> QED
  BY <1>4, <1>5, <1>6, <1>7, <1>8, <1>9, <1>10, <1>11, <1>12, <1>13, <1>14, <1>15
     DEF Next, Step

\* A record disappears only with a file that is at the service or has been
\* reported as uploaded, or when a rewrite of the resume files is cut short.
THEOREM RecordsAreKept == Spec => RecordsLeaveFinished
<1>1. IInv /\ [Next]_vars
        => [\/ damaged
            \/ \A i \in IDs : record[i] # NoRecord /\ record'[i] = NoRecord
                                => stored[i] = Size \/ i \in reported'
            \/ CutShort]_vars
  BY RecordStep
<1> QED
  BY <1>1, Invariance, PTL DEF Spec, RecordsLeaveFinished

\* With working resume files a file the service has created stays resumable.
LEMMA UnfinishedStep ==
  ASSUME StoreMayFail = FALSE, MayCrash = FALSE, IInv, UnfinishedCanResume, [Next]_vars
  PROVE  UnfinishedCanResume'
<1> SUFFICES ASSUME NEW i \in 1 .. created'
             PROVE  \/ stored'[i] = Size \/ i \in reported' \/ record'[i] # NoRecord
                    \/ pc' = "created" /\ taskID' = i
  BY DEF UnfinishedCanResume
<1>1. CASE CreateOk
  BY <1>1, UploadAssumption
     DEF CreateOk, Running, outside, IInv, TypeOK, OutsideOK, UnfinishedCanResume
<1>2. CASE Created
  <2>1. i \in 1 .. created /\ UNCHANGED <<stored, reported>> /\ pc = "created"
    BY <1>2 DEF Created
  <2>2. record' = [record EXCEPT ![taskID] = [bytes |-> bytes, interval |-> interval]]
    BY <1>2 DEF Created, WriteRecord, IInv, TypeOK, FlagsOK
  <2>3. bytes # -1 /\ i \in IDs
    BY <2>1, UploadAssumption DEF IInv, TypeOK, OutsideOK, MemoryOK, IDs
  <2>4. CASE taskID = i
    BY <2>2, <2>3, <2>4 DEF NoRecord, IInv, TypeOK, OutsideOK
  <2>5. CASE taskID # i
    BY <2>1, <2>2, <2>3, <2>5 DEF UnfinishedCanResume, IInv, TypeOK, OutsideOK
  <2> QED
    BY <2>4, <2>5
<1>3. CASE ~CreateOk /\ ~Created
  <2>1. created' = created /\ reported \subseteq reported'
        /\ (pc = "created" => UNCHANGED <<pc, taskID, record>>)
    BY <1>3 DEF Next, Step, vars, outside, file, command, loop, session, Start, Login, Crash, CutShort,
       NextNew, NextRecord, NextComplete, Skip, EndCommand, Send, SendComplete,
       UploadOk, Finish, BeginResume, DirectSessionError, DirectError, ResumeError,
       RepeatError, LoginOk, LoginFails, CountdownOver, Cancelled, OutOfIntervals,
       TaskFails, Running
  <2>2. stored[i] = Size => stored'[i] = Size
    <3>1. CASE Send
      BY <3>1, <2>1, UploadAssumption
         DEF Send, IInv, TypeOK, OutsideOK, MemoryOK, IDs, Running
    <3>2. CASE ~Send
      BY <1>3, <3>2 DEF Next, Step, vars, outside, Start, Login, Crash, CutShort,
         NextNew, NextRecord, NextComplete, Skip, EndCommand, SendComplete,
         UploadOk, Finish, BeginResume, DirectSessionError, DirectError, ResumeError,
         RepeatError, LoginOk, LoginFails, CountdownOver, Cancelled, OutOfIntervals
    <3> QED
      BY <3>1, <3>2
  <2>3. i \in IDs /\ i \in 1 .. created
    BY <2>1, UploadAssumption DEF IInv, TypeOK, OutsideOK, IDs
  <2>4. record[i] # NoRecord /\ record'[i] = NoRecord => stored[i] = Size \/ i \in reported'
    BY <2>3, RecordStep DEF CutShort, IInv, TypeOK, FlagsOK
  <2> QED
    BY <2>1, <2>2, <2>3, <2>4 DEF UnfinishedCanResume
<1> QED
  BY <1>1, <1>2, <1>3

\* Without a crash and with resume files that can be written, no error loses a
\* file the service has created: it is complete, reported, or can be resumed.
THEOREM UnfinishedIsKept ==
  ASSUME StoreMayFail = FALSE, MayCrash = FALSE
  PROVE  Spec => []UnfinishedCanResume
<1>1. Init => UnfinishedCanResume
  BY DEF Init, UnfinishedCanResume
<1>2. IInv /\ UnfinishedCanResume /\ [Next]_vars => UnfinishedCanResume'
  BY UnfinishedStep
<1> QED
  BY <1>1, <1>2, Invariance, PTL DEF Spec

-----------------------------------------------------------------------------
(* The commands keep their records as ResumeRecords describes.             *)

\* The service has nothing of a file it has not created.
Unsent == \A i \in IDs : i > created => stored[i] = 0

\* Only the two steps of the service change what it has: it creates the next file,
\* empty, or takes the block after those it has, or one of these again.
LEMMA KnownStep ==
  ASSUME IInv, Unsent, [Next]_vars
  PROVE  /\ Unsent'
         /\ \E new : (new = {} \/ \E k : new = {k}) /\ Known' = Known \cup new
<1> USE UploadAssumption
<1>1. created \in 0 .. MaxIDs /\ stored \in [IDs -> 0 .. Size]
  BY DEF IInv, TypeOK, OutsideOK
<1>2. CASE CreateOk
  <2>1. PICK c : c = created + 1
    OBVIOUS
  <2>2. created < MaxIDs /\ created' = c /\ stored' = stored
    BY <1>2, <2>1 DEF CreateOk
  <2>3. c \in IDs /\ stored[c] = 0 /\ 1 .. created' = (1 .. created) \cup {c}
    BY <1>1, <2>1, <2>2 DEF Unsent, IDs
  <2>4. {c} \X (0 .. stored[c]) = {<<c, 0>>}
    BY <2>3
  <2>5. Known' = Known \cup {<<c, 0>>}
    BY <2>2, <2>3, <2>4 DEF Known
  <2>6. Unsent'
    BY <1>1, <2>1, <2>2 DEF Unsent, IDs
  <2> QED
    BY <2>5, <2>6
<1>3. CASE Send
  <2>1. PICK f : f = fileID
    OBVIOUS
  <2>2. /\ f \in 1 .. created /\ f \in IDs /\ pos \in 0 .. Size /\ pos < Size
        /\ pos <= stored[f] /\ stored[f] \in 0 .. Size
    BY <1>1, <1>3, <2>1
       DEF Send, Running, IInv, TypeOK, OutsideOK, MemoryOK, NoBlockSkipped, IDs
  <2>3. created' = created /\ stored' = [stored EXCEPT ![f] = IF @ > pos THEN @ ELSE pos + 1]
    BY <1>3, <2>1 DEF Send
  <2>4. \A i \in IDs \ {f} : stored'[i] = stored[i]
    BY <1>1, <2>3
  <2>5. CASE stored[f] > pos
    <3>1. stored' = stored
      BY <1>1, <2>2, <2>3, <2>5
    <3>2. Known' = Known \cup {} /\ Unsent'
      BY <2>3, <3>1 DEF Known, Unsent
    <3> QED
      BY <3>2
  <2>6. CASE ~(stored[f] > pos)
    <3>1. stored[f] = pos /\ stored'[f] = pos + 1
      BY <1>1, <2>2, <2>3, <2>6
    <3>2. 0 .. stored'[f] = (0 .. stored[f]) \cup {pos + 1}
      BY <2>2, <3>1
    <3>3. \A i \in 1 .. created : i \in IDs
      BY <1>1 DEF IDs
    <3>4. Known' = Known \cup {<<f, pos + 1>>}
      BY <2>2, <2>3, <2>4, <3>2, <3>3 DEF Known
    <3>5. Unsent'
      BY <1>1, <2>2, <2>3, <2>4 DEF Unsent, IDs
    <3> QED
      BY <3>4, <3>5
  <2> QED
    BY <2>5, <2>6
<1>4. CASE ~CreateOk /\ ~Send
  <2>1. UNCHANGED <<created, stored>>
    BY <1>4 DEF Next, Step, vars, outside, Start, Login, Crash, CutShort, Restart,
       NextNew, NextRecord, NextComplete, Skip, EndCommand, SendComplete, UploadOk,
       Created, Finish, BeginResume, DirectSessionError, DirectError, ResumeError,
       RepeatError, LoginOk, LoginFails, CountdownOver, Cancelled, OutOfIntervals
  <2>2. Known' = Known \cup {} /\ Unsent'
    BY <2>1 DEF Known, Unsent
  <2> QED
    BY <2>2
<1> QED
  BY <1>2, <1>3, <1>4

\* What the service has of a file, or has been reported, it has from then on.
LEMMA FinishedStep == ASSUME IInv, Unsent, [Next]_vars PROVE Finished \subseteq Finished'
<1> USE UploadAssumption
<1>1. reported \subseteq reported'
  BY DEF Next, Step, vars, Start, Login, Crash, CutShort, Restart,
     NextNew, NextRecord, NextComplete, Skip, EndCommand, CreateOk, Send, SendComplete,
     UploadOk, Created, Finish, BeginResume, DirectSessionError, DirectError, ResumeError,
     RepeatError, LoginOk, LoginFails, CountdownOver, Cancelled, OutOfIntervals
<1>2. ASSUME NEW i \in IDs, stored[i] = Size PROVE stored'[i] = Size
  <2>1. created \in 0 .. MaxIDs /\ i \in 1 .. created
    BY <1>2 DEF Unsent, IInv, TypeOK, OutsideOK, IDs
  <2>2. <<i, Size>> \in Known'
    BY <1>2, <2>1, KnownStep DEF Known
  <2>3. Size <= stored'[i]
    BY <2>2 DEF Known
  <2>4. stored' \in [IDs -> 0 .. Size]
    BY Inductive DEF IInv, TypeOK, OutsideOK
  <2> QED
    BY <2>3, <2>4
<1> QED
  BY <1>1, <1>2 DEF Finished

\* Every step leaves the records alone, writes one, ends one of a finished file, or is
\* a crash in the middle of a rewrite, which alone damages the files.
LEMMA RecordChanges ==
  ASSUME IInv, [Next]_vars
  PROVE  \/ CutShort
         \/ /\ damaged' = damaged
            /\ \/ record' = record
               \/ \E i \in IDs : ClearRecord(i) /\ (record[i] = NoRecord \/ i \in Finished')
               \/ \E i \in IDs : \E r \in Records : WriteRecord(i, r)
<1> USE UploadAssumption
<1>1. CASE Finish
  BY <1>1 DEF Finish, IInv, TypeOK, OutsideOK, MemoryOK, IDs, Finished
<1>2. CASE NextComplete
  <2>1. PICK i \in again : (record[i] = NoRecord \/ Complete(i)) /\ ClearRecord(i)
    BY <1>2 DEF NextComplete
  <2>2. i \in IDs /\ damaged' = damaged /\ stored' = stored
    BY <1>2, <2>1 DEF NextComplete, IInv, TypeOK, WorkOK
  <2>3. ASSUME Complete(i), record[i] # NoRecord PROVE stored[i] = Size
    BY <2>2, <2>3 DEF Complete, IInv, TypeOK, OutsideOK, NoBlockSkipped
  <2> QED
    BY <2>1, <2>2, <2>3 DEF Finished
<1>3. CASE SendComplete
  <2>1. fileID \in IDs /\ [bytes |-> pos, interval |-> 0] \in Records
    BY <1>3 DEF SendComplete, IInv, TypeOK, OutsideOK, MemoryOK, IDs, Shape, Records
  <2> QED
    BY <1>3, <2>1 DEF SendComplete
<1>4. CASE Created
  <2>1. taskID \in IDs /\ [bytes |-> bytes, interval |-> interval] \in Records
    BY <1>4 DEF Created, IInv, TypeOK, OutsideOK, MemoryOK, IDs, Intervals, Done, Records
  <2> QED
    BY <1>4, <2>1 DEF Created
<1>5. CASE ~Finish /\ ~NextComplete /\ ~SendComplete /\ ~Created /\ ~CutShort
  BY <1>5 DEF Next, Step, vars, outside, Start, Login, Crash,
     NextNew, NextRecord, Skip, EndCommand, CreateOk, Send, UploadOk, BeginResume,
     DirectSessionError, DirectError, ResumeError, RepeatError, LoginOk, LoginFails,
     CountdownOver, Cancelled, OutOfIntervals
<1> QED
  BY <1>1, <1>2, <1>3, <1>4, <1>5

\* The bytes of the records before or after a step.
BytesOf(f) == [i \in IDs |-> f[i].bytes]

\* Unless the files were damaged before, the step leaves the records as they are,
\* writes one, ends one together with others that are complete, or damages the files.
LEMMA BytesStep ==
  ASSUME IInv, IInv', [Next]_vars, ~damaged,
         NEW a, a = BytesOf(record), NEW b, b = BytesOf(record')
  PROVE  \/ ~damaged' /\ Abstract!Change(a, b, Finished', FALSE)
         \/ damaged' /\ Abstract!Die(a, b)
<1> USE UploadAssumption DEF BytesOf
<1>1. /\ record \in [IDs -> Records \cup {NoRecord}]
      /\ record' \in [IDs -> Records \cup {NoRecord}]
  BY DEF IInv, TypeOK, OutsideOK
<1>2. \A r \in Records \cup {NoRecord} : r.bytes = -1 <=> r = NoRecord
  BY DEF Records, NoRecord
<1>3. ASSUME NEW lost \in SUBSET IDs, record' = Without(lost)
      PROVE  \A i \in IDs : b[i] = IF i \in lost THEN -1 ELSE a[i]
  BY <1>3 DEF Without, NoRecord
<1>4. CASE CutShort
  <2>1. damaged'
    BY <1>4 DEF CutShort
  <2>2. PICK lost \in SUBSET IDs : record' = Without(lost)
    BY <1>4 DEF CutShort
  <2> QED
    BY <1>3, <2>1, <2>2 DEF Abstract!Die, Abstract!Changed, Abstract!Lost
<1>5. CASE ~damaged' /\ record' = record
  BY <1>5 DEF Abstract!Change
<1>6. ASSUME NEW i \in IDs, ClearRecord(i), record[i] = NoRecord \/ i \in Finished',
             ~damaged', record' # record
      PROVE  Abstract!Remove(i, a, b, Finished')
  <2>1. i \in Finished' /\ record' = Without({i} \cup {j \in IDs : Complete(j)})
    BY <1>6 DEF ClearRecord
  <2>2. \A j \in IDs : b[j] = IF j \in {i} \cup {k \in IDs : Complete(k)} THEN -1 ELSE a[j]
    BY <1>3, <2>1
  <2>3. \A j \in IDs : Complete(j) => a[j] = Size
    BY DEF Complete
  <2> QED
    BY <2>1, <2>2, <2>3 DEF Abstract!Remove, Abstract!Changed, Abstract!Lost
<1>7. ASSUME NEW i \in IDs, NEW r \in Records, WriteRecord(i, r), ~damaged', record' # record
      PROVE  Abstract!Put(i, a, b)
  <2>1. record' = [record EXCEPT ![i] = r]
    BY <1>7 DEF WriteRecord
  <2>2. b[i] # -1 /\ \A j \in IDs \ {i} : b[j] = a[j]
    BY <1>1, <2>1 DEF Records
  <2> QED
    BY <2>2 DEF Abstract!Put, Abstract!Changed
<1>8. CASE ~CutShort /\ record' # record
  <2>1. (~damaged') = (~damaged)
    BY <1>8, RecordChanges
  <2>2. \/ \E i \in IDs : ClearRecord(i) /\ (record[i] = NoRecord \/ i \in Finished')
        \/ \E i \in IDs : \E r \in Records : WriteRecord(i, r)
    BY <1>8, RecordChanges
  <2> QED
    BY <1>6, <1>7, <1>8, <2>1, <2>2 DEF Abstract!Change
<1>9. CASE ~CutShort /\ record' = record
  BY <1>5, <1>9, RecordChanges
<1> QED
  BY <1>4, <1>8, <1>9

\* The upload commands implement the records of ResumeRecords, which the resume
\* files implement in their turn (ResumeStore_proofs): one is written or ended at a
\* time until a rewrite is cut short.
THEOREM UploadsKeepRecords == Spec => RecordsAsPromised
<1> USE UploadAssumption
<1>1. Init => Abstract!Init /\ Unsent
  BY DEF Init, Abstract!Init, Known, Finished, Unsent, NoRecord, IDs
<1>2. IInv /\ IInv' /\ Unsent /\ [Next]_vars => [Abstract!Next]_(Abstract!vars)
  <2> SUFFICES ASSUME IInv, IInv', Unsent, [Next]_vars PROVE Abstract!Next
    OBVIOUS
  <2>1. PICK a : a = BytesOf(record)
    OBVIOUS
  <2>2. PICK b : b = BytesOf(record')
    OBVIOUS
  <2>3. Known \subseteq Known' /\ \A k \in Known' \ Known : Known' = Known \cup {k}
    BY KnownStep
  <2>4. b \in [IDs -> 0 .. Size \cup {-1}] /\ damaged' \in BOOLEAN
    BY <2>2 DEF BytesOf, IInv, TypeOK, OutsideOK, FlagsOK, Records, NoRecord
  <2>5. \A i \in IDs : b[i] # -1 => <<i, b[i]>> \in Known'
    <3> SUFFICES ASSUME NEW i \in IDs, b[i] # -1 PROVE <<i, b[i]>> \in Known'
      OBVIOUS
    <3>1. record'[i] \in Records /\ b[i] = record'[i].bytes
      BY <2>2 DEF BytesOf, IInv, TypeOK, OutsideOK, NoRecord
    <3>2. i \in 1 .. created' /\ b[i] \in 0 .. stored'[i]
      BY <3>1 DEF IInv, TypeOK, OutsideOK, NoBlockSkipped, Records, NoRecord, IDs
    <3> QED
      BY <3>2 DEF Known
  <2>6. \/ damaged
        \/ ~damaged' /\ Abstract!Change(a, b, Finished', FALSE)
        \/ damaged' /\ Abstract!Die(a, b)
    BY <2>1, <2>2, BytesStep
  <2>7. Abstract!Step(a, b, Finished', FALSE, damaged')
    BY <2>3, <2>4, <2>5, <2>6, FinishedStep DEF Abstract!Step
  <2> QED
    BY <2>1, <2>2, <2>7 DEF Abstract!Next, BytesOf
<1>3. IInv /\ Unsent /\ [Next]_vars => Unsent'
  BY KnownStep
<1> QED
  BY <1>1, <1>2, <1>3, Invariance, PTL DEF Spec, RecordsAsPromised, Abstract!Spec
=============================================================================
