----------------------------- MODULE UploadFlow -----------------------------
(***************************************************************************)
(* The upload and resume commands of src/DioCLI/ConsoleControl.cpp: create *)
(* the file at the service, upload it block by block, wait and retry after *)
(* a connection error, log in again after a session error, and keep the    *)
(* record from which a later resume command goes on.                       *)
(*                                                                         *)
(* The service and the resume files survive a crash of the program; the    *)
(* rest is its memory.  Every task runs on a worker thread that takes it   *)
(* (WorkerThread); the worker and the caller alternate, so one program     *)
(* counter is enough: pc = "run" and "sent" are the worker's.              *)
(***************************************************************************)
EXTENDS Integers

CONSTANTS
  MaxIDs,        \* bound: files the service creates
  Size,          \* blocks of a file
  LastInterval,  \* resumeInterval5
  MaxFiles,      \* bound: files named in one command
  StoreMayFail,  \* the resume files may be impossible to lock, open or read
  MayCrash       \* the program may be killed at any point

ASSUME UploadAssumption ==
  /\ MaxIDs \in Nat \ {0} /\ Size \in Nat \ {0} /\ LastInterval \in Nat \ {0}
  /\ MaxFiles \in Nat \ {0}
  /\ StoreMayFail \in BOOLEAN /\ MayCrash \in BOOLEAN

IDs == 1 .. MaxIDs
Done == LastInterval + 1         \* resumeIntervalDone; 0 is resumeIntervalUndefined
TriesCap == 2 * LastInterval + 2 \* bound: the history variable tries stops here
Errors == {"connection", "session", "stopped", "other"}
NoRecord == [bytes |-> -1, interval |-> -1]

VARIABLES
  created,    \* the service has created the files 1 .. created
  stored,     \* the blocks of each file the service has
  record,     \* the resume files: a record of each unfinished upload
  damaged,    \* they were cut short and their index may be wrong
  pc, task,   \* where the command is, and the task it runs
  mode,       \* "direct", or "resume" in ResumeCreateFile / ResumeCurrentUpload
  repeat,     \* within RepeatLastCreateFileTask / RepeatLastUploadTask
  resuming,   \* the command is resume, not upload
  fresh,      \* files the command has still to create
  again,      \* records the command has still to resume
  fileID,     \* m_pUploadInfo->m_l64FileID
  taskID,     \* m_pTaskCreateFile->m_l64FileID
  bytes,      \* m_l64TotalUploadedBytes, in blocks
  interval,   \* m_nIntervalType of m_resumeUploadInfoData
  offset,     \* TotalUploadBytes of the UploadImpl the task was given
  pos,        \* the blocks the running attempt is past
  failed,     \* nResult # SOAP_OK in the resume loop
  retries,    \* g_nSessionRetries; what is below -1 behaves as -1
  sessErr,    \* g_bSessionError
  tries,      \* history: attempts since the last progress on this file
  reported    \* history: the files UploadFileBlocks returned 0 for

outside == <<created, stored, record, damaged>>
command == <<resuming, fresh, again>>
loop == <<mode, repeat, failed>>
session == <<retries, sessErr>>
file == <<fileID, taskID, bytes, interval>>
vars == <<outside, pc, task, command, loop, session, file, offset, pos, tries,
          reported>>

Init ==
  /\ created = 0 /\ stored = [i \in IDs |-> 0]
  /\ record = [i \in IDs |-> NoRecord] /\ damaged = FALSE
  /\ pc = "idle" /\ task = "create" /\ mode = "direct" /\ repeat = FALSE
  /\ resuming = FALSE /\ fresh = 0 /\ again = {}
  /\ fileID = 0 /\ taskID = 0 /\ bytes = 0 /\ interval = 0
  /\ offset = 0 /\ pos = 0 /\ failed = FALSE
  /\ retries = 1 /\ sessErr = FALSE
  /\ tries = 0 /\ reported = {}

-----------------------------------------------------------------------------
(* The resume files, as the commands see them.                             *)

Complete(i) == record[i].bytes = Size

Without(lost) == [i \in IDs |-> IF i \in lost THEN NoRecord ELSE record[i]]

\* What damaged files may hold of file i: nothing, its record, or another one that
\* was written since it was created, the first in any interval.
Found(i) ==
  {NoRecord, record[i]}
    \cup {r \in [bytes : 0 .. stored[i], interval : 0 .. LastInterval] :
            i <= created /\ (r.bytes = 0 \/ r.interval = 0)}

\* The records after a write to damaged files, which may be refused, or lose
\* others, or make an entry lead to an older record.
Salvaged == {f \in [IDs -> UNION {Found(i) : i \in IDs}] : \A i \in IDs : f[i] \in Found(i)}

\* Mutant of WriteRecord: the index is begun anew with each entry.
WriteAlone(i, r) ==
  \/ record' = [j \in IDs |-> IF j = i THEN r ELSE NoRecord]
  \/ StoreMayFail /\ UNCHANGED record

\* WriteResumeUploadData for an unfinished upload.
WriteRecord(i, r) ==
  \/ record' = [record EXCEPT ![i] = r]
  \/ StoreMayFail /\ UNCHANGED record
  \/ damaged /\ record' \in Salvaged

\* Mutant of ClearRecord: SaveResumeInfoFile writes an empty list.
ClearEvery(i) ==
  \/ record' = IF record[i] = NoRecord THEN record ELSE [j \in IDs |-> NoRecord]
  \/ StoreMayFail /\ UNCHANGED record

\* WriteResumeUploadData with resumeDone, which goes on to ClearResumeInfo: the
\* other records that look complete are left out as well.  In damaged files the
\* index decides which go.
ClearRecord(i) ==
  \/ record' = IF record[i] = NoRecord THEN record
               ELSE Without({i} \cup {j \in IDs : Complete(j)})
  \/ StoreMayFail /\ UNCHANGED record
  \/ damaged /\ record' \in Salvaged

-----------------------------------------------------------------------------
(* Commands.                                                               *)

\* ProcessUploadCommand and ProcessResumeCommand.  Files given to resume that
\* have no record are uploaded as usual.
Start(resume) ==
  /\ pc = "idle"
  /\ \E n \in 0 .. MaxFiles, R \in SUBSET IDs :
       /\ created + n <= MaxIDs /\ (n > 0 \/ R # {})
       /\ IF resume THEN \A i \in R : record[i] # NoRecord ELSE R = {}
       /\ fresh' = n /\ again' = R
  /\ resuming' = resume /\ taskID' = 0
  /\ pc' = "next"
  /\ UNCHANGED <<outside, task, loop, session, fileID, bytes, interval, offset,
                 pos, tries, reported>>

\* UploadFileBlocks is given a file without an ID: CreateFile.
StartCreate ==
  /\ pc' = "run" /\ task' = "create" /\ mode' = "direct" /\ repeat' = FALSE
  /\ tries' = 1

\* UploadFileBlocks runs the upload task from the blocks uploaded so far.
StartUpload(from) ==
  /\ pc' = "run" /\ task' = "upload" /\ mode' = "direct" /\ repeat' = FALSE
  /\ offset' = from /\ pos' = from /\ tries' = 1

\* Mutant of NextNew: m_l64TotalUploadedBytes is not reset.
NextNewKeepsBytes ==
  /\ pc = "next" /\ fresh > 0
  /\ fresh' = fresh - 1
  /\ fileID' = 0 /\ interval' = 0 /\ offset' = 0
  /\ StartCreate
  /\ UNCHANGED <<outside, resuming, again, session, taskID, bytes, failed, pos,
                 reported>>

NextNew ==
  /\ pc = "next" /\ fresh > 0
  /\ fresh' = fresh - 1
  /\ fileID' = 0 /\ bytes' = 0 /\ interval' = 0 /\ offset' = 0
  /\ StartCreate
  /\ UNCHANGED <<outside, resuming, again, session, taskID, failed, pos, reported>>

NextRecord ==
  /\ pc = "next"
  /\ \E i \in again :
       /\ again' = again \ {i}
       /\ record[i] # NoRecord /\ ~Complete(i)
       /\ fileID' = i /\ bytes' = record[i].bytes
       /\ interval' = record[i].interval
       /\ StartUpload(record[i].bytes)
  /\ UNCHANGED <<outside, resuming, fresh, session, taskID, failed, reported>>

\* The resume command's list was read when it started: a record that looks
\* complete is cleared, or was when another was.
NextComplete ==
  /\ pc = "next"
  /\ \E i \in again :
       /\ again' = again \ {i}
       /\ record[i] = NoRecord \/ Complete(i)
       /\ ClearRecord(i)
  /\ UNCHANGED <<created, stored, damaged, pc, task, resuming, fresh, loop, session, file,
                 offset, pos, tries, reported>>

\* The local file is missing or empty: an error like any other, on which the
\* command stops if g_bSessionError is still set, from whenever.
Skip ==
  /\ pc = "next"
  /\ \/ ~sessErr /\ fresh > 0 /\ fresh' = fresh - 1 /\ UNCHANGED again
     \/ ~sessErr /\ \E i \in again : again' = again \ {i} /\ UNCHANGED fresh
     \/ sessErr /\ (fresh > 0 \/ again # {}) /\ fresh' = 0 /\ again' = {}
  /\ UNCHANGED <<outside, pc, task, resuming, loop, session, file, offset, pos,
                 tries, reported>>

EndCommand ==
  /\ pc = "next" /\ fresh = 0 /\ again = {}
  /\ pc' = "idle"
  /\ UNCHANGED <<outside, task, command, loop, session, file, offset, pos, tries,
                 reported>>

\* UploadFileBlocks returns an error; the command goes on unless it stops there.
Return(stop) ==
  /\ pc' = "next"
  /\ fresh' = IF stop THEN 0 ELSE fresh
  /\ again' = IF stop THEN {} ELSE again
  /\ UNCHANGED resuming

-----------------------------------------------------------------------------
(* The task, on the worker thread.                                         *)

Running(t) == pc = "run" /\ task = t

\* The service creates the file and the task keeps its ID.
CreateOk ==
  /\ Running("create") /\ created < MaxIDs
  /\ created' = created + 1 /\ taskID' = created + 1
  /\ pc' = "created"
  /\ UNCHANGED <<stored, record, damaged, task, command, loop, session, fileID,
                 bytes, interval, offset, pos, tries, reported>>

\* The service takes a block.
Send ==
  /\ Running("upload") /\ pos < Size
  /\ stored' = [stored EXCEPT ![fileID] = IF @ > pos THEN @ ELSE pos + 1]
  /\ pos' = pos + 1 /\ pc' = "sent"
  /\ UNCHANGED <<created, record, damaged, task, command, loop, session, file,
                 offset, tries, reported>>

\* UpdateUploadStatus, uploadSendComplete: the interval starts over and the
\* record follows.
SendComplete ==
  /\ pc = "sent"
  /\ bytes' = pos /\ interval' = 0
  /\ WriteRecord(fileID, [bytes |-> pos, interval |-> 0])
  /\ pc' = "run" /\ tries' = 0
  /\ UNCHANGED <<created, stored, damaged, task, command, loop, session, fileID,
                 taskID, offset, pos, reported>>

\* The upload task returns SOAP_OK, to whichever of the three callers.
UploadOk ==
  /\ Running("upload") /\ pos = Size
  /\ pc' = "finish"
  /\ UNCHANGED <<outside, task, command, loop, session, file, offset, pos, tries,
                 reported>>

\* The task ends with the error e: a block that is not answered is an error of
\* the connection, and only the upload task is stopped by CTRL+C, while
\* UploadFileBlocks itself waits for it.
TaskFails(e) ==
  \/ pc = "run"
     /\ (e = "stopped" => task = "upload" /\ mode = "direct")
  \/ pc = "sent" /\ e = "connection"

-----------------------------------------------------------------------------
(* The caller, after the task.                                             *)

\* Mutant of Created: the ID is not taken over from the task.
CreatedWithoutID ==
  /\ pc = "created"
  /\ WriteRecord(taskID, [bytes |-> bytes, interval |-> interval])
  /\ StartUpload(offset)
  /\ UNCHANGED <<created, stored, damaged, command, failed, session, file, reported>>

\* Mutant of Created: the record is written before it has an ID, and ignored.
CreatedUnrecorded ==
  /\ pc = "created"
  /\ fileID' = taskID
  /\ StartUpload(offset)
  /\ UNCHANGED <<outside, command, failed, session, taskID, bytes, interval,
                 reported>>

\* CreateFile: the ID is taken from the task and recorded; UploadFileBlocks goes
\* on to the upload task.
Created ==
  /\ pc = "created"
  /\ fileID' = taskID
  /\ WriteRecord(taskID, [bytes |-> bytes, interval |-> interval])
  /\ StartUpload(offset)
  /\ UNCHANGED <<created, stored, damaged, command, failed, session, taskID,
                 bytes, interval, reported>>

\* UploadFileBlocks returns 0 and ends the record, whatever becomes of it.
Finish ==
  /\ pc = "finish"
  /\ reported' = reported \cup {fileID}
  /\ ClearRecord(fileID)
  /\ Return(FALSE)
  /\ UNCHANGED <<created, stored, damaged, task, loop, session, file, offset, pos,
                 tries>>

\* GetNextResumeIntervalType.
NextInterval(n) == IF n = Done THEN 0 ELSE n + 1

\* The task UploadFileBlocks or CreateFile ran fails with an error of the
\* connection: ResumeCurrentUpload or ResumeCreateFile begins, unless its thread
\* cannot be created.  The upload command stops for that, unless CreateFile was at
\* work, which returns the error of its task instead.
BeginResume ==
  /\ mode = "direct" /\ ~repeat /\ TaskFails("connection")
  /\ interval' = NextInterval(interval)
  /\ offset' = IF task = "upload" THEN bytes ELSE offset
  /\ sessErr' = FALSE
  /\ \/ /\ pc' = "interval" /\ mode' = "resume" /\ failed' = FALSE
        /\ UNCHANGED command
     \/ Return(task = "upload" /\ ~resuming) /\ UNCHANGED <<mode, failed>>
  /\ UNCHANGED <<outside, task, repeat, retries, fileID, taskID, bytes, pos, tries,
                 reported>>

\* A session error is retried with a new login while there are retries left.
UseRetry ==
  /\ retries' = IF retries >= 0 THEN retries - 1 ELSE retries
  /\ sessErr' = ~(retries > 0)

\* CreateFile: a session error of its own task.
DirectSessionError ==
  /\ mode = "direct" /\ ~repeat /\ task = "create" /\ TaskFails("session")
  /\ UseRetry
  /\ IF retries > 0 THEN pc' = "login" /\ UNCHANGED command ELSE Return(TRUE)
  /\ UNCHANGED <<outside, task, loop, file, offset, pos, tries, reported>>

\* Any other error of that task is returned.  UploadFileBlocks does not log in
\* again, and CTRL+C stops the upload command but not the resume command.
DirectError ==
  /\ mode = "direct" /\ ~repeat
  /\ \E e \in Errors \ {"connection"} :
       /\ ~(task = "create" /\ e = "session")
       /\ TaskFails(e)
       /\ Return(e = "stopped" /\ ~resuming)
  /\ sessErr' = FALSE
  /\ UNCHANGED <<outside, task, loop, retries, file, offset, pos, tries, reported>>

\* The task a Resume function ran fails: the upload goes on from the blocks the
\* service has confirmed, after the next interval or a login.
ResumeError ==
  /\ mode = "resume" /\ ~repeat
  /\ offset' = IF task = "upload" THEN bytes ELSE offset
  /\ failed' = TRUE
  /\ \/ /\ TaskFails("connection")
        /\ interval' = NextInterval(interval) /\ pc' = "interval"
        /\ sessErr' = FALSE /\ UNCHANGED <<retries, command>>
     \/ /\ TaskFails("session")
        /\ UseRetry
        /\ IF retries > 0
           THEN pc' = "login" /\ UNCHANGED interval
           ELSE pc' = "interval" /\ interval' = NextInterval(interval)
        /\ UNCHANGED command
     \/ /\ TaskFails("other")
        /\ Return(FALSE)
        /\ sessErr' = FALSE /\ UNCHANGED <<retries, interval>>
  /\ UNCHANGED <<outside, task, mode, repeat, fileID, taskID, bytes, pos, tries,
                 reported>>

\* Mutant of RepeatEnds: the resume loop waits for the same interval again.
RepeatEndsAgain ==
  IF mode = "direct"
  THEN Return(FALSE) /\ UNCHANGED interval
  ELSE pc' = "interval" /\ UNCHANGED <<interval, command>>

\* RepeatLastCreateFileTask or RepeatLastUploadTask returns an error.
RepeatEnds ==
  IF mode = "direct"
  THEN Return(FALSE) /\ UNCHANGED interval
  ELSE pc' = "interval" /\ interval' = NextInterval(interval) /\ UNCHANGED command

RepeatError ==
  /\ repeat /\ \E e \in Errors : TaskFails(e)
  /\ repeat' = FALSE
  /\ RepeatEnds
  /\ UNCHANGED <<outside, task, mode, failed, session, fileID, taskID, bytes,
                 offset, pos, tries, reported>>

\* The same task once more.
RunAgain ==
  /\ pc' = "run" /\ pos' = offset
  /\ tries' = IF tries < TriesCap THEN tries + 1 ELSE tries

LoginOk ==
  /\ pc = "login"
  /\ retries' = 1 /\ repeat' = TRUE
  /\ RunAgain
  /\ UNCHANGED <<outside, task, command, mode, failed, sessErr, file, offset,
                 reported>>

LoginFails ==
  /\ pc = "login"
  /\ RepeatEnds
  /\ UNCHANGED <<outside, task, loop, session, fileID, taskID, bytes, offset, pos,
                 tries, reported>>

\* ResumeCountdown runs out, and the file has not changed.
CountdownOver ==
  /\ pc = "interval" /\ interval \in 1 .. LastInterval
  /\ RunAgain
  /\ UNCHANGED <<outside, task, command, loop, session, file, offset, reported>>

\* A key is pressed during the countdown, or the file has changed: the error of
\* the first attempt is returned.  There is no countdown for the interval 0.
Cancelled ==
  /\ pc = "interval" /\ interval < Done
  /\ Return(sessErr)
  /\ UNCHANGED <<outside, task, loop, session, file, offset, pos, tries, reported>>

\* Mutant of OutOfIntervals: ResumeCurrentUpload drops the last error.
OutOfIntervalsOk ==
  /\ pc = "interval" /\ interval = Done
  /\ IF task = "create"
     THEN Return(sessErr)
     ELSE pc' = "finish" /\ UNCHANGED command
  /\ UNCHANGED <<outside, task, loop, session, file, offset, pos, tries, reported>>

\* The resume loop ends without success; nResult, still 0 when the loop made no
\* attempt, is what it returns.
OutOfIntervals ==
  /\ pc = "interval" /\ interval = Done
  /\ IF failed
     THEN Return(sessErr)
     ELSE pc' = (IF task = "create" THEN "created" ELSE "finish") /\ UNCHANGED command
  /\ UNCHANGED <<outside, task, loop, session, file, offset, pos, tries, reported>>

-----------------------------------------------------------------------------
\* LoginUser, between the commands.
Login ==
  /\ pc = "idle" /\ retries' = 1
  /\ UNCHANGED <<outside, pc, task, command, loop, sessErr, file, offset, pos,
                 tries, reported>>

\* The program is killed and started again.
Restart ==
  /\ pc' = "idle" /\ task' = "create" /\ mode' = "direct" /\ repeat' = FALSE
  /\ resuming' = FALSE /\ fresh' = 0 /\ again' = {}
  /\ fileID' = 0 /\ taskID' = 0 /\ bytes' = 0 /\ interval' = 0
  /\ offset' = 0 /\ pos' = 0 /\ failed' = FALSE
  /\ retries' = 1 /\ sessErr' = FALSE /\ tries' = 0
  /\ UNCHANGED <<created, stored, reported>>

Crash == MayCrash /\ Restart /\ UNCHANGED <<record, damaged>>

\* A new record, and the end of one, open the index or both of the resume files
\* for overwriting; the record of a running upload is written in its place.
Rewrites ==
  \/ pc = "created"
  \/ pc = "sent" /\ record[fileID] = NoRecord
  \/ pc = "finish" /\ record[fileID] # NoRecord
  \/ pc = "next" /\ \E i \in again : record[i] # NoRecord /\ Complete(i)

\* The program is killed after a file was truncated and before it is complete:
\* any of the records may be gone, and others later (ResumeStore shows how).
CutShort ==
  /\ MayCrash /\ Rewrites
  /\ damaged' = TRUE
  /\ IF damaged THEN record' \in Salvaged ELSE \E lost \in SUBSET IDs : record' = Without(lost)
  /\ Restart

Step ==
  \/ NextNew \/ NextRecord \/ NextComplete \/ Skip \/ EndCommand
  \/ CreateOk \/ Send \/ SendComplete \/ UploadOk \/ Created \/ Finish
  \/ BeginResume \/ DirectSessionError \/ DirectError \/ ResumeError
  \/ RepeatError \/ LoginOk \/ LoginFails \/ CountdownOver \/ Cancelled
  \/ OutOfIntervals

Next == (\E r \in BOOLEAN : Start(r)) \/ Login \/ Step \/ Crash \/ CutShort

Spec == Init /\ [][Next]_vars

\* Every task ends, with the timeouts of the SDK at the latest, and so does
\* every countdown.
FairSpec == Spec /\ WF_vars(Step)
=============================================================================
