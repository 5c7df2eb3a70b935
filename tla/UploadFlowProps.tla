-------------------------- MODULE UploadFlowProps --------------------------
(***************************************************************************)
(* What the upload and resume commands promise about the files at the      *)
(* service and the records they keep of them.                              *)
(***************************************************************************)
EXTENDS UploadFlow

Records == [bytes : 0 .. Size, interval : 0 .. LastInterval]

\* The service and the resume files: no record holds resumeIntervalDone, from
\* which GetNextResumeIntervalType would go back to the interval without countdown.
OutsideOK ==
  /\ created \in 0 .. MaxIDs
  /\ stored \in [IDs -> 0 .. Size]
  /\ record \in [IDs -> Records \cup {NoRecord}]

\* The memory of the program: a block is only ever sent to a file the service has
\* created.
MemoryOK ==
  /\ pc \in {"idle", "next", "run", "sent", "created", "finish", "login", "interval"}
  /\ task \in {"create", "upload"} /\ mode \in {"direct", "resume"}
  /\ fileID \in 0 .. created /\ taskID \in 0 .. created
  /\ (pc \in {"run", "sent"} /\ task = "upload") \/ pc = "finish" => fileID > 0
  /\ pc = "created" => taskID > 0
  /\ bytes \in 0 .. Size /\ interval \in 0 .. Done
  /\ offset \in 0 .. Size /\ pos \in 0 .. Size
  /\ retries \in -1 .. 1
  /\ tries \in 0 .. TriesCap
  /\ reported \subseteq 1 .. created

WorkOK == fresh \in 0 .. MaxFiles /\ again \subseteq IDs

FlagsOK ==
  /\ repeat \in BOOLEAN /\ resuming \in BOOLEAN
  /\ failed \in BOOLEAN /\ sessErr \in BOOLEAN
  /\ damaged \in BOOLEAN /\ (damaged => MayCrash)

\* The type invariant.
TypeOK == OutsideOK /\ MemoryOK /\ WorkOK /\ FlagsOK

\* No block is skipped: an attempt never starts behind a block the service does
\* not have, and neither would one that starts from a record, after any crash
\* and with any record that could not be written.
NoBlockSkipped ==
  /\ \A i \in IDs : record[i] # NoRecord => i <= created /\ record[i].bytes <= stored[i]
  /\ task = "upload" /\ pc \in {"run", "sent", "login", "interval"}
       => /\ offset <= stored[fileID] /\ pos <= stored[fileID]
          /\ bytes <= stored[fileID]

\* A file that is reported as uploaded is at the service, except when the retry
\* intervals were used up before ResumeCurrentUpload made its first attempt.
SuccessUnlessSpent ==
  pc = "finish" => stored[fileID] = Size \/ (interval = Done /\ ~failed)

\* A resume does not go on for ever: between two signs of progress there are at
\* most two attempts for each interval, one of them after a login.
AttemptsBounded == tries <= 2 * LastInterval + 1

\* A record disappears only when its file is at the service or has been
\* reported as uploaded (ClearResumeInfo drops other records too), or when the
\* program is killed while it rewrites the resume files, and from then on.
RecordsLeaveFinished ==
  [][\/ damaged
     \/ \A i \in IDs : record[i] # NoRecord /\ record'[i] = NoRecord
                         => stored[i] = Size \/ i \in reported'
     \/ CutShort]_vars

\* With working resume files and no crash, every file the service has created
\* is complete there, reported as uploaded, or can be resumed, whatever error
\* ended the command.
UnfinishedCanResume ==
  \A i \in 1 .. created :
    \/ stored[i] = Size \/ i \in reported \/ record[i] # NoRecord
    \/ (pc = "created" /\ taskID = i)

\* The bytes of each file that can be recorded of it: what the service has.
Known == UNION {{i} \X (0 .. stored[i]) : i \in 1 .. created}

\* The files whose record may be ended: UploadFileBlocks reports one that is not at
\* the service when the retry intervals were used up before (SuccessUnlessSpent).
Finished == {i \in IDs : stored[i] = Size} \cup reported

\* The commands use the resume files as these promise to behave (ResumeStore does):
\* one record is written or ended at a time, except by a crash in the middle and
\* from then on, and none tells of blocks the service does not have.
Abstract == INSTANCE ResumeRecords
              WITH NoRecord <- -1, record <- [i \in IDs |-> record[i].bytes],
                   known <- Known, finished <- Finished, gone <- FALSE
RecordsAsPromised == Abstract!Spec

\* Every command ends, whatever the service and the network do.
CommandEnds == (pc # "idle") ~> (pc = "idle")

-----------------------------------------------------------------------------
\* UploadFileBlocks returns "0 if successful, error code otherwise": what it
\* returns 0 for is at the service.
SuccessMeansUploaded == \A i \in reported : stored[i] = Size
=============================================================================
