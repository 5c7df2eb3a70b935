----------------------------- MODULE ResumeStore -----------------------------
(***************************************************************************)
(* The resume files of the uploads, ResumeUploads.dat and .idx, and the    *)
(* DioCLI processes that read and rewrite them with ResumeManager          *)
(* (src/DioCLI/ResumeManager.cpp).  One public method of ResumeManager is  *)
(* one step, as if its lock excluded the other processes; ResumeLock says  *)
(* when it does.                                                           *)
(*                                                                         *)
(* A data file is a sequence of cells.  A record is a line of Length[i]    *)
(* cells; an index entry has its position, the number of cells before it,  *)
(* and its size.  A cell stands for several characters.                    *)
(***************************************************************************)
EXTENDS Naturals, Sequences, FiniteSetsExt, Functions

CONSTANTS
  Procs,        \* the DioCLI processes of the user
  IDs,          \* file IDs the service gives out
  NoFile,       \* no file ID
  Length,       \* the length of the record of each file, in cells
  Size,         \* the size of a file
  MaxCells,     \* bound: the cells of the data file
  MaxEntries,   \* bound: the entries of the index
  MayCrash,     \* a process may die inside a method
  ClearsBehind  \* a user may clear the files while another DioCLI has read them

ASSUME StoreAssumption ==
  /\ NoFile \notin IDs \cup (0 .. Size)
  /\ Length \in [IDs -> Nat \ {0}]
  /\ Size \in Nat \ {0} /\ MaxCells \in Nat /\ MaxEntries \in Nat
  /\ MayCrash \in BOOLEAN /\ ClearsBehind \in BOOLEAN

VARIABLES
  dat,      \* the data file
  idx,      \* the index file
  list,     \* m_listResumeIndexInfo of each process
  cmd,      \* the command each process executes
  cur,      \* m_resumeUploadInfoData; its index is 0 where the code has -1
  pend,     \* the records the resume command has still to handle
  again,    \* ConsoleControl::WriteResumeUploadData pauses before its retry
  res,      \* what the last write of a record returned
  created,  \* the files the service has created
  counted   \* history: the records that were to be written, with their bytes

vars == <<dat, idx, list, cmd, cur, pend, again, res, created, counted>>

None == [id |-> NoFile, bytes |-> 0, index |-> 0, done |-> FALSE]

Missing == [state |-> "missing", body |-> <<>>]
Old == [state |-> "old", body |-> <<>>]            \* of a version below RESUME_FILE_VER
Emptied == [state |-> "empty", body |-> <<>>]
Written(s) == [state |-> "written", body |-> s]

(***************************************************************************)
(* The text of the data file                                               *)
(***************************************************************************)
Cell(kind) == [kind |-> kind, id |-> NoFile, bytes |-> 0, at |-> 0]
Header == <<Cell("header")>>
Pad == Cell("pad")      \* the blanks of GetPadStr and the newline after them
Hole == Cell("hole")    \* never written, before text that was written past the end

\* The k-th cell of the line of record r.
TextCell(r, k) == [kind |-> "text", id |-> r.id, bytes |-> r.bytes, at |-> k]

\* Serialize: the line of record r, padded to at least n cells.
Text(r, n) ==
  [k \in 1 .. Max({Length[r.id], n}) |-> IF k <= Length[r.id] THEN TextCell(r, k) ELSE Pad]

\* fwrite of the line t after the first pos cells of s.
Overlay(s, pos, t) ==
  [k \in 1 .. Max({Len(s), pos + Len(t)}) |->
     IF k \in pos + 1 .. pos + Len(t) THEN t[k - pos]
     ELSE IF k <= Len(s) THEN s[k] ELSE Hole]

\* Deserialize: a line begins at cell k, and is complete.
LineAt(s, k) ==
  /\ k \in 1 .. Len(s) /\ s[k].kind = "text"
  /\ k + Length[s[k].id] <= Len(s) + 1
  /\ \A j \in 1 .. Length[s[k].id] : s[k + j - 1] = TextCell(s[k], j)

\* ResumeInfoFileReadString and Deserialize: what is read after the first pos
\* cells.  The scan skips blanks, and must then find the start of a line.
Starts(s, pos) ==
  {k \in pos + 1 .. Len(s) : LineAt(s, k) /\ \A j \in pos + 1 .. k - 1 : s[j] = Pad}

ReadAt(s, pos) ==
  LET k == Min(Starts(s, pos))
  IN  IF Starts(s, pos) = {} THEN None
      ELSE [None EXCEPT !.id = s[k].id, !.bytes = s[k].bytes]

\* The records the entries l lead to in s, by the index of their entry.
Records(s, l) ==
  [k \in {j \in DOMAIN l : ReadAt(s, l[j].pos) # None} |->
     [ReadAt(s, l[k].pos) EXCEPT !.index = k]]

NoRecords == [k \in {} |-> None]

(***************************************************************************)
(* The methods.  Each gives its outcome: the files, the list in memory and *)
(* the result; whether it is a first run; what was read into               *)
(* m_listResumeUploadInfo; and the index of the record that is written.    *)
(***************************************************************************)
Outcome(d, x, l, index, result) ==
  [dat |-> d, idx |-> x, list |-> l, index |-> index, result |-> result,
   first |-> FALSE, infos |-> NoRecords]

Opened(d, x, l, first, result) == [Outcome(d, x, l, 0, result) EXCEPT !.first = first]

\* Mutant of OpenResumeData: an index file that is there is not read again.
OpenWithoutReading(d, x, l) ==
  IF d.state \in {"missing", "empty"} THEN Opened(Emptied, x, l, TRUE, "ok")
                                      ELSE Opened(d, x, l, FALSE, "ok")

OpenResumeData(d, x, l) ==
  CASE d.state \in {"missing", "empty"} -> Opened(Emptied, x, l, TRUE, "ok")
    [] d.state = "old" -> Opened(Missing, Missing, l, FALSE, "ok")
    [] d.state = "written" ->
         CASE x.state = "old" -> Opened(Missing, Missing, <<>>, FALSE, "ok")
           [] x.state = "missing" -> Opened(d, Emptied, <<>>, FALSE, "ok")
           [] x.state = "empty" -> Opened(d, x, <<>>, FALSE, "no more data")
           [] x.state = "written" -> Opened(d, x, x.body, FALSE, "ok")

LoadResumeInfo(d, x, l) ==
  LET o == OpenResumeData(d, x, l)
      result == IF o.result = "ok" /\ o.first THEN "no match"
                ELSE IF o.dat.state = "missing" THEN "open error" ELSE o.result
  IN  [o EXCEPT !.result = result,
                !.infos = IF result = "ok" THEN Records(o.dat.body, o.list) ELSE NoRecords]

\* ReadResumeUploadDataByFileID: the index of record r may have changed.
ReadByFileID(d, x, l, r) ==
  LET o == LoadResumeInfo(d, x, l)
      same == {k \in DOMAIN o.infos : o.infos[k].id = r.id}
      Read(result, index) == [o EXCEPT !.result = result, !.index = index]
  IN  IF o.result # "ok" \/ r.index = 0 THEN Read(o.result, r.index)
      ELSE IF DOMAIN o.infos = {} THEN Read("no more data", 0)
      ELSE IF same = {} THEN Read("no match", 0)
      ELSE Read("ok", Min(same))

(***************************************************************************)
(* The writes.  Each is the set of its outcomes.  The outcome "died" is    *)
(* that of a process that dies between two writes to the files.            *)
(***************************************************************************)
Died(d, x) == Outcome(d, x, <<>>, 0, "died")

\* A record at the end of a file, with a new entry of its own.
WithRecord(file, r) ==
  [body |-> file.body \o Text(r, 0),
   list |-> Append(file.list, [pos |-> Len(file.body), len |-> Length[r.id]])]

\* ApplyToEachResumeUploadInfo: the file with the records kept of the first k of n entries.
Rewritten(kept, n) ==
  LET file[k \in 0 .. n] ==
        IF k = 0 THEN [body |-> Header, list |-> <<>>]
        ELSE IF k \in DOMAIN kept THEN WithRecord(file[k - 1], kept[k]) ELSE file[k - 1]
  IN  file

\* SaveResumeInfoFile of the records kept: the header reaches the file when the end
\* of it is looked for, to put the first record there, or when it is closed.
Saved(x, file, kept, n, index) ==
  LET Data(k) == Written(file[k].body)
      entries == Written(file[n].list)
      flushed == IF DOMAIN kept = {} THEN Emptied ELSE Data(n)
      reached == IF DOMAIN kept = {} THEN {} ELSE {0} \cup DOMAIN kept
  IN  {Outcome(Data(n), entries, file[n].list, index, "ok"),
       Died(Emptied, x), Died(flushed, Emptied), Died(flushed, entries)}
        \cup {Died(Data(k), x) : k \in reached}

\* Mutant of ClearResumeInfo: what comes after the record is not kept.
ClearBehind(d, x, l, n) ==
  LET o == OpenResumeData(d, x, l)
      infos == Records(o.dat.body, o.list)
      kept == Restrict(infos, {k \in DOMAIN infos : k < n /\ infos[k].bytes # Size})
      file == Rewritten(kept, Len(o.list))
  IN  IF o.result # "ok" THEN {Outcome(o.dat, o.idx, o.list, n, o.result)}
      ELSE IF n = 0 THEN {Outcome(o.dat, Written(o.list), o.list, n, "ok")}
      ELSE IF n > Len(o.list) THEN {Outcome(o.dat, o.idx, o.list, n, "locked")}
      ELSE Saved(o.idx, file, kept, Len(o.list), n)

\* ClearResumeInfo of the record with index n: the others are kept that can be
\* read and are not complete.
ClearResumeInfo(d, x, l, n) ==
  LET o == OpenResumeData(d, x, l)
      infos == Records(o.dat.body, o.list)
      kept == Restrict(infos, {k \in DOMAIN infos : o.list[k] # o.list[n]
                                                    /\ infos[k].bytes # Size})
      file == Rewritten(kept, Len(o.list))
  IN  IF o.result # "ok" THEN {Outcome(o.dat, o.idx, o.list, n, o.result)}
      ELSE IF n = 0 THEN {Outcome(o.dat, Written(o.list), o.list, n, "ok")}
      ELSE IF n > Len(o.list) THEN {Outcome(o.dat, o.idx, o.list, n, "locked")}
      ELSE Saved(o.idx, file, kept, Len(o.list), n)

\* Mutant of Appended: the index is only changed in memory.
AppendedUnindexed(body, x, file) ==
  {Outcome(Written(file.body), x, file.list, Len(file.list), "ok")}

\* A new record is entered in the index before it is written.
Appended(body, x, file) ==
  {Outcome(Written(file.body), Written(file.list), file.list, Len(file.list), "ok"),
   Died(Written(body), x), Died(Written(body), Emptied),
   Died(Written(body), Written(file.list))}

\* The rest of WriteResumeUploadData, after ReadByFileID has returned o.
Stored(o, r, body) ==
  LET slot == o.list[o.index]
      Result(s, result) == {Outcome(Written(s), o.idx, o.list, o.index, result)}
  IN  IF o.index > Len(o.list) THEN Result(body, "locked")
      ELSE IF o.index = 0
      THEN Appended(body, o.idx, WithRecord([body |-> body, list |-> o.list], r))
      ELSE IF slot.len < Length[r.id] THEN Result(body, "no room")
      ELSE Result(Overlay(body, slot.pos, Text(r, slot.len)), "ok")

\* Mutant of WriteResumeUploadData: a file that is done is recorded like others.
WriteWithoutClearing(d, x, l, r) ==
  LET o == ReadByFileID(d, x, l, r)
  IN  IF o.result = "open error" THEN {Outcome(o.dat, o.idx, o.list, o.index, o.result)}
      ELSE Stored(o, r, IF o.first THEN Header ELSE o.dat.body)

WriteResumeUploadData(d, x, l, r) ==
  LET o == ReadByFileID(d, x, l, r)
  IN  IF o.result = "open error" \/ (r.done /\ o.result # "ok")
      THEN {Outcome(o.dat, o.idx, o.list, o.index, o.result)}
      ELSE IF r.done THEN ClearResumeInfo(o.dat, o.idx, o.list, o.index)
      ELSE Stored(o, r, IF o.first THEN Header ELSE o.dat.body)

(***************************************************************************)
(* The commands                                                            *)
(***************************************************************************)
Init ==
  /\ \E file \in {Missing, Old} : dat = file /\ idx = file
  /\ list = [p \in Procs |-> <<>>]
  /\ cmd = [p \in Procs |-> "none"]
  /\ cur = [p \in Procs |-> None]
  /\ pend = [p \in Procs |-> NoRecords]
  /\ again = [p \in Procs |-> FALSE]
  /\ res = [p \in Procs |-> "ok"]
  /\ created = {} /\ counted = {}

\* The upload command begins; what OpenResumeData returns is only printed.
StartUpload(p) ==
  /\ cmd[p] = "none"
  /\ LET o == OpenResumeData(dat, idx, list[p])
     IN  dat' = o.dat /\ idx' = o.idx /\ list' = [list EXCEPT ![p] = o.list]
  /\ cmd' = [cmd EXCEPT ![p] = "upload"]
  /\ UNCHANGED <<cur, pend, again, res, created, counted>>

\* Load(resumeUploads), which ends with the files closed and the list cleared,
\* unless it is a first run.
Load(p, d, x, l) ==
  LET o == LoadResumeInfo(d, x, l)
  IN  /\ dat' = o.dat /\ idx' = o.idx
      /\ list' = [list EXCEPT ![p] = IF o.first THEN o.list ELSE <<>>]
      /\ pend' = [pend EXCEPT ![p] = IF cmd'[p] = "resume" THEN o.infos ELSE NoRecords]

\* The resume command begins with all the records there are.
StartResume(p) ==
  /\ cmd[p] = "none"
  /\ cmd' = [cmd EXCEPT ![p] = "resume"]
  /\ LET o == OpenResumeData(dat, idx, list[p]) IN Load(p, o.dat, o.idx, o.list)
  /\ UNCHANGED <<cur, again, res, created, counted>>

\* It begins with the records of the files it is given; one that has none is
\* uploaded as by the upload command.
StartResumeOf(p) ==
  /\ cmd[p] = "none"
  /\ cmd' = [cmd EXCEPT ![p] = "resume"]
  /\ LET o == OpenResumeData(dat, idx, list[p])
         infos == Records(o.dat.body, o.list)
     IN  /\ dat' = o.dat /\ idx' = o.idx /\ list' = [list EXCEPT ![p] = o.list]
         /\ \E files \in SUBSET IDs \ {{}} :
              pend' = [pend EXCEPT ![p] =
                         Restrict(infos, {k \in DOMAIN infos : infos[k].id \in files})]
  /\ UNCHANGED <<cur, again, res, created, counted>>

\* The resume command only lists the records.
ListRecords(p) ==
  /\ cmd[p] = "none" /\ cmd' = cmd
  /\ Load(p, dat, idx, list[p])
  /\ UNCHANGED <<cur, again, res, created, counted>>

\* Mutant of NextWrites: a block that was uploaded already is counted again.
NextWritesTwice(p) ==
  IF again[p] THEN {cur[p]}
  ELSE IF cur[p] # None THEN {[cur[p] EXCEPT !.bytes = @ + 1], [cur[p] EXCEPT !.done = TRUE]}
  ELSE IF cmd[p] = "upload" THEN {[None EXCEPT !.id = i] : i \in IDs \ created} ELSE {}

\* The writes process p may do next: of a file the service has just created,
\* of a block that was uploaded, of a file that is done.
NextWrites(p) ==
  IF again[p] THEN {cur[p]}
  ELSE IF cur[p] # None
  THEN {IF cur[p].bytes < Size THEN [cur[p] EXCEPT !.bytes = @ + 1]
                               ELSE [cur[p] EXCEPT !.done = TRUE]}
  ELSE IF cmd[p] = "upload" THEN {[None EXCEPT !.id = i] : i \in IDs \ created} ELSE {}

\* How such a write may end, within the bounds of the files.
Outcomes(p, r) ==
  {w \in WriteResumeUploadData(dat, idx, list[p], r) :
     Len(w.dat.body) <= MaxCells /\ Len(w.idx.body) <= MaxEntries}

\* ConsoleControl::WriteResumeUploadData: one retry, after a pause.
WriteRecord(p) ==
  \E r \in NextWrites(p) : \E w \in Outcomes(p, r) :
    LET retry == ~again[p] /\ w.result \in {"locked", "no match"}
    IN  /\ w.result # "died"
        /\ dat' = w.dat /\ idx' = w.idx /\ list' = [list EXCEPT ![p] = w.list]
        /\ again' = [again EXCEPT ![p] = retry]
        /\ cur' = [cur EXCEPT ![p] = IF r.done /\ ~retry THEN None
                                     ELSE [r EXCEPT !.index = w.index]]
        /\ res' = [res EXCEPT ![p] = w.result]
        /\ created' = created \cup {r.id}
        /\ counted' = counted \cup {<<r.id, r.bytes>>}
        /\ UNCHANGED <<cmd, pend>>

\* The resume command takes its next record.
NextRecord(p) ==
  /\ cmd[p] = "resume" /\ cur[p] = None /\ DOMAIN pend[p] # {}
  /\ LET k == Min(DOMAIN pend[p])
     IN  /\ cur' = [cur EXCEPT ![p] = pend[p][k]]
         /\ pend' = [pend EXCEPT ![p] = Restrict(@, DOMAIN @ \ {k})]
  /\ UNCHANGED <<dat, idx, list, cmd, again, res, created, counted>>

\* The upload of a file fails for good: its record stays.
GiveUp(p) ==
  /\ cur[p] # None /\ ~again[p]
  /\ cur' = [cur EXCEPT ![p] = None]
  /\ UNCHANGED <<dat, idx, list, cmd, pend, again, res, created, counted>>

EndCommand(p) ==
  /\ cmd[p] # "none" /\ cur[p] = None
  /\ cmd' = [cmd EXCEPT ![p] = "none"]
  /\ pend' = [pend EXCEPT ![p] = NoRecords]
  /\ UNCHANGED <<dat, idx, list, cur, again, res, created, counted>>

\* ClearResumeFiles of all uploads: the index is only deleted after the data.
ClearFiles(p) ==
  /\ cmd[p] = "none"
  /\ ClearsBehind \/ \A q \in Procs \ {p} : list[q] = <<>> /\ cur[q] = None /\ pend[q] = NoRecords
  /\ list' = [list EXCEPT ![p] = <<>>]
  /\ dat' = Missing /\ idx' = IF dat.state = "missing" THEN idx ELSE Missing
  /\ UNCHANGED <<cmd, cur, pend, again, res, created, counted>>

\* The memory of a process that ends, or dies, and is started again.
Restarted(p) ==
  /\ list' = [list EXCEPT ![p] = <<>>]
  /\ cmd' = [cmd EXCEPT ![p] = "none"]
  /\ cur' = [cur EXCEPT ![p] = None]
  /\ pend' = [pend EXCEPT ![p] = NoRecords]
  /\ again' = [again EXCEPT ![p] = FALSE]
  /\ res' = [res EXCEPT ![p] = "ok"]

Quit(p) == Restarted(p) /\ UNCHANGED <<dat, idx, created, counted>>

\* A process dies between two writes to the files.
DieInWrite(p) ==
  /\ MayCrash
  /\ \E r \in NextWrites(p) : \E w \in Outcomes(p, r) :
       /\ w.result = "died"
       /\ dat' = w.dat /\ idx' = w.idx
       /\ created' = created \cup {r.id}
       /\ counted' = counted \cup {<<r.id, r.bytes>>}
  /\ Restarted(p)

DieInClearFiles(p) ==
  /\ MayCrash /\ cmd[p] = "none" /\ dat.state # "missing"
  /\ ClearsBehind \/ \A q \in Procs \ {p} : list[q] = <<>> /\ cur[q] = None /\ pend[q] = NoRecords
  /\ dat' = Missing /\ UNCHANGED <<idx, created, counted>>
  /\ Restarted(p)

Next ==
  \E p \in Procs :
    \/ StartUpload(p) \/ StartResume(p) \/ StartResumeOf(p) \/ ListRecords(p)
    \/ WriteRecord(p) \/ NextRecord(p) \/ GiveUp(p) \/ EndCommand(p)
    \/ ClearFiles(p) \/ Quit(p) \/ DieInWrite(p) \/ DieInClearFiles(p)

Spec == Init /\ [][Next]_vars
=============================================================================
