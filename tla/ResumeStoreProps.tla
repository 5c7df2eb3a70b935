-------------------------- MODULE ResumeStoreProps --------------------------
(***************************************************************************)
(* What the resume files must satisfy.                                     *)
(***************************************************************************)
EXTENDS ResumeStore

Cells ==
  [kind : {"text"}, id : IDs, bytes : 0 .. Size, at : Nat]
    \cup [kind : {"header", "pad", "hole"}, id : {NoFile}, bytes : {0}, at : {0}]
Entries == [pos : Nat, len : Nat \ {0}]
States == {"missing", "old", "empty", "written"}
Files(body) == {f \in [state : States, body : body] : f.state = "written" \/ f.body = <<>>}
Info ==
  {None} \cup [id : IDs, bytes : 0 .. Size, index : 0 .. MaxEntries, done : BOOLEAN]
Results == {"ok", "no match", "no more data", "open error", "locked", "no room"}

\* Some of the records of a file, by the index of their entries.
Infos(f) ==
  /\ DOMAIN f \subseteq 1 .. MaxEntries
  /\ \A k \in DOMAIN f : f[k] \in Info /\ f[k] # None /\ f[k].index = k

\* Types and the bounds of the files.
TypeOK ==
  /\ dat \in Files(Seq(Cells)) /\ Len(dat.body) <= MaxCells
  /\ idx \in Files(Seq(Entries)) /\ Len(idx.body) <= MaxEntries
  /\ list \in [Procs -> Seq(Entries)] /\ pend = [p \in Procs |-> pend[p]]
  /\ \A p \in Procs : Len(list[p]) <= MaxEntries /\ Infos(pend[p])
  /\ cmd \in [Procs -> {"none", "upload", "resume"}]
  /\ cur \in [Procs -> Info]
  /\ again \in [Procs -> BOOLEAN]
  /\ res \in [Procs -> Results]
  /\ created \subseteq IDs

\* The bytes of each file that the entries l lead to in s: the first entry counts.
RecordedIn(s, l) ==
  LET entry == [k \in DOMAIN l |-> ReadAt(s, l[k].pos)]
      Of(i) == {k \in DOMAIN l : entry[k].id = i}
  IN  [i \in IDs |-> IF Of(i) = {} THEN NoFile ELSE entry[Min(Of(i))].bytes]

\* What a DioCLI started now would find.
Recorded == RecordedIn(dat.body, idx.body)

\* The entries l are the lines of s, one after the other and nothing else, each of
\* a different file.
Exact(s, l) ==
  LET End(k) == IF k = 0 THEN Len(Header) ELSE l[k].pos + l[k].len
      Id(k) == s[l[k].pos + 1].id
  IN  /\ Len(s) = End(Len(l))
      /\ \A k \in DOMAIN l :
           l[k].pos = End(k - 1) /\ LineAt(s, l[k].pos + 1) /\ l[k].len = Length[Id(k)]
      /\ \A j, k \in DOMAIN l : Id(j) = Id(k) => j = k

\* The index tells exactly what is in the data file.
IndexExact ==
  IF dat.state = "written" THEN Exact(dat.body, idx.body) ELSE idx.state # "written"

\* What no method of ResumeManager disturbs: an exact index, and no entries in
\* memory of files that are gone, since a first run does not forget them.
Consistent == IndexExact /\ (dat.state # "written" => \A p \in Procs : list[p] = <<>>)

\* From files that are consistent, and to such, one record is written at a time; it
\* is removed when the write of all bytes of its file was to be recorded, with those
\* of other complete files; or the data file is gone or emptied.  Other records are
\* only lost by a step that makes the files inconsistent (StaysConsistent says which).
Abstract == INSTANCE ResumeRecords
              WITH NoRecord <- NoFile, record <- Recorded, known <- counted,
                   finished <- {i \in IDs : <<i, Size>> \in counted},
                   gone <- dat.state # "written", damaged <- ~Consistent
ImplementsRecords == Abstract!Spec

\* Only a process that dies inside a method leaves the files, or the lists of
\* the others, inconsistent.
StaysConsistent ==
  [][Consistent /\ ~Consistent' => \E p \in Procs : DieInWrite(p) \/ DieInClearFiles(p)]_vars

\* The entries are in the order of their positions.
InOrder == \A j, k \in DOMAIN idx.body : j < k => idx.body[j].pos <= idx.body[k].pos

\* A write that returned 0 can be read back, damaged files or not, unless it
\* began with a first run that did not forget the entries in memory, or with an
\* index that is out of order: a process that dies while it rewrites the files
\* leaves the old index, and an entry added to it has the end of the new file.
WriteReadsBack ==
  [][\A p \in Procs, i \in IDs :
       /\ res'[p] = "ok" /\ cur'[p].id = i /\ WriteRecord(p)
       /\ IF dat.state = "written" THEN InOrder ELSE list[p] = <<>>
       => Recorded'[i] = cur'[p].bytes]_vars

\* When the files were consistent, no process finds the record of a file after
\* its removal has returned 0, unless the index of the record had been lost: the
\* retry of a removal that found no record returns 0 without another look.
FinishedIsForgotten ==
  [][\A p \in Procs, i \in IDs :
       /\ Consistent
       /\ res'[p] = "ok" /\ cur[p].id = i /\ cur[p].bytes = Size
       /\ again[p] => cur[p].done
       /\ cur[p].index # 0 /\ WriteRecord(p)
       => Recorded'[i] = NoFile]_vars

\* A process that has an index for its record and finds the data file gone or
\* emptied gets a lock error, so that it tries again (the comment at
\* ResumeManager.cpp:1414-1418).
EmptiedForcesRetry ==
  [][\A p \in Procs : cur[p].index # 0 /\ dat.state # "written" /\ WriteRecord(p)
       => res'[p] = "locked"]_vars
=============================================================================
