------------------------------ MODULE Listings ------------------------------
(***************************************************************************)
(* What the display functions of src/DioCLI/ConsoleControl.cpp show of the *)
(* lists that the tasks bring: which entries make a row, in which order,   *)
(* with which ID, what is added up, and where CTRL+C cuts the list.  How a *)
(* row is laid out is left out.                                            *)
(***************************************************************************)
EXTENDS Integers, Sequences, SequencesExt

\* An entry of a list that is a NULL pointer.
Null == [id |-> "null"]

\* FormatDateAndTime: a date that is 0 becomes the one word "none", which some
\* displays, that want a date and a time, pass over.
WordsOf(date) == IF date = 0 THEN <<"none">> ELSE <<"date", "time">>

\* GetStorageTypeName: the name of the first type with this ID; without a list the ID
\* itself, and nothing if it is not in the list.
GetStorageTypeName(types, id) ==
  IF types = <<>> THEN id
  ELSE LET found == SelectSeq(types, LAMBDA t : t.id = id)
       IN  IF found = <<>> THEN "" ELSE found[1].name

-----------------------------------------------------------------------------
(* Files.  Short lists go over their entries twice: to set how wide the    *)
(* column of the IDs must be, and then to show the rows.                   *)

\* The IDs for the second time: an entry without a row has an empty one.
IDTexts(list, hidden) ==
  FoldLeft(LAMBDA ids, i : Append(ids, IF i \in hidden THEN "" ELSE list[i].id), <<>>,
           [i \in DOMAIN list |-> i])

Started == [rows |-> <<>>, count |-> 0, bytes |-> 0, cancelled |-> FALSE]

\* A row for entry i.
Row(s, i, id, bytes) ==
  [s EXCEPT !.rows = Append(@, [entry |-> i, id |-> id]), !.count = @ + 1,
            !.bytes = @ + bytes]

\* The key is looked at after a row, and not when an entry is passed over: key is the
\* entry that it is pressed before, and 0 if it is not.
Noted(s, i, key) == [s EXCEPT !.cancelled = key # 0 /\ key <= i]

\* Deleted files are shown on demand, files without a date never.
DisplaySearchFilesResults(list, deletedToo, key) ==
  LET hidden == {i \in DOMAIN list :
                   list[i] = Null \/ (list[i].deleted /\ ~deletedToo)}
      ids == IDTexts(list, hidden)
      Turn(s, i) ==
        IF s.cancelled \/ i \in hidden \/ Len(WordsOf(list[i].date)) < 2 THEN s
        ELSE Noted(Row(s, i, ids[i], list[i].bytes), i, key)
  IN  FoldLeft(Turn, Started, [i \in DOMAIN list |-> i])

\* In full: what is found, is shown; it counts all entries.
DisplaySearchFilesResultsVerbose(list, key) ==
  LET Turn(s, i) ==
        IF s.cancelled \/ list[i] = Null THEN s
        ELSE Noted(Row(s, i, list[i].id, 0), i, key)
  IN  [FoldLeft(Turn, Started, [i \in DOMAIN list |-> i]) EXCEPT !.count = Len(list)]

\* The records of one type, or all of them.
Other(record, type) == type # "undefined" /\ record.type # type

DisplayResumeUploadList(list, type) ==
  LET hidden == {i \in DOMAIN list : Other(list[i], type)}
      ids == IDTexts(list, hidden)
      Turn(s, i) ==
        IF i \in hidden \/ Len(WordsOf(list[i].date)) < 2 THEN s
        ELSE Row(s, i, ids[i], list[i].bytes)
  IN  FoldLeft(Turn, Started, [i \in DOMAIN list |-> i])

DisplayResumeUploadListVerbose(list, type) ==
  LET Turn(s, i) ==
        IF Other(list[i], type) THEN s ELSE Row(s, i, list[i].id, list[i].bytes)
  IN  FoldLeft(Turn, Started, [i \in DOMAIN list |-> i])

DisplayMetaData(list) ==
  LET hidden == {i \in DOMAIN list : list[i] = Null}
      ids == IDTexts(list, hidden)
      Turn(s, i) == IF i \in hidden THEN s ELSE Row(s, i, ids[i], 0)
  IN  FoldLeft(Turn, Started, [i \in DOMAIN list |-> i])

\* Copies are numbered by their place; it counts all entries.
DisplayPhysicalFileInfo(list) ==
  LET Turn(s, i) == IF list[i] = Null THEN s ELSE Row(s, i, list[i].id, 0)
  IN  [FoldLeft(Turn, Started, [i \in DOMAIN list |-> i]) EXCEPT !.count = Len(list)]

-----------------------------------------------------------------------------
(* Totals, policies and logs.                                              *)

\* The heading goes with the first entry, NULL or not.
WithHeading(list) ==
  [heading |-> list # <<>> /\ list[1] # Null,
   rows |-> SelectSeq(list, LAMBDA e : e # Null)]

DisplayReplicationPolicy(list) == WithHeading(list)

DisplaySearchFilesTotalEntry(list) == WithHeading(list)

\* The totals of an entry, and then those of each type of storage.
DisplaySearchFilesTotalEntryVerbose(entry, types) ==
  IF entry = Null THEN <<>>
  ELSE <<entry.id>> \o
    [k \in DOMAIN SelectSeq(entry.storage, LAMBDA s : s # Null) |->
       GetStorageTypeName(types, SelectSeq(entry.storage, LAMBDA s : s # Null)[k].id)]

\* An invoice shows what it is for and then its total; one without details shows no
\* total.
InvoiceRows(invoice) ==
  IF invoice = Null THEN <<>>
  ELSE IF invoice.details = <<>> THEN <<"number">>
  ELSE <<"number">> \o SelectSeq(invoice.details, LAMBDA d : d # Null) \o <<"total">>

-----------------------------------------------------------------------------
(* Products and contracts.                                                 *)

\* Storage first and then bandwidth, each in the order of the list: what is shown, by its
\* place in the list.
ComponentRows(list) ==
  LET Turn(s, i) ==
        IF list[i] = Null THEN s
        ELSE IF list[i].meter = "Bandwidth" THEN [s EXCEPT !.bandwidth = Append(@, i)]
        ELSE [s EXCEPT !.rows = Append(@, i)]
      s == FoldLeft(Turn, [rows |-> <<>>, bandwidth |-> <<>>], [i \in DOMAIN list |-> i])
  IN  s.rows \o s.bandwidth

\* The ID goes with the first component; the price with the ID if there are several
\* components, and else with the only one.
ContractRows(list) ==
  LET Several == Len(list) > 1
      Turn(rows, i) ==
        IF list[i] = Null THEN rows
        ELSE Append(rows, [component |-> list[i].id, id |-> i = 1,
                           price |-> IF Several THEN i = 1 ELSE TRUE])
  IN  FoldLeft(Turn, <<>>, [i \in DOMAIN list |-> i])
=============================================================================
