---------------------------- MODULE ListingProps ----------------------------
(***************************************************************************)
(* What a list that is shown says of the list that was found.  These are   *)
(* facts about the display functions alone; they are stated of the command *)
(* that shows the list.                                                    *)
(***************************************************************************)
EXTENDS ConsoleProps, Listings, FileSearch

Lists(entries) == UNION {[1 .. n -> entries] : n \in 0 .. 3}

Shown(rows, i) == \E k \in DOMAIN rows : rows[k].entry = i

\* The entries with a row, each under its own ID, are those that are to be seen, in order;
\* when the list is cut short, the first of them.
ShowsFirst(rows, list, ToBeSeen(_)) ==
  /\ \A k \in DOMAIN rows :
       /\ rows[k].entry \in DOMAIN list /\ ToBeSeen(list[rows[k].entry])
       /\ rows[k].id = list[rows[k].entry].id
       /\ \A i \in 1 .. rows[k].entry : ToBeSeen(list[i]) => Shown(rows, i)
  /\ \A j, k \in DOMAIN rows : j < k => rows[j].entry < rows[k].entry

ShowsAll(rows, list, ToBeSeen(_)) ==
  /\ ShowsFirst(rows, list, ToBeSeen)
  /\ \A i \in DOMAIN list : ToBeSeen(list[i]) => Shown(rows, i)

-----------------------------------------------------------------------------
(* Files.                                                                  *)

FileEntries ==
  [id : {"1", "22"}, deleted : BOOLEAN, date : {0, 1}, bytes : {3, 4}] \cup {Null}

Givens ==
  [options : {{}, {"name"}, {"id"}, {"start"}, {"metaname"}, {"name", "metavalue"}, MetaPair},
   unreadable : {{}, {"start"}}, deleted : Settings, complete : {"unset", "no"},
   verbose : BOOLEAN]

\* What a filter and its list make of deleted files.
FilterPairs ==
  {<<f.isDeleted, f.showDeleted>> : f \in {SetupSearchFilter(given) : given \in Givens}}

\* What the service may return for a filter.
Returned(isDeleted) ==
  Lists({f \in FileEntries :
           f = Null \/ isDeleted = "null" \/ (isDeleted = "true" <=> f.deleted)})

There(entry) == entry # Null
Dated(file) == There(file) /\ file.date # 0

Total(rows, list) == FoldLeft(LAMBDA n, row : n + list[row.entry].bytes, 0, rows)

FilesListed ==
  \A pair \in FilterPairs : \A list \in Returned(pair[1]) : \A key \in 0 .. Len(list) :
    LET short == DisplaySearchFilesResults(list, pair[2], key)
        full == DisplaySearchFilesResultsVerbose(list, key)
    IN  /\ ShowsFirst(short.rows, list, Dated) /\ ShowsFirst(full.rows, list, There)
        /\ ~short.cancelled => ShowsAll(short.rows, list, Dated)
        /\ ~full.cancelled => ShowsAll(full.rows, list, There)
        /\ short.count = Len(short.rows) /\ short.bytes = Total(short.rows, list)

-----------------------------------------------------------------------------
(* Records of uploads, metadata.                                           *)

RecordEntries == [id : {"1", "22"}, type : {"complete", "incomplete"}, date : {1}, bytes : {3, 4}]

\* A record has a date from the first block on.
RecordsListed ==
  \A list \in Lists(RecordEntries), type \in {"undefined", "complete", "incomplete"} :
    LET short == DisplayResumeUploadList(list, type)
        Wanted(r) == type = "undefined" \/ r.type = type
    IN  /\ ShowsAll(short.rows, list, Wanted)
        /\ short = DisplayResumeUploadListVerbose(list, type)

MetaDataListed ==
  \A list \in Lists([id : {"1", "22"}] \cup {Null}) :
    ShowsAll(DisplayMetaData(list).rows, list, There)

-----------------------------------------------------------------------------
(* Products and contracts.                                                 *)

Components == [id : {"1", "22"}, meter : {"Storage", "Bandwidth"}]

\* Each component has one row, and bandwidth comes last.
ProductsListed ==
  \A list \in Lists(Components \cup {Null}) :
    LET rows == ComponentRows(list)
        Bandwidth(i) == list[i].meter = "Bandwidth"
    IN  /\ \A i \in DOMAIN list : list[i] # Null => \E k \in DOMAIN rows : rows[k] = i
        /\ \A k \in DOMAIN rows : rows[k] \in DOMAIN list /\ list[rows[k]] # Null
        /\ \A j, k \in DOMAIN rows :
             j < k => IF Bandwidth(rows[j]) = Bandwidth(rows[k]) THEN rows[j] < rows[k]
                      ELSE Bandwidth(rows[k])

\* A contract is shown with its ID and its price, each once.
ContractsListed ==
  \A list \in Lists(Components) :
    LET rows == ContractRows(list)
    IN  list # <<>> =>
          /\ Len(rows) = Len(list)
          /\ \E k \in DOMAIN rows : {j \in DOMAIN rows : rows[j].id} = {k}
          /\ \E k \in DOMAIN rows : {j \in DOMAIN rows : rows[j].price} = {k}

-----------------------------------------------------------------------------
\* The lists of each command.
ListedBy ==
  [searchfiles |-> FilesListed, resume |-> RecordsListed, getmetadata |-> MetaDataListed,
   getfilemetadata |-> MetaDataListed, getallproducts |-> ProductsListed /\ ContractsListed,
   getmyproducts |-> ProductsListed /\ ContractsListed, getallcontracts |-> ContractsListed,
   getmycontracts |-> ContractsListed]

ListedWell == {c \in DOMAIN ListedBy : ListedBy[c]}

\* A list shows what was found: every entry, in order, once, under its own ID, and it
\* counts what it shows, whether in short or in full, until CTRL+C cuts it; and of the
\* files that the service returns for the filter of a search none is hidden.  But for
\* files without a date of modification, which the short list passes over.
ListsAreTrue == line # NoLine /\ line.cmd \in DOMAIN ListedBy => line.cmd \in ListedWell
=============================================================================
