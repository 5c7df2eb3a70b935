-------------------------- MODULE Listings_proofs --------------------------
(***************************************************************************)
(* What is shown of a list, for lists of any length: the displays go over  *)
(* their entries one by one, and at every entry the rows so far are those  *)
(* of the entries so far.                                                  *)
(***************************************************************************)
EXTENDS ListingProps, TLAPS

-----------------------------------------------------------------------------
(* The turns of the displays, for LeftFolds: c is what they are called     *)
(* with.                                                                   *)

IDTurn(c, ids, i) == Append(ids, IF i \in c[2] THEN "" ELSE c[1][i].id)
IDs == INSTANCE LeftFolds WITH Op <- IDTurn

HiddenFiles(c) == {i \in DOMAIN c[1] : c[1][i] = Null \/ (c[1][i].deleted /\ ~c[2])}

FileTurn(c, s, i) ==
  IF s.cancelled \/ i \in HiddenFiles(c) \/ Len(WordsOf(c[1][i].date)) < 2 THEN s
  ELSE Noted(Row(s, i, IDTexts(c[1], HiddenFiles(c))[i], c[1][i].bytes), i, c[3])
Files == INSTANCE LeftFolds WITH Op <- FileTurn

FullFileTurn(c, s, i) ==
  IF s.cancelled \/ c[1][i] = Null THEN s
  ELSE Noted(Row(s, i, c[1][i].id, 0), i, c[2])
FullFiles == INSTANCE LeftFolds WITH Op <- FullFileTurn

HiddenRecords(c) == {i \in DOMAIN c[1] : Other(c[1][i], c[2])}

RecordTurn(c, s, i) ==
  IF i \in HiddenRecords(c) \/ Len(WordsOf(c[1][i].date)) < 2 THEN s
  ELSE Row(s, i, IDTexts(c[1], HiddenRecords(c))[i], c[1][i].bytes)
Records == INSTANCE LeftFolds WITH Op <- RecordTurn

FullRecordTurn(c, s, i) ==
  IF Other(c[1][i], c[2]) THEN s ELSE Row(s, i, c[1][i].id, c[1][i].bytes)
FullRecords == INSTANCE LeftFolds WITH Op <- FullRecordTurn

HiddenMetaData(c) == {i \in DOMAIN c : c[i] = Null}

MetaDataTurn(c, s, i) ==
  IF i \in HiddenMetaData(c) THEN s ELSE Row(s, i, IDTexts(c, HiddenMetaData(c))[i], 0)
MetaData == INSTANCE LeftFolds WITH Op <- MetaDataTurn

ComponentTurn(c, s, i) ==
  IF c[i] = Null THEN s
  ELSE IF c[i].meter = "Bandwidth" THEN [s EXCEPT !.bandwidth = Append(@, i)]
  ELSE [s EXCEPT !.rows = Append(@, i)]
ComponentFold == INSTANCE LeftFolds WITH Op <- ComponentTurn

ContractTurn(c, rows, i) ==
  IF c[i] = Null THEN rows
  ELSE Append(rows, [component |-> c[i].id, id |-> i = 1,
                     price |-> IF Len(c) > 1 THEN i = 1 ELSE TRUE])
Contracts == INSTANCE LeftFolds WITH Op <- ContractTurn

TotalTurn(c, n, row) == n + c[row.entry].bytes
Totals == INSTANCE LeftFolds WITH Op <- TotalTurn

\* The displays are these folds: the texts of the IDs.
LEMMA FoldOfIDs ==
  ASSUME NEW c
  PROVE  IDTexts(c[1], c[2]) = IDs!Folded(c, <<>>, [i \in DOMAIN c[1] |-> i])
BY DEF IDTexts, IDTurn, FoldLeft, MapThenFoldSet, Max,
       IDs!Folded, IDs!FoldLeft, IDs!MapThenFoldSet, IDs!Max

\* The short list of files.
LEMMA FoldOfFiles ==
  ASSUME NEW c
  PROVE  DisplaySearchFilesResults(c[1], c[2], c[3])
           = Files!Folded(c, Started, [i \in DOMAIN c[1] |-> i])
BY DEF DisplaySearchFilesResults, FileTurn, HiddenFiles, FoldLeft, MapThenFoldSet, Max,
       Files!Folded, Files!FoldLeft, Files!MapThenFoldSet, Files!Max

\* The list of files in full.
LEMMA FoldOfFullFiles ==
  ASSUME NEW c
  PROVE  DisplaySearchFilesResultsVerbose(c[1], c[2])
           = [FullFiles!Folded(c, Started, [i \in DOMAIN c[1] |-> i])
                EXCEPT !.count = Len(c[1])]
BY DEF DisplaySearchFilesResultsVerbose, FullFileTurn, FoldLeft, MapThenFoldSet, Max,
       FullFiles!Folded, FullFiles!FoldLeft, FullFiles!MapThenFoldSet, FullFiles!Max

\* The records of uploads.
LEMMA FoldOfRecords ==
  ASSUME NEW c
  PROVE  DisplayResumeUploadList(c[1], c[2])
           = Records!Folded(c, Started, [i \in DOMAIN c[1] |-> i])
BY DEF DisplayResumeUploadList, RecordTurn, HiddenRecords, FoldLeft, MapThenFoldSet, Max,
       Records!Folded, Records!FoldLeft, Records!MapThenFoldSet, Records!Max

\* The records in full.
LEMMA FoldOfFullRecords ==
  ASSUME NEW c
  PROVE  DisplayResumeUploadListVerbose(c[1], c[2])
           = FullRecords!Folded(c, Started, [i \in DOMAIN c[1] |-> i])
BY DEF DisplayResumeUploadListVerbose, FullRecordTurn, FoldLeft, MapThenFoldSet, Max,
       FullRecords!Folded, FullRecords!FoldLeft, FullRecords!MapThenFoldSet, FullRecords!Max

\* The metadata.
LEMMA FoldOfMetaData ==
  ASSUME NEW c
  PROVE  DisplayMetaData(c) = MetaData!Folded(c, Started, [i \in DOMAIN c |-> i])
BY DEF DisplayMetaData, MetaDataTurn, HiddenMetaData, FoldLeft, MapThenFoldSet, Max,
       MetaData!Folded, MetaData!FoldLeft, MetaData!MapThenFoldSet, MetaData!Max

\* The components of products.
LEMMA FoldOfComponents ==
  ASSUME NEW c
  PROVE  LET s == ComponentFold!Folded(c, [rows |-> <<>>, bandwidth |-> <<>>],
                                       [i \in DOMAIN c |-> i])
         IN  ComponentRows(c) = s.rows \o s.bandwidth
BY DEF ComponentRows, ComponentTurn, FoldLeft, MapThenFoldSet, Max, ComponentFold!Folded,
       ComponentFold!FoldLeft, ComponentFold!MapThenFoldSet, ComponentFold!Max

\* The components of contracts.
LEMMA FoldOfContracts ==
  ASSUME NEW c
  PROVE  ContractRows(c) = Contracts!Folded(c, <<>>, [i \in DOMAIN c |-> i])
BY DEF ContractRows, ContractTurn, FoldLeft, MapThenFoldSet, Max,
       Contracts!Folded, Contracts!FoldLeft, Contracts!MapThenFoldSet, Contracts!Max

\* The sum of what is shown.
LEMMA FoldOfTotal ==
  ASSUME NEW c, NEW rows
  PROVE  Total(rows, c) = Totals!Folded(c, 0, rows)
BY DEF Total, TotalTurn, FoldLeft, MapThenFoldSet, Max,
       Totals!Folded, Totals!FoldLeft, Totals!MapThenFoldSet, Totals!Max

-----------------------------------------------------------------------------
(* Rows.                                                                   *)

\* The text of an entry.
TextOf(list, hidden, i) == IF i \in hidden THEN "" ELSE list[i].id
TextsUpTo(list, hidden, m) == [i \in 1 .. m |-> TextOf(list, hidden, i)]

\* The text of one entry more.
LEMMA TextsGrow ==
  ASSUME NEW list, NEW hidden, NEW m \in Nat \ {0}
  PROVE  Append(TextsUpTo(list, hidden, m - 1), TextOf(list, hidden, m))
           = TextsUpTo(list, hidden, m)
<1> DEFINE T == {TextOf(list, hidden, i) : i \in 1 .. m}
           texts == TextsUpTo(list, hidden, m - 1)
<1>1. /\ texts \in Seq(T) /\ Len(texts) = m - 1 /\ TextOf(list, hidden, m) \in T
      /\ \A i \in 1 .. m - 1 : texts[i] = TextOf(list, hidden, i)
  BY DEF TextsUpTo
<1> HIDE DEF T, texts
<1> DEFINE more == Append(texts, TextOf(list, hidden, m))
<1>2. /\ more \in Seq(T) /\ Len(more) = m /\ more[m] = TextOf(list, hidden, m)
      /\ \A i \in 1 .. m - 1 : more[i] = texts[i]
  BY <1>1
<1> HIDE DEF more
<1>3. more = [i \in 1 .. m |-> more[i]]
  BY <1>2
<1>4. \A i \in 1 .. m : more[i] = TextOf(list, hidden, i)
  <2>1. 1 .. m = (1 .. m - 1) \cup {m}
    OBVIOUS
  <2> QED
    BY <1>1, <1>2, <2>1
<1> QED
  BY <1>3, <1>4 DEF TextsUpTo, texts, more

\* The texts of the first turn are those of the entries that are not hidden.
LEMMA TextsOf ==
  ASSUME NEW n \in Nat, NEW list, DOMAIN list = 1 .. n, NEW hidden
  PROVE  \A i \in 1 .. n : i \notin hidden => IDTexts(list, hidden)[i] = list[i].id
<1> DEFINE c == <<list, hidden>>
           seq == [i \in DOMAIN list |-> i]
<1>0. c[1] = list /\ c[2] = hidden
  OBVIOUS
<1>1. DOMAIN seq = 1 .. n /\ \A k \in 1 .. n : seq[k] = k
  OBVIOUS
<1> HIDE DEF c, seq
<1>2. IDTexts(list, hidden) = IDs!Folded(c, <<>>, seq)
  BY <1>0, FoldOfIDs DEF seq
<1>3. PICK H : IDs!IsTrace(H, c, <<>>, seq, n) /\ IDTexts(list, hidden) = H[n]
  BY <1>1, <1>2, IDs!FoldTrace
<1> DEFINE G == {m \in 0 .. n : H[m] = TextsUpTo(list, hidden, m)}
<1>4. 0 \in G
  <2>1. H[0] = <<>> /\ 0 \in 0 .. n
    BY <1>3 DEF IDs!IsTrace
  <2>2. TextsUpTo(list, hidden, 0) = <<>>
    BY DEF TextsUpTo
  <2> QED
    BY <2>1, <2>2
<1>5. ASSUME NEW m \in 1 .. n, m - 1 \in G PROVE m \in G
  <2>1. H[m] = Append(H[m - 1], TextOf(list, hidden, m))
    BY <1>0, <1>1, <1>3 DEF IDs!IsTrace, IDTurn, TextOf
  <2>2. H[m] = TextsUpTo(list, hidden, m)
    BY <1>5, <2>1, TextsGrow
  <2> QED
    BY <2>2
<1>6. \A m \in 0 .. n : m \in G
  <2> HIDE DEF G
  <2> QED  BY ONLY <1>4, <1>5, IDs!UpTo, n \in Nat
<1>7. IDTexts(list, hidden) = TextsUpTo(list, hidden, n)
  BY <1>3, <1>6
<1> QED
  BY <1>7 DEF TextsUpTo, TextOf

RowSet(list) == [entry : DOMAIN list, id : {list[i].id : i \in DOMAIN list}]

Displays(list) == [rows : Seq(RowSet(list)), count : Nat, bytes : Nat, cancelled : BOOLEAN]

\* After m entries, those in seen have a row each, in order, or the list has been cut.
Listed(s, list, m, seen) ==
  /\ \A k \in DOMAIN s.rows :
       /\ s.rows[k].entry \in 1 .. m /\ s.rows[k].entry \in seen
       /\ s.rows[k].id = list[s.rows[k].entry].id
       /\ \A i \in 1 .. s.rows[k].entry : i \in seen => Shown(s.rows, i)
  /\ \A j, k \in DOMAIN s.rows : j < k => s.rows[j].entry < s.rows[k].entry
  /\ s.cancelled = FALSE => \A i \in 1 .. m : i \in seen => Shown(s.rows, i)
  /\ s.count = Len(s.rows)

\* Before the first entry.
LEMMA NothingListed ==
  ASSUME NEW list, NEW seen
  PROVE  Started \in Displays(list) /\ Listed(Started, list, 0, seen)
BY DEF Started, Displays, Listed

\* An entry that is passed over.
LEMMA Passed ==
  ASSUME NEW list, NEW seen, NEW m \in Nat \ {0}, NEW s, Listed(s, list, m - 1, seen),
         s.cancelled = FALSE => m \notin seen
  PROVE  Listed(s, list, m, seen)
<1>1. 1 .. m = (1 .. m - 1) \cup {m}
  OBVIOUS
<1> QED
  BY <1>1 DEF Listed

\* A row and what it changes.
LEMMA RowFields ==
  ASSUME NEW list, NEW s \in Displays(list), NEW m, NEW id, NEW b
  PROVE  /\ Row(s, m, id, b).rows = Append(s.rows, [entry |-> m, id |-> id])
         /\ Row(s, m, id, b).bytes = s.bytes + b
         /\ Row(s, m, id, b).cancelled = s.cancelled
<1> DEFINE rows == Append(s.rows, [entry |-> m, id |-> id])
<1>1. Row(s, m, id, b) = [s EXCEPT !.rows = rows, !.count = s.count + 1, !.bytes = s.bytes + b]
  BY DEF Row, Displays
<1> HIDE DEF rows
<1>2. /\ Row(s, m, id, b).rows = rows /\ Row(s, m, id, b).bytes = s.bytes + b
      /\ Row(s, m, id, b).cancelled = s.cancelled
  BY <1>1 DEF Displays
<1> QED
  BY <1>2 DEF rows

\* An entry with a row.
LEMMA RowAdded ==
  ASSUME NEW list, NEW seen, NEW m \in Nat \ {0}, m \in DOMAIN list, NEW s \in Displays(list),
         Listed(s, list, m - 1, seen), s.cancelled = FALSE, m \in seen, NEW b \in Nat,
         NEW r, r = Row(s, m, list[m].id, b)
  PROVE  r \in Displays(list) /\ Listed(r, list, m, seen)
<1> DEFINE row == [entry |-> m, id |-> list[m].id]
           rows == Append(s.rows, row)
           n == Len(s.rows)
<1>1. /\ s.rows \in Seq(RowSet(list)) /\ s.count \in Nat /\ s.bytes \in Nat /\ n \in Nat
      /\ row \in RowSet(list) /\ row.entry = m /\ row.id = list[m].id
  BY DEF Displays, RowSet
<1> HIDE DEF row
<1>2. /\ rows \in Seq(RowSet(list)) /\ Len(rows) = n + 1 /\ DOMAIN rows = 1 .. n + 1
      /\ rows[n + 1] = row /\ DOMAIN s.rows = 1 .. n
      /\ \A k \in 1 .. n : rows[k] = s.rows[k]
  BY <1>1
<1> HIDE DEF rows
<1>3. r = [rows |-> rows, count |-> s.count + 1, bytes |-> s.bytes + b, cancelled |-> FALSE]
  <2>1. Row(s, m, list[m].id, b) = [s EXCEPT !.rows = rows, !.count = s.count + 1,
                                            !.bytes = s.bytes + b]
    BY DEF Row, rows, row, Displays
  <2> QED
    BY <2>1 DEF Displays
<1> HIDE DEF n
<1>4. r \in Displays(list)
  BY <1>1, <1>2, <1>3 DEF Displays
<1>5. 1 .. m = (1 .. m - 1) \cup {m} /\ 1 .. n + 1 = (1 .. n) \cup {n + 1}
  BY <1>1
<1>6. \A i : Shown(rows, i) <=> Shown(s.rows, i) \/ i = m
  BY <1>1, <1>2, <1>5 DEF Shown
<1>7. ASSUME NEW k \in DOMAIN rows
      PROVE  /\ rows[k].entry \in 1 .. m /\ rows[k].entry \in seen
             /\ rows[k].id = list[rows[k].entry].id
             /\ \A i \in 1 .. rows[k].entry : i \in seen => Shown(rows, i)
  <2>1. CASE k \in 1 .. n
    BY <2>1, <1>2, <1>5, <1>6 DEF Listed
  <2>2. CASE k = n + 1
    BY <2>2, <1>1, <1>2, <1>5, <1>6 DEF Listed
  <2> QED
    BY <1>2, <1>5, <2>1, <2>2
<1>8. ASSUME NEW j \in DOMAIN rows, NEW k \in DOMAIN rows, j < k
      PROVE  rows[j].entry < rows[k].entry
  <2>1. CASE k \in 1 .. n
    <3>1. j \in 1 .. n
      BY <1>1, <1>2, <1>8, <2>1
    <3> QED
      BY <2>1, <3>1, <1>2, <1>8 DEF Listed
  <2>2. CASE k = n + 1
    <3>1. j \in 1 .. n
      BY <1>1, <1>2, <1>8, <2>2
    <3>2. rows[j].entry \in 1 .. m - 1
      BY <1>2, <3>1 DEF Listed
    <3> QED
      BY <2>2, <3>2, <1>1, <1>2
  <2> QED
    BY <1>2, <1>5, <2>1, <2>2
<1>9. \A i \in 1 .. m : i \in seen => Shown(rows, i)
  BY <1>5, <1>6 DEF Listed
<1>10. s.count = n
  BY DEF Listed, n
<1>11. Listed(r, list, m, seen)
  BY <1>1, <1>2, <1>3, <1>7, <1>8, <1>9, <1>10 DEF Listed
<1> QED
  BY <1>3, <1>4, <1>11 DEF rows, row

\* CTRL+C after an entry.
LEMMA Cut ==
  ASSUME NEW list, NEW seen, NEW m \in Nat, NEW s \in Displays(list), Listed(s, list, m, seen),
         s.cancelled = FALSE, NEW key \in Nat, NEW t, t = Noted(s, m, key)
  PROVE  t \in Displays(list) /\ Listed(t, list, m, seen)
<1> DEFINE cut == key # 0 /\ key <= m
<1>1. t = [s EXCEPT !.cancelled = cut] /\ cut \in BOOLEAN
  BY DEF Noted
<1> HIDE DEF cut
<1>2. /\ t \in Displays(list) /\ t.rows = s.rows /\ t.bytes = s.bytes /\ t.count = s.count
  BY <1>1 DEF Displays
<1>3. Listed(t, list, m, seen)
  BY <1>2 DEF Listed
<1> QED
  BY <1>2, <1>3

\* One row more.
LEMMA TotalGrows ==
  ASSUME NEW list, NEW rows \in Seq(RowSet(list)), NEW row \in RowSet(list)
  PROVE  Total(Append(rows, row), list) = Total(rows, list) + list[row.entry].bytes
BY FoldOfTotal, Totals!FoldOfMore DEF TotalTurn

\* Entry m after entry m - 1, in a display that looks at the keyboard.
Turns(H, list, m, seen, b, key) ==
  H[m] = IF H[m - 1].cancelled \/ m \notin seen THEN H[m - 1]
         ELSE Noted(Row(H[m - 1], m, list[m].id, b[m]), m, key)

\* What a display has added up, if it adds up the sizes.
Balanced(s, list, seen, b) ==
  (\A m \in seen : b[m] = list[m].bytes) => s.bytes = Total(s.rows, list)

\* A display that can be cut short.
LEMMA Walked ==
  ASSUME NEW n \in Nat, NEW list, DOMAIN list = 1 .. n, NEW seen, NEW b \in [1 .. n -> Nat],
         NEW key \in Nat, NEW H, H[0] = Started,
         \A m \in 1 .. n : Turns(H, list, m, seen, b, key)
  PROVE  /\ H[n] \in Displays(list) /\ Listed(H[n], list, n, seen)
         /\ Balanced(H[n], list, seen, b)
<1> DEFINE OK(s, m) ==
             /\ s \in Displays(list) /\ Listed(s, list, m, seen)
             /\ Balanced(s, list, seen, b)
           G == {m \in 0 .. n : OK(H[m], m)}
<1>1. 0 \in G
  <2>1. Started \in Displays(list) /\ Listed(Started, list, 0, seen)
    BY NothingListed
  <2>2. Started.bytes = 0 /\ Started.rows = <<>>
    BY DEF Started
  <2>3. Total(<<>>, list) = 0
    BY FoldOfTotal, Totals!FoldOfNone
  <2> QED
    BY <2>1, <2>2, <2>3 DEF Balanced
<1>2. ASSUME NEW m \in 1 .. n, m - 1 \in G PROVE m \in G
  <2> DEFINE s == H[m - 1]
             t == H[m]
  <2>1. OK(s, m - 1) /\ Turns(H, list, m, seen, b, key)
    BY <1>2
  <2>2. m \in Nat \ {0} /\ m \in DOMAIN list /\ m \in 0 .. n /\ m \in Nat /\ b[m] \in Nat
    OBVIOUS
  <2> HIDE DEF s, t
  <2>3. CASE t = s /\ (s.cancelled = TRUE \/ m \notin seen)
    <3>1. s.cancelled = FALSE => m \notin seen
      BY <2>3
    <3>2. Listed(s, list, m, seen)
      BY <2>1, <2>2, <3>1, Passed
    <3> QED
      BY <2>1, <2>2, <2>3, <3>2 DEF t
  <2>4. CASE /\ s.cancelled = FALSE /\ m \in seen
             /\ t = Noted(Row(s, m, list[m].id, b[m]), m, key)
    <3> DEFINE r == Row(s, m, list[m].id, b[m])
               row == [entry |-> m, id |-> list[m].id]
    <3>1. s \in Displays(list) /\ Listed(s, list, m - 1, seen) /\ r = Row(s, m, list[m].id, b[m])
      BY <2>1
    <3> HIDE DEF r
    <3>2. r \in Displays(list) /\ Listed(r, list, m, seen)
      BY ONLY <2>2, <2>4, <3>1, RowAdded
    <3>3. /\ r.rows = Append(s.rows, row) /\ r.bytes = s.bytes + b[m] /\ r.cancelled = FALSE
      BY <2>4, <3>1, RowFields
    <3>4. t = Noted(r, m, key)
      BY <2>4, <3>1
    <3>5. t \in Displays(list) /\ Listed(t, list, m, seen)
      BY ONLY <2>2, <3>2, <3>3, <3>4, Cut, key \in Nat
    <3>6. t.rows = r.rows /\ t.bytes = r.bytes
      BY <3>2, <3>4 DEF Noted, Displays
    <3>7. row \in RowSet(list) /\ row.entry = m
      BY <2>2 DEF RowSet
    <3>8. s.rows \in Seq(RowSet(list))
      BY <3>1 DEF Displays
    <3> HIDE DEF row
    <3>9. Total(r.rows, list) = Total(s.rows, list) + list[m].bytes
      BY <3>3, <3>7, <3>8, TotalGrows
    <3>10. Balanced(t, list, seen, b)
      BY <2>1, <2>4, <3>3, <3>6, <3>9 DEF Balanced
    <3> QED
      BY <2>2, <3>5, <3>10 DEF t
  <2>5. s.cancelled \in BOOLEAN
    BY <2>1 DEF Displays
  <2>6. t = IF s.cancelled \/ m \notin seen THEN s
            ELSE Noted(Row(s, m, list[m].id, b[m]), m, key)
    BY <2>1 DEF Turns, s, t
  <2> QED
    BY <2>3, <2>4, <2>5, <2>6
<1>3. \A m \in 0 .. n : m \in G
  <2> HIDE DEF G
  <2> QED  BY ONLY <1>1, <1>2, Files!UpTo, n \in Nat
<1>4. OK(H[n], n)
  BY <1>3
<1> QED
  BY <1>4

\* The same in a display that does not look at it.
Goes(H, list, m, seen, b) ==
  H[m] = IF m \in seen THEN Row(H[m - 1], m, list[m].id, b[m]) ELSE H[m - 1]

\* A display that shows all of its list.
LEMMA WalkedOn ==
  ASSUME NEW n \in Nat, NEW list, DOMAIN list = 1 .. n, NEW seen, NEW b \in [1 .. n -> Nat],
         NEW H, H[0] = Started,
         \A m \in 1 .. n : Goes(H, list, m, seen, b)
  PROVE  H[n] \in Displays(list) /\ Listed(H[n], list, n, seen) /\ H[n].cancelled = FALSE
<1> DEFINE OK(s, m) == s \in Displays(list) /\ Listed(s, list, m, seen) /\ s.cancelled = FALSE
           G == {m \in 0 .. n : OK(H[m], m)}
<1>1. 0 \in G
  <2>1. Started \in Displays(list) /\ Listed(Started, list, 0, seen)
    BY NothingListed
  <2>2. Started.cancelled = FALSE
    BY DEF Started
  <2> QED
    BY <2>1, <2>2
<1>2. ASSUME NEW m \in 1 .. n, m - 1 \in G PROVE m \in G
  <2> DEFINE s == H[m - 1]
             t == H[m]
  <2>1. OK(s, m - 1) /\ t = IF m \in seen THEN Row(s, m, list[m].id, b[m]) ELSE s
    BY <1>2 DEF Goes
  <2>2. m \in Nat \ {0} /\ m \in DOMAIN list /\ m \in 0 .. n /\ m \in Nat /\ b[m] \in Nat
    OBVIOUS
  <2> HIDE DEF s, t
  <2>3. CASE m \notin seen
    <3>1. Listed(s, list, m, seen)
      BY <2>1, <2>2, <2>3, Passed
    <3> QED
      BY <2>1, <2>2, <2>3, <3>1 DEF t
  <2>4. CASE m \in seen
    <3>1. /\ s \in Displays(list) /\ Listed(s, list, m - 1, seen) /\ s.cancelled = FALSE
          /\ t = Row(s, m, list[m].id, b[m])
      BY <2>1, <2>4
    <3>2. t \in Displays(list) /\ Listed(t, list, m, seen)
      BY ONLY <2>2, <2>4, <3>1, RowAdded
    <3>3. t.cancelled = FALSE
      <4> DEFINE r == Row(s, m, list[m].id, b[m])
      <4>1. r.cancelled = s.cancelled
        BY <3>1 DEF Row, Displays
      <4> HIDE DEF r
      <4> QED
        BY <3>1, <4>1 DEF r
    <3> QED
      BY <2>2, <3>2, <3>3 DEF t
  <2> QED
    BY <2>3, <2>4
<1>3. \A m \in 0 .. n : m \in G
  <2> HIDE DEF G
  <2> QED  BY ONLY <1>1, <1>2, Files!UpTo, n \in Nat
<1>4. OK(H[n], n)
  BY <1>3
<1> QED
  BY <1>4

\* What has been listed is shown.
LEMMA AllListed ==
  ASSUME NEW n \in Nat, NEW list, DOMAIN list = 1 .. n, NEW s \in Displays(list)
  PROVE  /\ Listed(s, list, n, {i \in 1 .. n : Dated(list[i])}) =>
              /\ ShowsFirst(s.rows, list, Dated)
              /\ ~s.cancelled => ShowsAll(s.rows, list, Dated)
         /\ Listed(s, list, n, {i \in 1 .. n : There(list[i])}) =>
              /\ ShowsFirst(s.rows, list, There)
              /\ ~s.cancelled => ShowsAll(s.rows, list, There)
<1>1. ASSUME NEW seen, Listed(s, list, n, seen)
      PROVE  /\ \A k \in DOMAIN s.rows :
                  /\ s.rows[k].entry \in 1 .. n /\ s.rows[k].entry \in seen
                  /\ s.rows[k].id = list[s.rows[k].entry].id
                  /\ \A i \in 1 .. s.rows[k].entry : i \in seen => Shown(s.rows, i)
             /\ \A j, k \in DOMAIN s.rows : j < k => s.rows[j].entry < s.rows[k].entry
             /\ ~s.cancelled => \A i \in 1 .. n : i \in seen => Shown(s.rows, i)
  <2>1. s.cancelled \in BOOLEAN
    BY DEF Displays
  <2> QED
    BY <1>1, <2>1 DEF Listed
<1>2. \A k \in DOMAIN s.rows : s.rows[k].entry \in 1 .. n =>
        \A i \in 1 .. s.rows[k].entry : i \in 1 .. n
  OBVIOUS
<1>3. Listed(s, list, n, {i \in 1 .. n : Dated(list[i])}) =>
              /\ ShowsFirst(s.rows, list, Dated)
              /\ ~s.cancelled => ShowsAll(s.rows, list, Dated)
  BY <1>1, <1>2 DEF ShowsFirst, ShowsAll
<1>4. Listed(s, list, n, {i \in 1 .. n : There(list[i])}) =>
              /\ ShowsFirst(s.rows, list, There)
              /\ ~s.cancelled => ShowsAll(s.rows, list, There)
  BY <1>1, <1>2 DEF ShowsFirst, ShowsAll
<1> QED
  BY <1>3, <1>4

-----------------------------------------------------------------------------
(* Files.                                                                  *)

\* Files that the service may send, with any IDs.
FileSet(T) == [id : T, deleted : BOOLEAN, date : Nat, bytes : Nat]

\* It shows the files with a date, and counts what it shows.
ShowsDated(short, list) ==
  /\ ShowsFirst(short.rows, list, Dated)
  /\ ~short.cancelled => ShowsAll(short.rows, list, Dated)
  /\ short.count = Len(short.rows) /\ short.bytes = Total(short.rows, list)

\* The short list of files, whichever files there are and whenever a key is pressed: if
\* no file is hidden that the service has returned, the files with a date are shown, in
\* order and each under its own ID, up to the key, and what is counted is what is shown.
THEOREM ShortListIsTrue ==
  ASSUME NEW T, NEW n \in Nat, NEW list, DOMAIN list = 1 .. n,
         \A i \in 1 .. n : There(list[i]) => list[i] \in FileSet(T),
         NEW deletedToo, \A i \in 1 .. n : There(list[i]) /\ list[i].deleted => deletedToo,
         NEW key \in Nat, NEW short, short = DisplaySearchFilesResults(list, deletedToo, key)
  PROVE  ShowsDated(short, list)
<1> DEFINE c == <<list, deletedToo, key>>
           seq == [i \in DOMAIN list |-> i]
           seen == {i \in 1 .. n : Dated(list[i])}
           b == [i \in 1 .. n |-> IF i \in seen THEN list[i].bytes ELSE 0]
<1>0. c[1] = list /\ c[2] = deletedToo /\ c[3] = key
  OBVIOUS
<1>1. DOMAIN seq = 1 .. n /\ \A k \in 1 .. n : seq[k] = k
  OBVIOUS
<1> HIDE DEF c, seq
<1>2. short = Files!Folded(c, Started, seq)
  BY <1>0, FoldOfFiles DEF seq
<1>3. PICK H : Files!IsTrace(H, c, Started, seq, n) /\ short = H[n]
  BY <1>1, <1>2, Files!FoldTrace
<1>4. H[0] = Started
  BY <1>3 DEF Files!IsTrace
<1>5. \A i \in seen : list[i] \in FileSet(T) /\ b[i] = list[i].bytes
  BY DEF Dated
<1>6. b \in [1 .. n -> Nat]
  <2>1. \A i \in seen : list[i].bytes \in Nat
    BY <1>5 DEF FileSet
  <2> HIDE DEF seen
  <2> QED
    BY <2>1
<1> HIDE DEF b
<1>7. ASSUME NEW m \in 1 .. n
      PROVE  Turns(H, list, m, seen, b, key)
  <2> DEFINE hidden == HiddenFiles(c)
  <2>1. H[m] = FileTurn(c, H[m - 1], m)
    BY <1>1, <1>3 DEF Files!IsTrace
  <2>2. m \in hidden <=> ~There(list[m]) \/ (list[m].deleted /\ ~deletedToo)
    BY <1>0 DEF HiddenFiles, There
  <2>3. Len(WordsOf(list[m].date)) < 2 <=> list[m].date = 0
    BY DEF WordsOf
  <2>4. m \notin hidden => IDTexts(list, hidden)[m] = list[m].id
    BY TextsOf
  <2> HIDE DEF hidden
  <2>5. m \in seen <=> m \notin hidden /\ ~(Len(WordsOf(list[m].date)) < 2)
    BY <2>2, <2>3 DEF Dated
  <2>6. m \in seen => b[m] = list[m].bytes
    BY <1>5
  <2> HIDE DEF seen
  <2> QED
    BY <1>0, <2>1, <2>4, <2>5, <2>6 DEF FileTurn, Turns, hidden
<1>8. /\ H[n] \in Displays(list) /\ Listed(H[n], list, n, seen)
      /\ H[n].bytes = Total(H[n].rows, list)
  <2>1. \A m \in seen : b[m] = list[m].bytes
    BY <1>5
  <2> HIDE DEF seen
  <2>2. /\ H[n] \in Displays(list) /\ Listed(H[n], list, n, seen)
        /\ Balanced(H[n], list, seen, b)
    BY ONLY <1>4, <1>6, <1>7, Walked, n \in Nat, DOMAIN list = 1 .. n, key \in Nat
  <2> QED
    BY <2>1, <2>2 DEF Balanced
<1>9. short.cancelled \in BOOLEAN
  BY <1>3, <1>8 DEF Displays
<1> QED
  BY <1>3, <1>8, <1>9, AllListed DEF Listed, ShowsDated

\* The list in full, of any entries: all that are there are shown, up to the key.
THEOREM FullListIsTrue ==
  ASSUME NEW n \in Nat, NEW list, DOMAIN list = 1 .. n, NEW key \in Nat,
         NEW full, full = DisplaySearchFilesResultsVerbose(list, key)
  PROVE  /\ ShowsFirst(full.rows, list, There)
         /\ ~full.cancelled => ShowsAll(full.rows, list, There)
<1> DEFINE c == <<list, key>>
           seq == [i \in DOMAIN list |-> i]
           seen == {i \in 1 .. n : There(list[i])}
           b == [i \in 1 .. n |-> 0]
<1>0. c[1] = list /\ c[2] = key
  OBVIOUS
<1>1. DOMAIN seq = 1 .. n /\ \A k \in 1 .. n : seq[k] = k
  OBVIOUS
<1>2. b \in [1 .. n -> Nat] /\ \A m \in 1 .. n : b[m] = 0
  OBVIOUS
<1> HIDE DEF c, seq, b
<1>3. full = [FullFiles!Folded(c, Started, seq) EXCEPT !.count = Len(list)]
  BY <1>0, FoldOfFullFiles DEF seq
<1>4. PICK H : /\ FullFiles!IsTrace(H, c, Started, seq, n)
               /\ FullFiles!Folded(c, Started, seq) = H[n]
  BY <1>1, FullFiles!FoldTrace
<1>5. H[0] = Started
  BY <1>4 DEF FullFiles!IsTrace
<1>6. ASSUME NEW m \in 1 .. n PROVE Turns(H, list, m, seen, b, key)
  <2>1. H[m] = FullFileTurn(c, H[m - 1], m)
    BY <1>1, <1>4 DEF FullFiles!IsTrace
  <2>2. m \in seen <=> list[m] # Null
    BY DEF There
  <2> HIDE DEF seen
  <2> QED
    BY <1>0, <1>2, <2>1, <2>2 DEF FullFileTurn, Turns
<1>7. H[n] \in Displays(list) /\ Listed(H[n], list, n, seen)
  <2> HIDE DEF seen
  <2> QED
    BY ONLY <1>2, <1>5, <1>6, Walked, n \in Nat, DOMAIN list = 1 .. n, key \in Nat
<1>8. full.rows = H[n].rows /\ full.cancelled = H[n].cancelled
  BY <1>3, <1>4, <1>7 DEF Displays
<1>9. full.cancelled \in BOOLEAN
  BY <1>7, <1>8 DEF Displays
<1> QED
  BY <1>7, <1>8, <1>9, AllListed

-----------------------------------------------------------------------------
(* Records of uploads, metadata.                                           *)

RecordSet(T) == [id : T, type : T, date : Nat \ {0}, bytes : Nat]

\* Records of uploads, which have a date, of one type or of all: each that is asked for
\* is shown, in order and under its own ID, and the two displays show the same.
THEOREM RecordsAreShown ==
  ASSUME NEW T, NEW n \in Nat, NEW list \in [1 .. n -> RecordSet(T)], NEW type,
         NEW short, short = DisplayResumeUploadList(list, type)
  PROVE  LET Wanted(r) == type = "undefined" \/ r.type = type
         IN  /\ ShowsAll(short.rows, list, Wanted)
             /\ short = DisplayResumeUploadListVerbose(list, type)
<1> DEFINE c == <<list, type>>
           seq == [i \in DOMAIN list |-> i]
           seen == {i \in 1 .. n : ~Other(list[i], type)}
           b == [i \in 1 .. n |-> list[i].bytes]
           Wanted(r) == type = "undefined" \/ r.type = type
<1>0. c[1] = list /\ c[2] = type
  OBVIOUS
<1>1. DOMAIN seq = 1 .. n /\ DOMAIN list = 1 .. n /\ \A k \in 1 .. n : seq[k] = k
  OBVIOUS
<1>2. /\ b \in [1 .. n -> Nat] /\ \A m \in 1 .. n : b[m] = list[m].bytes
      /\ \A m \in 1 .. n : list[m].date # 0
  BY DEF RecordSet
<1> HIDE DEF c, seq, b
<1>3. short = Records!Folded(c, Started, seq)
  BY <1>0, FoldOfRecords DEF seq
<1>4. PICK H : Records!IsTrace(H, c, Started, seq, n) /\ short = H[n]
  BY <1>1, <1>3, Records!FoldTrace
<1>5. ASSUME NEW m \in 1 .. n PROVE Goes(H, list, m, seen, b)
  <2> DEFINE hidden == HiddenRecords(c)
  <2>1. H[m] = RecordTurn(c, H[m - 1], m)
    BY <1>1, <1>4 DEF Records!IsTrace
  <2>2. m \in seen <=> m \notin hidden
    BY <1>0, <1>1 DEF HiddenRecords
  <2>3. Len(WordsOf(list[m].date)) = 2
    BY <1>2 DEF WordsOf
  <2> HIDE DEF hidden
  <2>4. m \notin hidden => IDTexts(list, hidden)[m] = list[m].id
    BY <1>1, TextsOf
  <2> HIDE DEF seen
  <2> QED
    BY <1>0, <1>2, <2>1, <2>2, <2>3, <2>4 DEF RecordTurn, Goes, hidden
<1>6. H[0] = Started
  BY <1>4 DEF Records!IsTrace
<1>7. H[n] \in Displays(list) /\ Listed(H[n], list, n, seen) /\ H[n].cancelled = FALSE
  <2> HIDE DEF seen
  <2> QED
    BY ONLY <1>1, <1>2, <1>5, <1>6, WalkedOn, n \in Nat
<1>8. ShowsAll(short.rows, list, Wanted)
  <2>1. \A i \in 1 .. n : i \in seen <=> Wanted(list[i])
    BY DEF Other
  <2> HIDE DEF seen, Wanted
  <2> QED
    BY <1>1, <1>4, <1>7, <2>1 DEF ShowsAll, ShowsFirst, Listed
<1>9. short = DisplayResumeUploadListVerbose(list, type)
  <2>1. DisplayResumeUploadListVerbose(list, type) = FullRecords!Folded(c, Started, seq)
    BY <1>0, FoldOfFullRecords DEF seq
  <2>2. PICK K : /\ FullRecords!IsTrace(K, c, Started, seq, n)
                 /\ DisplayResumeUploadListVerbose(list, type) = K[n]
    BY <1>1, <2>1, FullRecords!FoldTrace
  <2> DEFINE G == {m \in 0 .. n : H[m] = K[m]}
  <2>3. 0 \in G
    BY <1>6, <2>2 DEF FullRecords!IsTrace
  <2>4. ASSUME NEW m \in 1 .. n, m - 1 \in G PROVE m \in G
    <3>1. K[m] = FullRecordTurn(c, K[m - 1], m)
      BY <1>1, <2>2 DEF FullRecords!IsTrace
    <3>2. K[m] = IF m \in seen THEN Row(K[m - 1], m, list[m].id, b[m]) ELSE K[m - 1]
      BY <1>0, <1>2, <3>1 DEF FullRecordTurn
    <3> HIDE DEF seen
    <3> QED
      BY <1>5, <2>4, <3>2 DEF Goes
  <2>5. \A m \in 0 .. n : m \in G
    <3> HIDE DEF G
    <3> QED  BY ONLY <2>3, <2>4, Records!UpTo, n \in Nat
  <2> QED
    BY <1>4, <2>2, <2>5
<1> QED
  BY <1>8, <1>9

\* Metadata, with whatever IDs: each that is there is shown, in order and under its own.
THEOREM MetaDataIsShown ==
  ASSUME NEW n \in Nat, NEW list, DOMAIN list = 1 .. n
  PROVE  ShowsAll(DisplayMetaData(list).rows, list, There)
<1> DEFINE seq == [i \in DOMAIN list |-> i]
           seen == {i \in 1 .. n : There(list[i])}
           b == [i \in 1 .. n |-> 0]
<1>1. DOMAIN seq = 1 .. n /\ \A k \in 1 .. n : seq[k] = k
  OBVIOUS
<1>2. b \in [1 .. n -> Nat] /\ \A m \in 1 .. n : b[m] = 0
  OBVIOUS
<1> HIDE DEF seq, b
<1>3. DisplayMetaData(list) = MetaData!Folded(list, Started, seq)
  BY FoldOfMetaData DEF seq
<1>4. PICK H : MetaData!IsTrace(H, list, Started, seq, n) /\ DisplayMetaData(list) = H[n]
  BY <1>1, <1>3, MetaData!FoldTrace
<1>5. ASSUME NEW m \in 1 .. n PROVE Goes(H, list, m, seen, b)
  <2> DEFINE hidden == HiddenMetaData(list)
  <2>1. H[m] = MetaDataTurn(list, H[m - 1], m)
    BY <1>1, <1>4 DEF MetaData!IsTrace
  <2>2. m \in seen <=> m \notin hidden
    BY DEF HiddenMetaData, There
  <2> HIDE DEF hidden
  <2>3. m \notin hidden => IDTexts(list, hidden)[m] = list[m].id
    BY TextsOf
  <2> HIDE DEF seen
  <2> QED
    BY <1>2, <2>1, <2>2, <2>3 DEF MetaDataTurn, Goes, hidden
<1>6. H[0] = Started
  BY <1>4 DEF MetaData!IsTrace
<1>7. H[n] \in Displays(list) /\ Listed(H[n], list, n, seen) /\ H[n].cancelled = FALSE
  <2> HIDE DEF seen
  <2> QED
    BY ONLY <1>2, <1>5, <1>6, WalkedOn, n \in Nat, DOMAIN list = 1 .. n
<1> QED
  BY <1>4, <1>7, AllListed

-----------------------------------------------------------------------------
(* Products and contracts.                                                 *)

\* Of the first m places of a list, those in these have been noted, in order.
Placed(p, m, these) ==
  /\ \A k \in DOMAIN p : p[k] \in 1 .. m /\ p[k] \in these
  /\ \A i \in 1 .. m : i \in these => \E k \in DOMAIN p : p[k] = i
  /\ \A j, k \in DOMAIN p : j < k => p[j] < p[k]

\* A place that is passed over.
LEMMA PlacePassed ==
  ASSUME NEW p, NEW these, NEW m \in Nat \ {0}, Placed(p, m - 1, these), m \notin these
  PROVE  Placed(p, m, these)
<1>1. 1 .. m = (1 .. m - 1) \cup {m}
  OBVIOUS
<1> QED
  BY <1>1 DEF Placed

\* A place that is noted.
LEMMA PlaceNoted ==
  ASSUME NEW n \in Nat, NEW p \in Seq(1 .. n), NEW these, NEW m \in 1 .. n,
         Placed(p, m - 1, these), m \in these
  PROVE  Append(p, m) \in Seq(1 .. n) /\ Placed(Append(p, m), m, these)
<1> DEFINE q == Append(p, m)
           l == Len(p)
<1>1. /\ q \in Seq(1 .. n) /\ l \in Nat /\ DOMAIN p = 1 .. l /\ DOMAIN q = 1 .. l + 1
      /\ q[l + 1] = m /\ \A k \in 1 .. l : q[k] = p[k]
  OBVIOUS
<1> HIDE DEF q, l
<1>2. 1 .. m = (1 .. m - 1) \cup {m} /\ 1 .. l + 1 = (1 .. l) \cup {l + 1}
  BY <1>1
<1>3. \A k \in DOMAIN q : q[k] \in 1 .. m /\ q[k] \in these
  BY <1>1, <1>2 DEF Placed
<1>4. \A i \in 1 .. m : i \in these => \E k \in DOMAIN q : q[k] = i
  BY <1>1, <1>2 DEF Placed
<1>5. ASSUME NEW j \in DOMAIN q, NEW k \in DOMAIN q, j < k PROVE q[j] < q[k]
  <2>1. j \in 1 .. l
    BY <1>1, <1>5
  <2>2. CASE k \in 1 .. l
    BY <1>1, <1>5, <2>1, <2>2 DEF Placed
  <2>3. CASE k = l + 1
    <3>1. q[j] \in 1 .. m - 1
      BY <1>1, <2>1 DEF Placed
    <3> QED
      BY <1>1, <2>3, <3>1
  <2> QED
    BY <1>1, <1>2, <2>2, <2>3
<1> QED
  BY <1>1, <1>3, <1>4, <1>5 DEF Placed, q

\* Components of any number: each has one row, and bandwidth comes last.
THEOREM ComponentsAreShown ==
  ASSUME NEW n \in Nat, NEW list, DOMAIN list = 1 .. n, NEW rows, rows = ComponentRows(list)
  PROVE  LET Bandwidth(i) == list[i].meter = "Bandwidth"
         IN  /\ \A i \in DOMAIN list : list[i] # Null => \E k \in DOMAIN rows : rows[k] = i
             /\ \A k \in DOMAIN rows : rows[k] \in DOMAIN list /\ list[rows[k]] # Null
             /\ \A j, k \in DOMAIN rows :
                  j < k => IF Bandwidth(rows[j]) = Bandwidth(rows[k]) THEN rows[j] < rows[k]
                           ELSE Bandwidth(rows[k])
<1> DEFINE seq == [i \in DOMAIN list |-> i]
           base == [rows |-> <<>>, bandwidth |-> <<>>]
           last == {i \in 1 .. n : list[i] # Null /\ list[i].meter = "Bandwidth"}
           first == {i \in 1 .. n : list[i] # Null /\ list[i].meter # "Bandwidth"}
           Two == [rows : Seq(1 .. n), bandwidth : Seq(1 .. n)]
           OK(s, m) == s \in Two /\ Placed(s.rows, m, first) /\ Placed(s.bandwidth, m, last)
<1>1. DOMAIN seq = 1 .. n /\ \A k \in 1 .. n : seq[k] = k
  OBVIOUS
<1> HIDE DEF seq
<1>2. PICK H : /\ ComponentFold!IsTrace(H, list, base, seq, n)
               /\ ComponentFold!Folded(list, base, seq) = H[n]
  BY <1>1, ComponentFold!FoldTrace
<1>3. rows = H[n].rows \o H[n].bandwidth
  BY <1>2, FoldOfComponents DEF seq
<1> DEFINE G == {m \in 0 .. n : OK(H[m], m)}
<1>4. 0 \in G
  <2>1. H[0] = base
    BY <1>2 DEF ComponentFold!IsTrace
  <2>2. base \in Two /\ base.rows = <<>> /\ base.bandwidth = <<>>
    OBVIOUS
  <2> HIDE DEF base, Two, first, last
  <2>3. Placed(<<>>, 0, first) /\ Placed(<<>>, 0, last)
    BY DEF Placed
  <2> QED
    BY <2>1, <2>2, <2>3
<1>5. ASSUME NEW m \in 1 .. n, m - 1 \in G PROVE m \in G
  <2> DEFINE s == H[m - 1]
             t == H[m]
  <2>1. OK(s, m - 1) /\ t = ComponentTurn(list, s, m)
    BY <1>1, <1>2, <1>5 DEF ComponentFold!IsTrace
  <2>2. m \in Nat \ {0} /\ m \in 0 .. n
    OBVIOUS
  <2>3. s.rows \in Seq(1 .. n) /\ s.bandwidth \in Seq(1 .. n)
    BY <2>1
  <2>4. \/ t = s /\ m \notin first /\ m \notin last
        \/ t = [s EXCEPT !.bandwidth = Append(@, m)] /\ m \notin first /\ m \in last
        \/ t = [s EXCEPT !.rows = Append(@, m)] /\ m \in first /\ m \notin last
    BY <2>1 DEF ComponentTurn
  <2> HIDE DEF s, t, first, last
  <2>5. CASE t = s /\ m \notin first /\ m \notin last
    BY <2>1, <2>2, <2>5, PlacePassed DEF t
  <2>6. CASE t = [s EXCEPT !.bandwidth = Append(@, m)] /\ m \notin first /\ m \in last
    <3>1. /\ Append(s.bandwidth, m) \in Seq(1 .. n)
          /\ Placed(Append(s.bandwidth, m), m, last)
      BY <2>1, <2>3, <2>6, PlaceNoted
    <3>2. Placed(s.rows, m, first)
      BY <2>1, <2>2, <2>6, PlacePassed
    <3>3. t \in Two /\ t.rows = s.rows /\ t.bandwidth = Append(s.bandwidth, m)
      BY <2>1, <2>6, <3>1
    <3> HIDE DEF Two
    <3>4. OK(t, m)
      BY <3>1, <3>2, <3>3
    <3> QED
      BY <2>2, <3>4 DEF t
  <2>7. CASE t = [s EXCEPT !.rows = Append(@, m)] /\ m \in first /\ m \notin last
    <3>1. Append(s.rows, m) \in Seq(1 .. n) /\ Placed(Append(s.rows, m), m, first)
      BY <2>1, <2>3, <2>7, PlaceNoted
    <3>2. Placed(s.bandwidth, m, last)
      BY <2>1, <2>2, <2>7, PlacePassed
    <3>3. t \in Two /\ t.bandwidth = s.bandwidth /\ t.rows = Append(s.rows, m)
      BY <2>1, <2>7, <3>1
    <3> HIDE DEF Two
    <3>4. OK(t, m)
      BY <3>1, <3>2, <3>3
    <3> QED
      BY <2>2, <3>4 DEF t
  <2> QED
    BY <2>4, <2>5, <2>6, <2>7
<1>6. \A m \in 0 .. n : m \in G
  <2> HIDE DEF G
  <2> QED  BY ONLY <1>4, <1>5, ComponentFold!UpTo, n \in Nat
<1> DEFINE p == H[n].rows
           q == H[n].bandwidth
           a == Len(p)
           l == Len(q)
<1>7. p \in Seq(1 .. n) /\ q \in Seq(1 .. n) /\ Placed(p, n, first) /\ Placed(q, n, last)
  <2> HIDE DEF first, last
  <2>1. OK(H[n], n)
    BY <1>6
  <2> QED
    BY <2>1
<1>12. rows = p \o q
  BY <1>3
<1> HIDE DEF p, q
<1>8. /\ a \in Nat /\ l \in Nat /\ DOMAIN p = 1 .. a /\ DOMAIN q = 1 .. l
      /\ DOMAIN rows = 1 .. a + l
      /\ \A k \in 1 .. a : rows[k] = p[k]
      /\ \A k \in 1 .. a + l : k \notin 1 .. a => k - a \in 1 .. l /\ rows[k] = q[k - a]
      /\ \A k \in 1 .. l : a + k \in 1 .. a + l /\ rows[a + k] = q[k]
  <2>1. a \in Nat /\ l \in Nat /\ DOMAIN p = 1 .. a /\ DOMAIN q = 1 .. l
    BY <1>7
  <2>2. Len(rows) = a + l /\ DOMAIN rows = 1 .. a + l
    BY <1>7, <1>12
  <2>3. \A k \in 1 .. a + l : rows[k] = IF k <= a THEN p[k] ELSE q[k - a]
    BY <1>7, <1>12
  <2> HIDE DEF a, l
  <2>4. \A k \in 1 .. a : k \in 1 .. a + l /\ k <= a
    BY <2>1
  <2>5. \A k \in 1 .. a + l : k \notin 1 .. a => k - a \in 1 .. l /\ ~(k <= a)
    BY <2>1
  <2>6. \A k \in 1 .. l : a + k \in 1 .. a + l /\ ~(a + k <= a) /\ (a + k) - a = k
    BY <2>1
  <2> QED
    BY <2>1, <2>2, <2>3, <2>4, <2>5, <2>6
<1> HIDE DEF a, l, OK
<1>9. ASSUME NEW i \in 1 .. n, list[i] # Null PROVE \E k \in DOMAIN rows : rows[k] = i
  <2>1. CASE i \in first
    <3>1. PICK k \in 1 .. a : p[k] = i
      BY <1>7, <1>8, <2>1 DEF Placed
    <3> QED
      BY <1>8, <3>1
  <2>2. CASE i \in last
    <3>1. PICK k \in 1 .. l : q[k] = i
      BY <1>7, <1>8, <2>2 DEF Placed
    <3> QED
      BY <1>8, <3>1
  <2> QED
    BY <1>9, <2>1, <2>2
<1>10. ASSUME NEW k \in DOMAIN rows
       PROVE  IF k \in 1 .. a THEN rows[k] \in first ELSE rows[k] \in last
  <2> HIDE DEF first, last
  <2>1. CASE k \in 1 .. a
    BY <1>7, <1>8, <2>1 DEF Placed
  <2>2. CASE k \notin 1 .. a
    BY <1>7, <1>8, <2>2 DEF Placed
  <2> QED
    BY <2>1, <2>2
<1>11. ASSUME NEW j \in DOMAIN rows, NEW k \in DOMAIN rows, j < k
       PROVE  \/ rows[j] \in first /\ rows[k] \in last
              \/ /\ rows[j] < rows[k]
                 /\ \/ rows[j] \in first /\ rows[k] \in first
                    \/ rows[j] \in last /\ rows[k] \in last
  <2> HIDE DEF first, last
  <2>1. CASE k \in 1 .. a
    <3>1. j \in 1 .. a
      BY <1>8, <1>11, <2>1
    <3> QED
      BY <1>7, <1>8, <1>10, <1>11, <2>1, <3>1 DEF Placed
  <2>2. CASE k \notin 1 .. a /\ j \notin 1 .. a
    <3>1. j - a \in 1 .. l /\ k - a \in 1 .. l /\ j - a < k - a
      BY <1>8, <1>11, <2>2
    <3>2. rows[j] = q[j - a] /\ rows[k] = q[k - a]
      BY <1>8, <2>2
    <3>3. q[j - a] < q[k - a]
      BY <1>7, <1>8, <3>1 DEF Placed
    <3> QED
      BY <1>10, <2>2, <3>2, <3>3
  <2>3. CASE k \notin 1 .. a /\ j \in 1 .. a
    BY <1>10, <2>3
  <2> QED
    BY <2>1, <2>2, <2>3
<1> QED
  BY <1>9, <1>10, <1>11

ContractRow(list, i) ==
  [component |-> list[i].id, id |-> i = 1, price |-> IF Len(list) > 1 THEN i = 1 ELSE TRUE]

\* Contracts of any number of components: their ID and their price each once.
THEOREM ContractsAreShown ==
  ASSUME NEW S, Null \notin S, NEW list \in Seq(S), list # <<>>,
         NEW rows, rows = ContractRows(list)
  PROVE  /\ Len(rows) = Len(list)
         /\ \E k \in DOMAIN rows : {j \in DOMAIN rows : rows[j].id} = {k}
         /\ \E k \in DOMAIN rows : {j \in DOMAIN rows : rows[j].price} = {k}
<1> DEFINE n == Len(list)
           seq == [i \in DOMAIN list |-> i]
           R == {ContractRow(list, i) : i \in 1 .. n}
           OK(s, m) == s \in Seq(R) /\ Len(s) = m /\ \A i \in 1 .. m : s[i] = ContractRow(list, i)
<1>1. n \in Nat \ {0} /\ DOMAIN list = 1 .. n /\ \A i \in 1 .. n : list[i] # Null
  OBVIOUS
<1> HIDE DEF n
<1>2. DOMAIN seq = 1 .. n /\ \A k \in 1 .. n : seq[k] = k
  BY <1>1
<1> HIDE DEF seq
<1>3. rows = Contracts!Folded(list, <<>>, seq)
  BY FoldOfContracts DEF seq
<1>4. PICK H : Contracts!IsTrace(H, list, <<>>, seq, n) /\ rows = H[n]
  BY <1>1, <1>2, <1>3, Contracts!FoldTrace
<1> DEFINE G == {m \in 0 .. n : OK(H[m], m)}
<1>5. 0 \in G
  <2>1. H[0] = <<>> /\ 0 \in 0 .. n
    BY <1>1, <1>4 DEF Contracts!IsTrace
  <2> HIDE DEF R
  <2>2. OK(<<>>, 0)
    OBVIOUS
  <2> HIDE DEF OK
  <2> QED
    BY <2>1, <2>2
<1>6. ASSUME NEW m \in 1 .. n, m - 1 \in G PROVE m \in G
  <2> DEFINE s == H[m - 1]
             t == H[m]
             row == ContractRow(list, m)
  <2>1. OK(s, m - 1) /\ t = ContractTurn(list, s, m)
    BY <1>2, <1>4, <1>6 DEF Contracts!IsTrace
  <2> HIDE DEF s, t
  <2>2. t = Append(s, row)
    BY <1>1, <2>1 DEF ContractTurn, ContractRow
  <2>3. row \in R
    OBVIOUS
  <2> HIDE DEF row, R
  <2>4. t \in Seq(R) /\ Len(t) = m /\ t[m] = row /\ \A i \in 1 .. m - 1 : t[i] = s[i]
    BY <1>1, <2>1, <2>2, <2>3
  <2>5. 1 .. m = (1 .. m - 1) \cup {m}
    BY <1>1
  <2> QED
    BY <2>1, <2>4, <2>5 DEF t, row
<1>7. \A m \in 0 .. n : m \in G
  <2> HIDE DEF G
  <2> QED  BY ONLY <1>1, <1>5, <1>6, Contracts!UpTo
<1>8. OK(rows, n)
  BY <1>1, <1>4, <1>7
<1>9. DOMAIN rows = 1 .. n /\ Len(rows) = n /\ 1 \in 1 .. n
  <2> HIDE DEF R
  <2> QED
    BY <1>1, <1>8
<1>10. \A j \in 1 .. n : rows[j] = ContractRow(list, j)
  BY <1>8
<1> HIDE DEF OK, R
<1>11. ASSUME NEW j \in 1 .. n PROVE (rows[j].id <=> j = 1) /\ (rows[j].price <=> j = 1)
  <2> DEFINE id == j = 1
             price == IF n > 1 THEN j = 1 ELSE TRUE
  <2>0. rows[j] = [component |-> list[j].id, id |-> id, price |-> price]
    BY <1>10 DEF ContractRow, n
  <2> HIDE DEF id, price
  <2>1. rows[j].id = (j = 1)
    <3>1. rows[j].id = id
      BY <2>0
    <3> QED
      BY <3>1 DEF id
  <2>2. rows[j].price = IF n > 1 THEN j = 1 ELSE TRUE
    <3>1. rows[j].price = price
      BY <2>0
    <3> QED
      BY <3>1 DEF price
  <2>3. CASE n > 1
    BY <2>1, <2>2, <2>3
  <2>4. CASE ~(n > 1)
    <3>1. j = 1
      BY <1>1, <2>4
    <3> QED
      BY <2>1, <2>2, <2>4, <3>1
  <2> QED
    BY <2>3, <2>4
<1>12. {j \in DOMAIN rows : rows[j].id} = {1}
  BY <1>9, <1>11
<1>13. {j \in DOMAIN rows : rows[j].price} = {1}
  BY <1>9, <1>11
<1> QED
  BY <1>9, <1>12, <1>13 DEF n

-----------------------------------------------------------------------------
(* The lists of the model.                                                 *)

\* A search shows deleted files if its filter does not leave them to the service.
THEOREM SearchesHideNothing ==
  ASSUME NEW given, given.deleted \in Settings, NEW filter, filter = SetupSearchFilter(given)
  PROVE  filter.isDeleted # "false" => filter.showDeleted
<1> DEFINE narrowed == Narrowed(given)
<1>1. /\ filter.isDeleted = IF given.deleted = "unset" /\ ~narrowed THEN "false"
                            ELSE Tristate(given.deleted)
      /\ filter.showDeleted = (\/ given.deleted \in {"yes", "all"}
                               \/ given.deleted = "unset" /\ narrowed)
  BY DEF SetupSearchFilter
<1> HIDE DEF narrowed
<1> QED
  BY <1>1 DEF Tristate, Settings

\* A list of the model.
LEMMA OfLists ==
  ASSUME NEW E, NEW list \in Lists(E)
  PROVE  \E n \in Nat : list \in [1 .. n -> E] /\ Len(list) = n /\ list \in Seq(E)
<1>1. PICK n \in 0 .. 3 : list \in [1 .. n -> E]
  BY DEF Lists
<1> QED
  BY <1>1

\* The files that the service returns for a filter.
LEMMA FilesAreListed == FilesListed
<1> SUFFICES ASSUME NEW pair \in FilterPairs, NEW list \in Returned(pair[1]),
                    NEW key \in 0 .. Len(list),
                    NEW short, short = DisplaySearchFilesResults(list, pair[2], key),
                    NEW full, full = DisplaySearchFilesResultsVerbose(list, key)
             PROVE  /\ ShowsFirst(short.rows, list, Dated) /\ ShowsFirst(full.rows, list, There)
                    /\ ~short.cancelled => ShowsAll(short.rows, list, Dated)
                    /\ ~full.cancelled => ShowsAll(full.rows, list, There)
                    /\ short.count = Len(short.rows) /\ short.bytes = Total(short.rows, list)
  BY DEF FilesListed
<1> DEFINE E == {f \in FileEntries :
                   f = Null \/ pair[1] = "null" \/ (pair[1] = "true" <=> f.deleted)}
<1>1. PICK n \in Nat : list \in [1 .. n -> E] /\ Len(list) = n
  BY OfLists DEF Returned
<1>2. PICK given \in Givens : pair = <<SetupSearchFilter(given).isDeleted,
                                       SetupSearchFilter(given).showDeleted>>
  BY DEF FilterPairs
<1>3. DOMAIN list = 1 .. n /\ key \in Nat
  BY <1>1
<1>4. \A i \in 1 .. n : There(list[i]) => list[i] \in FileSet({"1", "22"})
  BY <1>1 DEF FileEntries, FileSet, There
<1>5. ASSUME NEW i \in 1 .. n, There(list[i]) /\ list[i].deleted PROVE pair[2]
  <2>1. list[i] \in E /\ list[i] # Null
    BY <1>1, <1>5 DEF There
  <2>2. list[i].deleted \in BOOLEAN
    BY <1>4, <1>5 DEF FileSet
  <2>3. given.deleted \in Settings
    BY DEF Givens
  <2>4. pair[1] # "false"
    BY <1>5, <2>1, <2>2
  <2> QED
    BY <1>2, <2>3, <2>4, SearchesHideNothing
<1>6. ShowsDated(short, list)
  BY ONLY <1>3, <1>4, <1>5, ShortListIsTrue, n \in Nat,
          short = DisplaySearchFilesResults(list, pair[2], key)
<1>7. /\ ShowsFirst(full.rows, list, There)
      /\ ~full.cancelled => ShowsAll(full.rows, list, There)
  BY ONLY <1>3, FullListIsTrue, n \in Nat, full = DisplaySearchFilesResultsVerbose(list, key)
<1> QED
  BY ONLY <1>6, <1>7 DEF ShowsDated

\* The records of uploads.
LEMMA RecordsAreListed == RecordsListed
<1> SUFFICES ASSUME NEW list \in Lists(RecordEntries), NEW type
             PROVE  LET short == DisplayResumeUploadList(list, type)
                        Wanted(r) == type = "undefined" \/ r.type = type
                    IN  /\ ShowsAll(short.rows, list, Wanted)
                        /\ short = DisplayResumeUploadListVerbose(list, type)
  BY DEF RecordsListed
<1> DEFINE T == {"1", "22", "complete", "incomplete"}
<1>1. PICK n \in Nat : list \in [1 .. n -> RecordEntries]
  BY OfLists
<1>2. list \in [1 .. n -> RecordSet(T)]
  BY <1>1 DEF RecordEntries, RecordSet
<1> QED
  BY ONLY <1>2, RecordsAreShown, n \in Nat

\* The metadata.
LEMMA MetaDataAreListed == MetaDataListed
BY OfLists, MetaDataIsShown DEF MetaDataListed

\* The components of products.
LEMMA ProductsAreListed == ProductsListed
BY OfLists, ComponentsAreShown DEF ProductsListed

\* The contracts.
LEMMA ContractsAreListed == ContractsListed
<1>1. Null \notin Components
  <2>1. DOMAIN Null = {"id"} /\ \A p \in Components : DOMAIN p = {"id", "meter"}
    BY DEF Null, Components
  <2> QED
    BY <2>1
<1> QED
  BY <1>1, OfLists, ContractsAreShown DEF ContractsListed

\* Every list that a command shows is true, whatever the service has returned.
THEOREM ListsShowWhatIsFound == Spec => []ListsAreTrue
<1>1. \A c \in DOMAIN ListedBy : ListedBy[c]
  <2>1. /\ FilesListed = TRUE /\ RecordsListed = TRUE /\ MetaDataListed = TRUE
        /\ ContractsListed = TRUE /\ (ProductsListed /\ ContractsListed) = TRUE
    BY FilesAreListed, RecordsAreListed, MetaDataAreListed, ProductsAreListed,
       ContractsAreListed
       DEF FilesListed, RecordsListed, MetaDataListed, ContractsListed, ProductsListed
  <2> DEFINE f == FilesListed
             r == RecordsListed
             m == MetaDataListed
             c == ContractsListed
             p == ProductsListed /\ ContractsListed
             by == [searchfiles |-> f, resume |-> r, getmetadata |-> m, getfilemetadata |-> m,
                    getallproducts |-> p, getmyproducts |-> p, getallcontracts |-> c,
                    getmycontracts |-> c]
  <2>2. ListedBy = by
    BY DEF ListedBy
  <2>3. f = TRUE /\ r = TRUE /\ m = TRUE /\ c = TRUE /\ p = TRUE
    BY <2>1
  <2> HIDE DEF f, r, m, c, p
  <2>4. \A d \in DOMAIN ListedBy : ListedBy[d] = TRUE
    BY <2>2, <2>3
  <2> QED
    BY <2>4
<1>2. ListsAreTrue
  BY <1>1 DEF ListsAreTrue, ListedWell
<1> QED
  BY <1>2, PTL

=============================================================================
