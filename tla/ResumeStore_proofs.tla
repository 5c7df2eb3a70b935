------------------------- MODULE ResumeStore_proofs -------------------------
(***************************************************************************)
(* The resume files, for any processes, files, lengths and sizes, whoever  *)
(* dies and when.                                                          *)
(***************************************************************************)
EXTENDS ResumeStoreProps, WellFoundedInduction, TLAPS

-----------------------------------------------------------------------------
(* Numbers.                                                                *)

\* A set of numbers has a least one.
LEMMA LeastOf ==
  ASSUME NEW S \in SUBSET Nat, S # {}
  PROVE  Min(S) \in S /\ \A y \in S : Min(S) <= y
<1> DEFINE R == {ss \in Nat \X Nat : ss[1] < ss[2]}
<1>1. IsWellFoundedOn(R, Nat)
  BY NatLessThanWellFounded DEF OpToRel
<1>2. PICK x \in S : \A y \in S : <<y, x>> \notin R
  <2> HIDE DEF R
  <2> QED  BY <1>1, WFMin
<1>3. ASSUME NEW y \in S PROVE x <= y
  <2>1. x \in Nat /\ y \in Nat /\ <<y, x>> \in Nat \X Nat
    OBVIOUS
  <2>2. ~(<<y, x>>[1] < <<y, x>>[2])
    BY <1>2, <2>1
  <2> QED
    BY <2>1, <2>2
<1> QED
  BY <1>3 DEF Min

LEMMA MaxOfTwo ==
  ASSUME NEW m \in Nat, NEW n \in Nat
  PROVE  Max({m, n}) = IF m >= n THEN m ELSE n
BY DEF Max

\* Induction up to n.
LEMMA UpTo ==
  ASSUME NEW n \in Nat, NEW G, 0 \in G, \A k \in 1 .. n : k - 1 \in G => k \in G
  PROVE  \A k \in 0 .. n : k \in G
<1> DEFINE bad == {k \in 0 .. n : k \notin G}
<1>1. ASSUME bad # {} PROVE FALSE
  <2>1. Min(bad) \in bad /\ \A y \in bad : Min(bad) <= y
    <3>1. bad \in SUBSET Nat
      OBVIOUS
    <3> HIDE DEF bad
    <3> QED  BY <1>1, <3>1, LeastOf
  <2>2. PICK m \in bad : \A y \in bad : m <= y
    BY <2>1
  <2>3. m \in 1 .. n
    BY <2>2
  <2>4. m - 1 \notin bad
    BY <2>2, <2>3
  <2> QED
    BY <2>2, <2>3, <2>4
<1> QED
  BY <1>1

\* A function may be defined by recursion.
ByRecursion(n, S, base, step) ==
  {f \in [0 .. n -> S] : f[0] = base /\ \A k \in 1 .. n : f[k] = step[<<k, f[k - 1]>>]}

LEMMA Recursion ==
  ASSUME NEW n \in Nat, NEW S, NEW base \in S, NEW step \in [Nat \X S -> S]
  PROVE  ByRecursion(n, S, base, step) # {}
<1> DEFINE F(m) == ByRecursion(m, S, base, step)
           G == {m \in 0 .. n : F(m) # {}}
<1> USE DEF ByRecursion
<1>1. 0 \in G
  <2> DEFINE f == [k \in 0 .. 0 |-> base]
  <2>1. f \in F(0)
    OBVIOUS
  <2> QED
    BY <2>1
<1>2. ASSUME NEW m \in 1 .. n, m - 1 \in G PROVE m \in G
  <2>1. PICK f \in F(m - 1) : TRUE
    BY <1>2
  <2>2. f[m - 1] \in S /\ step[<<m, f[m - 1]>>] \in S
    <3>1. f[m - 1] \in S /\ <<m, f[m - 1]>> \in Nat \X S
      BY <2>1
    <3> QED
      BY <3>1
  <2> DEFINE g == [k \in 0 .. m |-> IF k = m THEN step[<<m, f[m - 1]>>] ELSE f[k]]
  <2>3. g \in [0 .. m -> S]
    BY <2>1, <2>2
  <2>4. g[0] = base
    BY <2>1
  <2>5. ASSUME NEW k \in 1 .. m PROVE g[k] = step[<<k, g[k - 1]>>]
    <3>1. CASE k = m
      <4>1. m - 1 \in 0 .. m /\ m \in 0 .. m /\ m - 1 # m
        OBVIOUS
      <4>2. g[m] = step[<<m, f[m - 1]>>] /\ g[m - 1] = f[m - 1]
        BY <4>1
      <4> QED
        BY <3>1, <4>2
    <3>2. CASE k # m
      <4>1. k \in 1 .. m - 1 /\ k - 1 \in 0 .. m /\ k - 1 # m
        BY <3>2
      <4>2. g[k] = f[k] /\ g[k - 1] = f[k - 1]
        BY <4>1, <3>2
      <4> QED
        BY <4>1, <4>2, <2>1
    <3> QED
      BY <3>1, <3>2
  <2>6. g \in F(m)
    BY <2>3, <2>4, <2>5
  <2> HIDE DEF g, F
  <2> QED
    BY <2>6
<1>3. \A m \in 0 .. n : m \in G
  <2> HIDE DEF G
  <2> QED  BY <1>1, <1>2, UpTo
<1> QED
  BY <1>3

-----------------------------------------------------------------------------
(* The text of the data file.                                              *)

\* The id of a record and the length of its line.
LEMMA LengthOK ==
  ASSUME NEW i \in IDs
  PROVE  Length[i] \in Nat /\ Length[i] > 0 /\ i # NoFile
BY StoreAssumption

LEMMA CellsOK ==
  /\ Header \in Seq(Cells) /\ Len(Header) = 1 /\ Header[1].kind = "header"
  /\ Header[1].id = NoFile
  /\ Pad \in Cells /\ Pad.kind = "pad" /\ Pad.id = NoFile
  /\ Hole \in Cells /\ Hole.kind = "hole" /\ Hole.id = NoFile
BY StoreAssumption DEF Header, Pad, Hole, Cell, Cells

\* The records of files.
Rec == Info \ {None}

LEMMA RecOK ==
  ASSUME NEW r \in Rec
  PROVE  /\ r.id \in IDs /\ r.bytes \in 0 .. Size /\ r.index \in 0 .. MaxEntries
         /\ r.done \in BOOLEAN
         /\ r = [id |-> r.id, bytes |-> r.bytes, index |-> r.index, done |-> r.done]
BY DEF Rec, Info, None

LEMMA NoneOK == None \in Info /\ None.id = NoFile /\ None.index = 0 /\ ~None.done
BY DEF None, Info

\* The line of a record.
LEMMA TextOK ==
  ASSUME NEW r \in Rec, NEW n \in Nat
  PROVE  /\ Text(r, n) \in Seq(Cells)
         /\ Len(Text(r, n)) = IF Length[r.id] >= n THEN Length[r.id] ELSE n
         /\ \A k \in 1 .. Len(Text(r, n)) :
              Text(r, n)[k] = IF k <= Length[r.id] THEN TextCell(r, k) ELSE Pad
<1> DEFINE m == IF Length[r.id] >= n THEN Length[r.id] ELSE n
<1>0. r.id \in IDs /\ r.bytes \in 0 .. Size
  BY RecOK
<1>1. m \in Nat /\ m = Max({Length[r.id], n})
  BY <1>0, LengthOK, MaxOfTwo
<1>2. \A k \in 1 .. m : TextCell(r, k) \in Cells
  BY <1>0, <1>1 DEF TextCell, Cells
<1>3. Text(r, n) \in [1 .. m -> Cells]
  BY <1>1, <1>2, CellsOK DEF Text
<1>4. Len(Text(r, n)) = m
  BY <1>1, <1>3
<1> HIDE DEF m
<1>5. \A k \in 1 .. m : Text(r, n)[k] = IF k <= Length[r.id] THEN TextCell(r, k) ELSE Pad
  BY <1>1 DEF Text
<1> QED
  BY <1>1, <1>3, <1>4, <1>5 DEF m

LEMMA OverlayOK ==
  ASSUME NEW s \in Seq(Cells), NEW t \in Seq(Cells), NEW pos \in Nat
  PROVE  /\ Overlay(s, pos, t) \in Seq(Cells)
         /\ Len(Overlay(s, pos, t)) = IF Len(s) >= pos + Len(t) THEN Len(s) ELSE pos + Len(t)
         /\ \A k \in 1 .. Len(Overlay(s, pos, t)) :
              Overlay(s, pos, t)[k] = IF k \in pos + 1 .. pos + Len(t) THEN t[k - pos]
                                      ELSE IF k <= Len(s) THEN s[k] ELSE Hole
<1> DEFINE m == IF Len(s) >= pos + Len(t) THEN Len(s) ELSE pos + Len(t)
           e(k) == IF k \in pos + 1 .. pos + Len(t) THEN t[k - pos]
                   ELSE IF k <= Len(s) THEN s[k] ELSE Hole
<1>1. m \in Nat /\ m = Max({Len(s), pos + Len(t)})
  BY MaxOfTwo
<1>2. ASSUME NEW k \in 1 .. m PROVE e(k) \in Cells
  BY CellsOK
<1>3. Overlay(s, pos, t) = [k \in 1 .. m |-> e(k)]
  BY <1>1 DEF Overlay
<1> HIDE DEF m, e
<1>4. Overlay(s, pos, t) \in [1 .. m -> Cells]
  BY <1>1, <1>2, <1>3
<1>5. Len(Overlay(s, pos, t)) = m
  BY <1>1, <1>4
<1>6. \A k \in 1 .. m : Overlay(s, pos, t)[k] = e(k)
  BY <1>3
<1> QED
  BY <1>1, <1>4, <1>5, <1>6 DEF m, e

\* Where a line is, its cells have its file.
LEMMA LineOK ==
  ASSUME NEW s \in Seq(Cells), NEW k, LineAt(s, k)
  PROVE  /\ k \in 1 .. Len(s) /\ s[k].kind = "text" /\ s[k].at = 1
         /\ s[k].id \in IDs /\ s[k].bytes \in 0 .. Size /\ s[k] # Pad
         /\ k + Length[s[k].id] <= Len(s) + 1
         /\ \A j \in k .. k + Length[s[k].id] - 1 : s[j] = TextCell(s[k], j - k + 1)
<1>1. k \in 1 .. Len(s) /\ s[k].kind = "text" /\ s[k] \in Cells
  BY DEF LineAt
<1>2. s[k].id \in IDs /\ s[k].bytes \in 0 .. Size /\ s[k] # Pad
  BY <1>1, CellsOK DEF Cells
<1>3. Length[s[k].id] \in Nat /\ Length[s[k].id] > 0
  BY <1>2, LengthOK
<1>4. \A j \in 1 .. Length[s[k].id] : s[k + j - 1] = TextCell(s[k], j)
  BY DEF LineAt
<1>5. s[k + 1 - 1] = TextCell(s[k], 1) /\ k + 1 - 1 = k
  BY <1>1, <1>3, <1>4
<1>6. s[k].at = 1
  BY <1>5 DEF TextCell
<1>7. ASSUME NEW j \in k .. k + Length[s[k].id] - 1 PROVE s[j] = TextCell(s[k], j - k + 1)
  <2>1. PICK n : n = Length[s[k].id]
    OBVIOUS
  <2>2. PICK h : h = j - k + 1
    OBVIOUS
  <2>3. k \in Nat /\ n \in Nat /\ j \in k .. k + n - 1
    BY <1>1, <1>3, <2>1
  <2>4. h \in 1 .. n /\ k + h - 1 = j
    BY ONLY <2>2, <2>3
  <2> QED
    BY <1>4, <2>1, <2>2, <2>4
<1> QED
  BY <1>1, <1>2, <1>6, <1>7 DEF LineAt

LEMMA EntryOK ==
  ASSUME NEW l \in Seq(Entries)
  PROVE  /\ DOMAIN l = 1 .. Len(l) /\ Len(l) \in Nat
         /\ \A k \in 1 .. Len(l) : /\ l[k] \in Entries /\ l[k].pos \in Nat
                                   /\ l[k].len \in Nat /\ l[k].len > 0
<1>1. DOMAIN l = 1 .. Len(l) /\ Len(l) \in Nat /\ \A k \in 1 .. Len(l) : l[k] \in Entries
  OBVIOUS
<1> QED
  BY <1>1 DEF Entries

\* What is read at a position.
LEMMA ReadLine ==
  ASSUME NEW s \in Seq(Cells), NEW pos \in Nat, NEW k \in Starts(s, pos)
  PROVE  /\ Starts(s, pos) = {k}
         /\ ReadAt(s, pos) = [id |-> s[k].id, bytes |-> s[k].bytes, index |-> 0, done |-> FALSE]
<1>1. ASSUME NEW j \in Starts(s, pos) PROVE j = k
  <2>1. s[j] # Pad /\ s[k] # Pad /\ j \in Nat /\ k \in Nat
    BY LineOK DEF Starts
  <2>2. ~(j < k) /\ ~(k < j)
    BY <2>1 DEF Starts
  <2> QED
    BY <2>1, <2>2
<1>2. Starts(s, pos) = {k}
  BY <1>1
<1>3. k \in Nat
  BY DEF Starts
<1>4. Min({k}) = k
  BY <1>3, LeastOf
<1> QED
  BY <1>2, <1>4 DEF ReadAt, None

LEMMA ReadNothing ==
  ASSUME NEW s, NEW pos, Starts(s, pos) = {}
  PROVE  ReadAt(s, pos) = None
BY DEF ReadAt

LEMMA ReadOK ==
  ASSUME NEW s \in Seq(Cells), NEW pos \in Nat
  PROVE  /\ ReadAt(s, pos).id \in IDs \cup {NoFile}
         /\ ReadAt(s, pos) # None <=> Starts(s, pos) # {}
         /\ ReadAt(s, pos) # None <=> ReadAt(s, pos).id \in IDs
         /\ ReadAt(s, pos) # None =>
              /\ ReadAt(s, pos).bytes \in 0 .. Size
              /\ ReadAt(s, pos) \in [id : IDs, bytes : 0 .. Size, index : {0}, done : BOOLEAN]
              /\ ~ReadAt(s, pos).done
<1>1. ASSUME Starts(s, pos) = {} PROVE ReadAt(s, pos) = None /\ ReadAt(s, pos).id = NoFile
  BY <1>1, ReadNothing, NoneOK
<1>2. ASSUME NEW k \in Starts(s, pos)
      PROVE  /\ ReadAt(s, pos).id \in IDs /\ ReadAt(s, pos).bytes \in 0 .. Size
             /\ ReadAt(s, pos) \in [id : IDs, bytes : 0 .. Size, index : {0}, done : BOOLEAN]
             /\ ~ReadAt(s, pos).done
  <2>1. LineAt(s, k)
    BY DEF Starts
  <2>2. s[k].id \in IDs /\ s[k].bytes \in 0 .. Size
    BY <2>1, LineOK
  <2>3. ReadAt(s, pos) = [id |-> s[k].id, bytes |-> s[k].bytes, index |-> 0, done |-> FALSE]
    BY ReadLine
  <2> QED
    BY <2>2, <2>3
<1>3. NoFile \notin IDs /\ None.id = NoFile
  BY StoreAssumption, NoneOK
<1>4. CASE Starts(s, pos) = {}
  BY <1>1, <1>3, <1>4
<1>5. CASE Starts(s, pos) # {}
  <2>1. PICK k \in Starts(s, pos) : TRUE
    BY <1>5
  <2>2. ReadAt(s, pos).id \in IDs /\ ReadAt(s, pos) # None
    BY <1>2, <1>3, <2>1
  <2> QED
    BY <1>2, <2>1, <2>2, <1>5
<1> QED
  BY <1>4, <1>5

\* The records the entries of a list lead to.
LEMMA RecordsOK ==
  ASSUME NEW s \in Seq(Cells), NEW l \in Seq(Entries), Len(l) <= MaxEntries
  PROVE  /\ DOMAIN Records(s, l) = {k \in DOMAIN l : ReadAt(s, l[k].pos) # None}
         /\ DOMAIN Records(s, l) \subseteq 1 .. Len(l)
         /\ \A k \in DOMAIN Records(s, l) :
              /\ Records(s, l)[k] \in Rec
              /\ Records(s, l)[k].id = ReadAt(s, l[k].pos).id
              /\ Records(s, l)[k].bytes = ReadAt(s, l[k].pos).bytes
              /\ Records(s, l)[k].index = k /\ ~Records(s, l)[k].done
<1>1. DOMAIN Records(s, l) = {k \in DOMAIN l : ReadAt(s, l[k].pos) # None}
  BY DEF Records
<1>2. ASSUME NEW k \in DOMAIN Records(s, l)
      PROVE  /\ Records(s, l)[k] \in Rec
             /\ Records(s, l)[k].id = ReadAt(s, l[k].pos).id
             /\ Records(s, l)[k].bytes = ReadAt(s, l[k].pos).bytes
             /\ Records(s, l)[k].index = k /\ ~Records(s, l)[k].done
  <2> DEFINE e == ReadAt(s, l[k].pos)
  <2>0. k \in DOMAIN l /\ e # None
    BY <1>1
  <2>1. k \in 1 .. Len(l) /\ k \in 0 .. MaxEntries /\ l[k].pos \in Nat /\ e # None
    <3>1. k \in 1 .. Len(l) /\ l[k] \in Entries
      BY <2>0
    <3> QED
      BY <2>0, <3>1, StoreAssumption DEF Entries
  <2>2. /\ e \in [id : IDs, bytes : 0 .. Size, index : {0}, done : BOOLEAN]
        /\ e.id \in IDs /\ ~e.done
    BY <2>1, ReadOK
  <2>3. Records(s, l)[k] = [e EXCEPT !.index = k]
    BY <1>1 DEF Records
  <2> HIDE DEF e
  <2>4. /\ [e EXCEPT !.index = k] \in [id : IDs, bytes : 0 .. Size, index : 0 .. MaxEntries, done : BOOLEAN]
        /\ [e EXCEPT !.index = k].id = e.id /\ [e EXCEPT !.index = k].bytes = e.bytes
        /\ [e EXCEPT !.index = k].index = k /\ [e EXCEPT !.index = k].done = e.done
    BY <2>1, <2>2
  <2>5. [e EXCEPT !.index = k] # None
    BY <2>2, <2>4, NoneOK, LengthOK
  <2> QED
    BY <2>2, <2>3, <2>4, <2>5 DEF Rec, Info, e
<1> QED
  BY <1>1, <1>2

-----------------------------------------------------------------------------
(* Files that are written anew, record by record.                          *)

Rewrites == [body : Seq(Cells), list : Seq(Entries)]

LEMMA JoinOK ==
  ASSUME NEW S, NEW s \in Seq(S), NEW t \in Seq(S)
  PROVE  /\ s \o t \in Seq(S) /\ Len(s \o t) = Len(s) + Len(t)
         /\ \A k \in 1 .. Len(s) : (s \o t)[k] = s[k]
         /\ \A k \in 1 .. Len(t) : (s \o t)[Len(s) + k] = t[k]
OBVIOUS

LEMMA AppendOK ==
  ASSUME NEW S, NEW s \in Seq(S), NEW e \in S
  PROVE  /\ Append(s, e) \in Seq(S) /\ Len(Append(s, e)) = Len(s) + 1
         /\ \A k \in 1 .. Len(s) : Append(s, e)[k] = s[k]
         /\ Append(s, e)[Len(s) + 1] = e
OBVIOUS

LEMMA WithRecordOK ==
  ASSUME NEW f \in Rewrites, NEW r \in Rec
  PROVE  LET w == WithRecord(f, r)
         IN  /\ w \in Rewrites
             /\ w.body = f.body \o Text(r, 0)
             /\ w.list = Append(f.list, [pos |-> Len(f.body), len |-> Length[r.id]])
             /\ Len(w.body) = Len(f.body) + Length[r.id] /\ Len(w.list) = Len(f.list) + 1
             /\ \A k \in 1 .. Len(f.body) : w.body[k] = f.body[k]
             /\ \A k \in 1 .. Length[r.id] : w.body[Len(f.body) + k] = TextCell(r, k)
             /\ \A k \in 1 .. Len(f.list) : w.list[k] = f.list[k]
             /\ w.list[Len(f.list) + 1] = [pos |-> Len(f.body), len |-> Length[r.id]]
<1> DEFINE w == WithRecord(f, r)
           t == Text(r, 0)
           e == [pos |-> Len(f.body), len |-> Length[r.id]]
<1>1. f.body \in Seq(Cells) /\ f.list \in Seq(Entries)
  BY DEF Rewrites
<1>2. /\ t \in Seq(Cells) /\ Len(t) = Length[r.id] /\ Length[r.id] \in Nat
      /\ \A k \in 1 .. Length[r.id] : t[k] = TextCell(r, k)
  BY TextOK, RecOK, LengthOK
<1>3. e \in Entries
  BY <1>1, RecOK, LengthOK DEF Entries
<1>4. w.body = f.body \o t /\ w.list = Append(f.list, e) /\ w = [body |-> w.body, list |-> w.list]
  BY DEF WithRecord
<1> HIDE DEF w, t, e
<1>5. w \in Rewrites
  <2>1. f.body \o t \in Seq(Cells) /\ Append(f.list, e) \in Seq(Entries)
    BY <1>1, <1>2, <1>3
  <2> QED
    BY <2>1, <1>4 DEF Rewrites
<1>6. Len(w.body) = Len(f.body) + Length[r.id] /\ Len(w.list) = Len(f.list) + 1
  <2>1. Len(f.body \o t) = Len(f.body) + Len(t)
    BY <1>1, <1>2, JoinOK
  <2>2. Len(Append(f.list, e)) = Len(f.list) + 1
    BY <1>1, <1>3, AppendOK
  <2> QED
    BY <1>2, <1>4, <2>1, <2>2
<1>7. /\ \A k \in 1 .. Len(f.body) : w.body[k] = f.body[k]
      /\ \A k \in 1 .. Length[r.id] : w.body[Len(f.body) + k] = t[k]
  <2>1. /\ \A k \in 1 .. Len(f.body) : (f.body \o t)[k] = f.body[k]
        /\ \A k \in 1 .. Len(t) : (f.body \o t)[Len(f.body) + k] = t[k]
    BY <1>1, <1>2, JoinOK
  <2> QED
    BY <1>2, <1>4, <2>1
<1>8. /\ \A k \in 1 .. Len(f.list) : w.list[k] = f.list[k]
      /\ w.list[Len(f.list) + 1] = e
  BY <1>1, <1>3, <1>4, AppendOK
<1> QED
  BY <1>2, <1>4, <1>5, <1>6, <1>7, <1>8 DEF w, e, t

LEMMA RewrittenOK ==
  ASSUME NEW n \in Nat, NEW kept, DOMAIN kept \subseteq 1 .. n,
         \A k \in DOMAIN kept : kept[k] \in Rec
  PROVE  LET file == Rewritten(kept, n)
         IN  /\ \A k \in 0 .. n : file[k] \in Rewrites
             /\ file[0] = [body |-> Header, list |-> <<>>]
             /\ \A k \in 1 .. n : file[k] = IF k \in DOMAIN kept THEN WithRecord(file[k - 1], kept[k])
                                                                 ELSE file[k - 1]
<1> DEFINE base == [body |-> Header, list |-> <<>>]
           step == [y \in Nat \X Rewrites |-> IF y[1] \in DOMAIN kept
                                              THEN WithRecord(y[2], kept[y[1]]) ELSE y[2]]
           next(f, k) == IF k \in DOMAIN kept THEN WithRecord(f[k - 1], kept[k]) ELSE f[k - 1]
           body(f) == [k \in 0 .. n |-> IF k = 0 THEN base ELSE next(f, k)]
<1>1. base \in Rewrites
  BY CellsOK DEF Rewrites
<1>2. ASSUME NEW k \in Nat, NEW y \in Rewrites
      PROVE  (IF k \in DOMAIN kept THEN WithRecord(y, kept[k]) ELSE y) \in Rewrites
  BY WithRecordOK
<1>3. PICK f \in ByRecursion(n, Rewrites, base, step) : TRUE
  <2>1. step \in [Nat \X Rewrites -> Rewrites]
    BY <1>2
  <2> HIDE DEF base, step
  <2> QED
    BY <1>1, <2>1, Recursion
<1> USE DEF ByRecursion
<1>4. \A k \in 1 .. n : step[<<k, f[k - 1]>>] = next(f, k)
  <2>1. ASSUME NEW k \in 1 .. n PROVE <<k, f[k - 1]>> \in Nat \X Rewrites
    OBVIOUS
  <2> QED
    BY <2>1
<1>5. f = body(f)
  <2> HIDE DEF base, next, step
  <2>1. ASSUME NEW k \in 0 .. n PROVE f[k] = (IF k = 0 THEN base ELSE next(f, k))
    <3>1. CASE k = 0
      BY <1>3, <3>1
    <3>2. CASE k # 0
      <4>1. k \in 1 .. n
        BY <3>2
      <4> QED
        BY <1>3, <1>4, <3>2, <4>1
    <3> QED
      BY <3>1, <3>2
  <2> QED
    BY <1>3, <2>1
<1>6. Rewritten(kept, n) = CHOOSE g : g = body(g)
  BY DEF Rewritten
<1> DEFINE file == Rewritten(kept, n)
<1>7. file = body(file)
  <2> HIDE DEF body
  <2> QED  BY <1>5, <1>6
<1>8. file[0] = base /\ \A k \in 1 .. n : file[k] = next(file, k)
  <2> HIDE DEF file, base, next
  <2> QED  BY <1>7
<1> HIDE DEF file
<1>9. \A k \in 0 .. n : file[k] \in Rewrites
  <2> DEFINE G == {k \in 0 .. n : file[k] \in Rewrites}
  <2>1. 0 \in G
    BY <1>1, <1>8
  <2>2. ASSUME NEW k \in 1 .. n, k - 1 \in G PROVE k \in G
    <3>1. file[k - 1] \in Rewrites
      BY <2>2
    <3>2. k \in DOMAIN kept => WithRecord(file[k - 1], kept[k]) \in Rewrites
      BY <3>1, WithRecordOK
    <3> QED
      BY <3>1, <3>2, <1>8
  <2>3. \A k \in 0 .. n : k \in G
    <3> HIDE DEF G
    <3> QED  BY <2>1, <2>2, UpTo
  <2> QED
    BY <2>3
<1> QED
  BY <1>8, <1>9 DEF file

\* The text of a file written anew is that of the records kept.
TextOf(s, kept) ==
  \A j \in 1 .. Len(s) :
    s[j].kind = "text" => \E m \in DOMAIN kept : s[j].id = kept[m].id /\ s[j].bytes = kept[m].bytes

LEMMA RewrittenCells ==
  ASSUME NEW n \in Nat, NEW kept, DOMAIN kept \subseteq 1 .. n,
         \A k \in DOMAIN kept : kept[k] \in Rec
  PROVE  \A k \in 0 .. n : TextOf(Rewritten(kept, n)[k].body, kept)
<1> DEFINE file == Rewritten(kept, n)
           Mine(c) == c.kind = "text" =>
                        \E m \in DOMAIN kept : c.id = kept[m].id /\ c.bytes = kept[m].bytes
           G == {k \in 0 .. n : \A j \in 1 .. Len(file[k].body) : Mine(file[k].body[j])}
<1>1. /\ \A k \in 0 .. n : file[k] \in Rewrites
      /\ file[0] = [body |-> Header, list |-> <<>>]
      /\ \A k \in 1 .. n : file[k] = IF k \in DOMAIN kept THEN WithRecord(file[k - 1], kept[k])
                                                          ELSE file[k - 1]
  BY RewrittenOK
<1> HIDE DEF file
<1>2. 0 \in G
  BY <1>1, CellsOK
<1>3. ASSUME NEW k \in 1 .. n, k - 1 \in G PROVE k \in G
  <2> DEFINE f == file[k - 1]
  <2>1. f \in Rewrites /\ f.body \in Seq(Cells) /\ \A j \in 1 .. Len(f.body) : Mine(f.body[j])
    BY <1>1, <1>3 DEF Rewrites
  <2>2. CASE k \in DOMAIN kept
    <3> DEFINE w == WithRecord(f, kept[k])
    <3>1. kept[k].id \in IDs /\ kept[k].bytes \in 0 .. Size
      BY <2>2, RecOK
    <3>0. kept[k] \in Rec
      BY <2>2
    <3>2. /\ Len(w.body) = Len(f.body) + Length[kept[k].id]
          /\ \A j \in 1 .. Len(f.body) : w.body[j] = f.body[j]
          /\ \A j \in 1 .. Length[kept[k].id] : w.body[Len(f.body) + j] = TextCell(kept[k], j)
      <4> HIDE DEF f
      <4> QED  BY <2>1, <3>0, WithRecordOK
    <3>3. file[k] = w
      BY <1>1, <2>2
    <3> HIDE DEF w, f
    <3>4. ASSUME NEW j \in 1 .. Len(w.body) PROVE Mine(w.body[j])
      <4>1. CASE j <= Len(f.body)
        BY <4>1, <3>2, <2>1
      <4>2. CASE j > Len(f.body)
        <5>1. /\ j - Len(f.body) \in 1 .. Length[kept[k].id]
              /\ Len(f.body) + (j - Len(f.body)) = j
          BY <4>2, <3>2, <3>1, <2>1, LengthOK
        <5>2. w.body[j] = TextCell(kept[k], j - Len(f.body))
          BY <5>1, <3>2
        <5> QED
          BY <5>2, <2>2 DEF TextCell
      <4> QED
        BY <4>1, <4>2, <2>1
    <3>5. \A j \in 1 .. Len(file[k].body) : Mine(file[k].body[j])
      <4> HIDE DEF Mine
      <4> QED  BY <3>3, <3>4
    <3> HIDE DEF Mine
    <3> QED
      BY <3>5
  <2>3. CASE k \notin DOMAIN kept
    <3>1. file[k] = file[k - 1]
      BY <2>3, <1>1
    <3> HIDE DEF Mine
    <3> QED
      BY <3>1, <2>1
  <2> QED
    BY <2>2, <2>3
<1>4. \A k \in 0 .. n : k \in G
  <2> HIDE DEF G
  <2> QED  BY <1>2, <1>3, UpTo
<1>5. \A k \in 0 .. n : TextOf(file[k].body, kept)
  BY <1>4 DEF TextOf
<1> QED
  BY <1>5 DEF file

-----------------------------------------------------------------------------
(* A line that stays.                                                      *)

LEMMA LineKept ==
  ASSUME NEW s \in Seq(Cells), NEW t \in Seq(Cells), NEW k, LineAt(s, k),
         k + Length[s[k].id] <= Len(t) + 1,
         \A j \in k .. k + Length[s[k].id] - 1 : t[j] = s[j]
  PROVE  LineAt(t, k) /\ t[k] = s[k]
<1>1. k \in Nat /\ k >= 1 /\ Length[s[k].id] \in Nat /\ Length[s[k].id] > 0
  BY LineOK, LengthOK
<1>2. t[k] = s[k] /\ k \in 1 .. Len(t)
  BY <1>1
<1>3. ASSUME NEW j \in 1 .. Length[s[k].id] PROVE t[k + j - 1] = TextCell(s[k], j)
  <2>1. k + j - 1 \in k .. k + Length[s[k].id] - 1
    BY <1>1, SMTT(20)
  <2> QED
    BY <2>1 DEF LineAt
<1> QED
  BY <1>2, <1>3 DEF LineAt

LEMMA LineOfText ==
  ASSUME NEW t \in Seq(Cells), NEW pos \in Nat, NEW r \in Rec,
         pos + Length[r.id] <= Len(t),
         \A j \in 1 .. Length[r.id] : t[pos + j] = TextCell(r, j)
  PROVE  LineAt(t, pos + 1) /\ t[pos + 1].id = r.id /\ t[pos + 1].bytes = r.bytes
<1>1. Length[r.id] \in Nat /\ Length[r.id] > 0
  BY RecOK, LengthOK
<1>2. t[pos + 1] = TextCell(r, 1) /\ pos + 1 \in 1 .. Len(t)
  BY <1>1
<1>3. t[pos + 1].id = r.id /\ t[pos + 1].bytes = r.bytes /\ t[pos + 1].kind = "text"
  BY <1>2 DEF TextCell
<1>4. ASSUME NEW j \in 1 .. Length[r.id] PROVE t[pos + 1 + j - 1] = TextCell(t[pos + 1], j)
  <2>1. pos + 1 + j - 1 = pos + j
    BY <1>1
  <2> QED
    BY <2>1, <1>3 DEF TextCell
<1>5. pos + 1 + Length[t[pos + 1].id] <= Len(t) + 1
  BY <1>1, <1>3
<1>6. \A j \in 1 .. Length[t[pos + 1].id] : t[pos + 1 + j - 1] = TextCell(t[pos + 1], j)
  BY <1>3, <1>4
<1> QED
  BY <1>2, <1>3, <1>5, <1>6 DEF LineAt

-----------------------------------------------------------------------------
(* An exact index.                                                         *)

EndOf(l, k) == IF k = 0 THEN 1 ELSE l[k].pos + l[k].len
First(s, l, k) == s[l[k].pos + 1]

LEMMA ExactOK ==
  ASSUME NEW s \in Seq(Cells), NEW l \in Seq(Entries)
  PROVE  Exact(s, l) <=>
           /\ Len(s) = EndOf(l, Len(l))
           /\ \A k \in 1 .. Len(l) : /\ l[k].pos = EndOf(l, k - 1)
                                     /\ LineAt(s, l[k].pos + 1)
                                     /\ l[k].len = Length[First(s, l, k).id]
           /\ \A j, k \in 1 .. Len(l) : First(s, l, j).id = First(s, l, k).id => j = k
<1>1. DOMAIN l = 1 .. Len(l) /\ Len(Header) = 1
  BY CellsOK
<1> QED
  BY <1>1 DEF Exact, EndOf, First

LEMMA ExactEntry ==
  ASSUME NEW s \in Seq(Cells), NEW l \in Seq(Entries), Exact(s, l), NEW k \in 1 .. Len(l)
  PROVE  /\ l[k].pos \in Nat /\ l[k].pos + l[k].len <= Len(s) /\ l[k].len \in Nat
         /\ LineAt(s, l[k].pos + 1) /\ l[k].len = Length[First(s, l, k).id]
         /\ First(s, l, k).id \in IDs /\ First(s, l, k).bytes \in 0 .. Size
         /\ ReadAt(s, l[k].pos).id = First(s, l, k).id
         /\ ReadAt(s, l[k].pos).bytes = First(s, l, k).bytes
<1>0. l[k] \in Entries
  OBVIOUS
<1>1. l[k].pos \in Nat /\ l[k].len \in Nat
  BY <1>0 DEF Entries
<1>2. LineAt(s, l[k].pos + 1) /\ l[k].len = Length[First(s, l, k).id]
  BY ExactOK
<1>3. /\ l[k].pos + 1 \in 1 .. Len(s) /\ First(s, l, k).id \in IDs
      /\ First(s, l, k).bytes \in 0 .. Size
      /\ l[k].pos + 1 + Length[First(s, l, k).id] <= Len(s) + 1
  BY <1>2, LineOK DEF First
<1>4. l[k].pos + 1 \in Starts(s, l[k].pos)
  BY <1>1, <1>2, <1>3 DEF Starts
<1>5. ReadAt(s, l[k].pos) = [id |-> First(s, l, k).id, bytes |-> First(s, l, k).bytes,
                             index |-> 0, done |-> FALSE]
  BY <1>1, <1>4, ReadLine DEF First
<1>6. /\ ReadAt(s, l[k].pos).id = First(s, l, k).id
      /\ ReadAt(s, l[k].pos).bytes = First(s, l, k).bytes
  BY <1>5
<1>7. l[k].pos + l[k].len <= Len(s)
  <2>1. Length[First(s, l, k).id] \in Nat
    BY <1>3, LengthOK
  <2> QED
    BY <1>1, <1>2, <1>3, <2>1
<1> QED
  BY <1>1, <1>2, <1>3, <1>6, <1>7

LEMMA ExactHeader == Exact(Header, <<>>)
BY CellsOK DEF Exact

\* A record is added to a file that has none of its file.
LEMMA ExactAppend ==
  ASSUME NEW f \in Rewrites, Exact(f.body, f.list), NEW r \in Rec,
         \A k \in 1 .. Len(f.list) : First(f.body, f.list, k).id # r.id
  PROVE  LET w == WithRecord(f, r)
         IN  /\ Exact(w.body, w.list)
             /\ \A k \in 1 .. Len(f.list) : First(w.body, w.list, k) = First(f.body, f.list, k)
             /\ First(w.body, w.list, Len(w.list)).id = r.id
             /\ First(w.body, w.list, Len(w.list)).bytes = r.bytes
<1> DEFINE s == f.body
           l == f.list
           w == WithRecord(f, r)
           t == w.body
           m == w.list
<1>1. s \in Seq(Cells) /\ l \in Seq(Entries) /\ w \in Rewrites /\ t \in Seq(Cells) /\ m \in Seq(Entries)
  BY WithRecordOK DEF Rewrites
<1>2. /\ Len(t) = Len(s) + Length[r.id] /\ Len(m) = Len(l) + 1
      /\ \A k \in 1 .. Len(s) : t[k] = s[k]
      /\ \A k \in 1 .. Length[r.id] : t[Len(s) + k] = TextCell(r, k)
      /\ \A k \in 1 .. Len(l) : m[k] = l[k]
      /\ m[Len(l) + 1] = [pos |-> Len(s), len |-> Length[r.id]]
  BY WithRecordOK
<1>3. Exact(s, l)
  OBVIOUS
<1>4. \A k \in 1 .. Len(l) : First(s, l, k).id # r.id
  OBVIOUS
<1>5. r.id \in IDs /\ Length[r.id] \in Nat /\ Length[r.id] > 0
  BY RecOK, LengthOK
<1> HIDE DEF s, l, w, t, m
<1>11. m[Len(l) + 1].pos = Len(s) /\ m[Len(l) + 1].len = Length[r.id]
  BY <1>2
<1>6. ASSUME NEW k \in 1 .. Len(l)
      PROVE  /\ First(t, m, k) = First(s, l, k)
             /\ m[k].pos = EndOf(m, k - 1) /\ LineAt(t, m[k].pos + 1)
             /\ m[k].len = Length[First(t, m, k).id]
  <2>1. /\ l[k].pos \in Nat /\ LineAt(s, l[k].pos + 1) /\ l[k].len = Length[First(s, l, k).id]
        /\ l[k].pos = EndOf(l, k - 1) /\ l[k].pos + l[k].len <= Len(s) /\ l[k].len \in Nat
    BY <1>1, <1>3, ExactOK, ExactEntry
  <2>2. EndOf(m, k - 1) = EndOf(l, k - 1)
    BY <1>2 DEF EndOf
  <2>3. LineAt(t, l[k].pos + 1) /\ t[l[k].pos + 1] = s[l[k].pos + 1]
    <3> DEFINE b == l[k].pos + 1
    <3>1. b \in Nat /\ b >= 1 /\ Length[s[b].id] = l[k].len /\ b + l[k].len <= Len(s) + 1
      BY <2>1, <1>1 DEF First
    <3>2. \A j \in b .. b + Length[s[b].id] - 1 : t[j] = s[j]
      <4>1. PICK e : e = b + Length[s[b].id] - 1
        OBVIOUS
      <4>2. e \in Nat /\ e <= Len(s) /\ Len(s) \in Nat
        <5>1. PICK c : c = Length[s[b].id]
          OBVIOUS
        <5>2. c \in Nat /\ b + c <= Len(s) + 1 /\ e = b + c - 1 /\ b \in Nat /\ b >= 1
          BY <2>1, <3>1, <4>1, <5>1
        <5>3. Len(s) \in Nat
          BY <1>1
        <5> HIDE DEF b
        <5> QED
          BY <5>2, <5>3
      <4>3. \A j \in b .. e : j \in 1 .. Len(s)
        <5> HIDE DEF b
        <5> QED
          BY <3>1, <4>2
      <4> HIDE DEF b
      <4> QED
        BY <1>2, <4>1, <4>3
    <3>3. b + Length[s[b].id] <= Len(t) + 1
      <4>1. Len(s) \in Nat /\ Len(t) = Len(s) + Length[r.id]
        BY <1>1, <1>2
      <4>2. b + Length[s[b].id] <= Len(s) + 1 /\ b + Length[s[b].id] \in Nat
        BY <3>1, <2>1
      <4> HIDE DEF b
      <4> QED
        BY <4>1, <4>2, <1>5
    <3> HIDE DEF b
    <3>4. LineAt(s, b)
      BY <2>1 DEF b
    <3> QED
      BY <3>2, <3>3, <3>4, <1>1, LineKept DEF b
  <2> QED
    BY <2>1, <2>2, <2>3, <1>2 DEF First
<1>7. /\ LineAt(t, Len(s) + 1) /\ t[Len(s) + 1].id = r.id /\ t[Len(s) + 1].bytes = r.bytes
  <2>1. Len(s) \in Nat /\ Len(s) + Length[r.id] <= Len(t)
    BY <1>1, <1>2, <1>5
  <2> QED
    BY <2>1, <1>1, <1>2, LineOfText
<1>8. /\ First(t, m, Len(l) + 1).id = r.id /\ First(t, m, Len(l) + 1).bytes = r.bytes
  BY <1>11, <1>7 DEF First
<1>9. Len(s) = EndOf(m, Len(l))
  <2>1. Len(s) = EndOf(l, Len(l))
    BY <1>1, <1>3, ExactOK
  <2>2. Len(l) \in Nat /\ (Len(l) # 0 => Len(l) \in 1 .. Len(l))
    BY <1>1
  <2>3. Len(l) # 0 => m[Len(l)] = l[Len(l)]
    BY <2>2, <1>2
  <2> QED
    BY <2>1, <2>3 DEF EndOf
<1>10. Exact(t, m)
  <2>1. Len(t) = EndOf(m, Len(m))
    BY <1>1, <1>2, <1>11 DEF EndOf
  <2>2. ASSUME NEW k \in 1 .. Len(m)
        PROVE  m[k].pos = EndOf(m, k - 1) /\ LineAt(t, m[k].pos + 1)
               /\ m[k].len = Length[First(t, m, k).id]
    <3>1. CASE k \in 1 .. Len(l)
      BY <3>1, <1>6
    <3>2. CASE k = Len(l) + 1
      BY <3>2, <1>1, <1>2, <1>11, <1>7, <1>8, <1>9
    <3> QED
      BY <3>1, <3>2, <1>1, <1>2
  <2>3. ASSUME NEW j \in 1 .. Len(m), NEW k \in 1 .. Len(m),
               First(t, m, j).id = First(t, m, k).id
        PROVE  j = k
    <3>1. \A i \in 1 .. Len(m) : i \in 1 .. Len(l) \/ i = Len(l) + 1
      BY <1>1, <1>2
    <3>2. \A i \in 1 .. Len(l) : First(t, m, i).id = First(s, l, i).id /\ First(s, l, i).id # r.id
      BY <1>4, <1>6
    <3>3. \A a, b \in 1 .. Len(l) : First(s, l, a).id = First(s, l, b).id => a = b
      BY <1>1, <1>3, ExactOK
    <3> QED
      BY <2>3, <3>1, <3>2, <3>3, <1>8
  <2> QED
    BY <2>1, <2>2, <2>3, <1>1, ExactOK
<1> QED
  BY <1>2, <1>6, <1>8, <1>10 DEF s, l, w, t, m

\* A file written anew has exactly the records kept.
Same(c, r) == c.id = r.id /\ c.bytes = r.bytes

LEMMA RewrittenExact ==
  ASSUME NEW n \in Nat, NEW kept, DOMAIN kept \subseteq 1 .. n,
         \A k \in DOMAIN kept : kept[k] \in Rec,
         \A j, k \in DOMAIN kept : kept[j].id = kept[k].id => j = k
  PROVE  LET f == Rewritten(kept, n)[n]
         IN  /\ Exact(f.body, f.list)
             /\ \A e \in 1 .. Len(f.list) :
                  \E m \in DOMAIN kept : Same(First(f.body, f.list, e), kept[m])
             /\ \A m \in DOMAIN kept :
                  \E e \in 1 .. Len(f.list) : Same(First(f.body, f.list, e), kept[m])
<1> DEFINE file == Rewritten(kept, n)
           All(f, k) == \A e \in 1 .. Len(f.list) :
                          \E m \in DOMAIN kept : m <= k /\ Same(First(f.body, f.list, e), kept[m])
           Has(f, m) == \E e \in 1 .. Len(f.list) : Same(First(f.body, f.list, e), kept[m])
           Good(f, k) == /\ Exact(f.body, f.list) /\ All(f, k)
                         /\ \A m \in DOMAIN kept : m <= k => Has(f, m)
           G == {k \in 0 .. n : Good(file[k], k)}
<1>1. /\ \A k \in 0 .. n : file[k] \in Rewrites
      /\ file[0] = [body |-> Header, list |-> <<>>]
      /\ \A k \in 1 .. n : file[k] = IF k \in DOMAIN kept THEN WithRecord(file[k - 1], kept[k])
                                                          ELSE file[k - 1]
  BY RewrittenOK
<1> HIDE DEF file
<1>2. 0 \in G
  <2>1. file[0].body = Header /\ file[0].list = <<>>
    BY <1>1
  <2>2. Exact(file[0].body, file[0].list)
    BY <2>1, ExactHeader
  <2>3. All(file[0], 0)
    BY <2>1
  <2>4. \A m \in DOMAIN kept : ~(m <= 0)
    OBVIOUS
  <2> HIDE DEF All, Has
  <2> QED
    BY <2>2, <2>3, <2>4
<1>3. ASSUME NEW k \in 1 .. n, k - 1 \in G PROVE k \in G
  <2> DEFINE f == file[k - 1]
  <2>1. f \in Rewrites /\ f.body \in Seq(Cells) /\ f.list \in Seq(Entries)
    BY <1>1 DEF Rewrites
  <2>2. Exact(f.body, f.list) /\ All(f, k - 1) /\ \A m \in DOMAIN kept : m <= k - 1 => Has(f, m)
    <3> HIDE DEF All, Has
    <3> QED  BY <1>3
  <2>3. CASE k \in DOMAIN kept
    <3> DEFINE w == WithRecord(f, kept[k])
    <3>1. kept[k] \in Rec /\ file[k] = w
      BY <2>3, <1>1
    <3>2. \A e \in 1 .. Len(f.list) : First(f.body, f.list, e).id # kept[k].id
      <4> SUFFICES ASSUME NEW e \in 1 .. Len(f.list) PROVE First(f.body, f.list, e).id # kept[k].id
        OBVIOUS
      <4>1. PICK m \in DOMAIN kept : m <= k - 1 /\ Same(First(f.body, f.list, e), kept[m])
        BY <2>2
      <4>2. m # k
        BY <4>1
      <4> QED
        BY <4>1, <4>2, <2>3 DEF Same
    <3> HIDE DEF f
    <3>3. /\ Exact(w.body, w.list) /\ Len(w.list) = Len(f.list) + 1
          /\ \A e \in 1 .. Len(f.list) : First(w.body, w.list, e) = First(f.body, f.list, e)
          /\ First(w.body, w.list, Len(w.list)).id = kept[k].id
          /\ First(w.body, w.list, Len(w.list)).bytes = kept[k].bytes
      BY <2>1, <2>2, <3>1, <3>2, ExactAppend, WithRecordOK
    <3> HIDE DEF w
    <3>4. Len(f.list) \in Nat
      BY <2>1
    <3>5. All(w, k)
      <4> SUFFICES ASSUME NEW e \in 1 .. Len(w.list)
                   PROVE  \E m \in DOMAIN kept : m <= k /\ Same(First(w.body, w.list, e), kept[m])
        OBVIOUS
      <4>1. CASE e \in 1 .. Len(f.list)
        <5>1. PICK m \in DOMAIN kept : m <= k - 1 /\ Same(First(f.body, f.list, e), kept[m])
          BY <4>1, <2>2
        <5> QED
          BY <5>1, <4>1, <3>3
      <4>2. CASE e = Len(w.list)
        BY <4>2, <3>3, <2>3 DEF Same
      <4> QED
        BY <4>1, <4>2, <3>3, <3>4
    <3>6. ASSUME NEW m \in DOMAIN kept, m <= k PROVE Has(w, m)
      <4>1. CASE m <= k - 1
        <5>1. PICK e \in 1 .. Len(f.list) : Same(First(f.body, f.list, e), kept[m])
          BY <4>1, <2>2
        <5>2. e \in 1 .. Len(w.list)
          BY <3>3, <3>4
        <5> QED
          BY <5>1, <5>2, <3>3
      <4>2. CASE m = k
        <5>1. Len(w.list) \in 1 .. Len(w.list)
          BY <3>3, <3>4
        <5> QED
          BY <5>1, <4>2, <3>3 DEF Same
      <4> QED
        BY <3>6, <4>1, <4>2
    <3> HIDE DEF All, Has
    <3>7. Good(file[k], k)
      BY <3>1, <3>3, <3>5, <3>6
    <3> QED
      BY <3>7
  <2>4. CASE k \notin DOMAIN kept
    <3>1. file[k] = f
      BY <2>4, <1>1
    <3>2. All(f, k)
      BY <2>2
    <3>3. \A m \in DOMAIN kept : m <= k => m <= k - 1
      BY <2>4
    <3> HIDE DEF All, Has
    <3> QED
      BY <3>1, <3>2, <3>3, <2>2
  <2> QED
    BY <2>3, <2>4
<1>4. n \in G
  <2>1. \A k \in 0 .. n : k \in G
    <3> HIDE DEF G
    <3> QED  BY <1>2, <1>3, UpTo
  <2> QED
    BY <2>1
<1> QED
  BY <1>4 DEF file

-----------------------------------------------------------------------------
(* What is recorded of a file.                                             *)

Reads(s, l, k) == ReadAt(s, l[k].pos)

LEMMA RecordedFirst ==
  ASSUME NEW s \in Seq(Cells), NEW l \in Seq(Entries), NEW i \in IDs
  PROVE  \/ /\ RecordedIn(s, l)[i] = NoFile
            /\ \A k \in 1 .. Len(l) : Reads(s, l, k).id # i
         \/ /\ RecordedIn(s, l)[i] \in 0 .. Size /\ RecordedIn(s, l)[i] # NoFile
            /\ \E k \in 1 .. Len(l) : /\ Reads(s, l, k).id = i
                                      /\ RecordedIn(s, l)[i] = Reads(s, l, k).bytes
                                      /\ \A j \in 1 .. Len(l) : j < k => Reads(s, l, j).id # i
<1> DEFINE Of == {k \in 1 .. Len(l) : Reads(s, l, k).id = i}
<1>1. RecordedIn(s, l)[i] = IF Of = {} THEN NoFile ELSE Reads(s, l, Min(Of)).bytes
  <2> DEFINE entry == [k \in DOMAIN l |-> ReadAt(s, l[k].pos)]
             of == {k \in DOMAIN l : entry[k].id = i}
  <2>1. DOMAIN l = 1 .. Len(l)
    OBVIOUS
  <2>2. RecordedIn(s, l)[i] = IF of = {} THEN NoFile ELSE entry[Min(of)].bytes
    BY DEF RecordedIn
  <2>3. of = Of
    BY <2>1 DEF Reads
  <2>4. Of # {} => Min(Of) \in Of
    <3>1. Of \in SUBSET Nat
      OBVIOUS
    <3> HIDE DEF Of
    <3> QED
      BY <3>1, LeastOf
  <2>5. Of # {} => entry[Min(Of)] = Reads(s, l, Min(Of))
    BY <2>1, <2>4 DEF Reads
  <2> HIDE DEF of, Of, entry
  <2> QED
    BY <2>2, <2>3, <2>5
<1>2. CASE Of = {}
  BY <1>1, <1>2
<1>3. CASE Of # {}
  <2> DEFINE k == Min(Of)
  <2>1. k \in Of /\ \A j \in Of : k <= j
    <3>1. Of \in SUBSET Nat
      OBVIOUS
    <3> HIDE DEF Of
    <3> QED
      BY <3>1, <1>3, LeastOf
  <2>2. RecordedIn(s, l)[i] = Reads(s, l, k).bytes
    BY <1>1, <1>3
  <2> HIDE DEF k
  <2>3. /\ k \in 1 .. Len(l) /\ Reads(s, l, k).id = i
        /\ \A j \in 1 .. Len(l) : j < k => Reads(s, l, j).id # i
    BY <2>1
  <2>4. l[k].pos \in Nat
    BY <2>3, EntryOK
  <2>5. Reads(s, l, k).bytes \in 0 .. Size
    BY <2>3, <2>4, ReadOK DEF Reads
  <2>6. RecordedIn(s, l)[i] # NoFile
    BY <2>2, <2>5, StoreAssumption
  <2> QED
    BY <2>2, <2>3, <2>5, <2>6
<1> QED
  BY <1>2, <1>3

LEMMA RecordedType ==
  ASSUME NEW s \in Seq(Cells), NEW l \in Seq(Entries)
  PROVE  RecordedIn(s, l) \in [IDs -> (0 .. Size) \cup {NoFile}]
<1>1. ASSUME NEW i \in IDs PROVE RecordedIn(s, l)[i] \in (0 .. Size) \cup {NoFile}
  BY RecordedFirst
<1>2. RecordedIn(s, l) = [i \in IDs |-> RecordedIn(s, l)[i]]
  BY DEF RecordedIn
<1> QED
  BY <1>1, <1>2

FoundAs(s, l, i, b, k) ==
  /\ k \in 1 .. Len(l) /\ Reads(s, l, k).id = i
  /\ \A j \in 1 .. k : Reads(s, l, j).id = i => Reads(s, l, j).bytes = b

LEMMA RecordedIs ==
  ASSUME NEW s \in Seq(Cells), NEW l \in Seq(Entries), NEW i \in IDs, NEW b, NEW k,
         FoundAs(s, l, i, b, k)
  PROVE  RecordedIn(s, l)[i] = b
<1>1. PICK m \in 1 .. Len(l) : /\ Reads(s, l, m).id = i
                               /\ RecordedIn(s, l)[i] = Reads(s, l, m).bytes
                               /\ \A j \in 1 .. Len(l) : j < m => Reads(s, l, j).id # i
  BY RecordedFirst DEF FoundAs
<1>2. m \in 1 .. k
  BY <1>1 DEF FoundAs
<1> QED
  BY <1>1, <1>2 DEF FoundAs

\* Each record is that of a cell of its file.
LEMMA RecordedCell ==
  ASSUME NEW s \in Seq(Cells), NEW l \in Seq(Entries), NEW i \in IDs, RecordedIn(s, l)[i] # NoFile
  PROVE  \E c \in 1 .. Len(s) :
            s[c].kind = "text" /\ s[c].id = i /\ s[c].bytes = RecordedIn(s, l)[i]
<1>1. PICK k \in 1 .. Len(l) : /\ Reads(s, l, k).id = i
                               /\ RecordedIn(s, l)[i] = Reads(s, l, k).bytes
  BY RecordedFirst
<1>2. l[k].pos \in Nat
  BY EntryOK
<1>3. Reads(s, l, k) # None
  BY <1>1, NoneOK, LengthOK
<1>4. PICK c \in Starts(s, l[k].pos) : TRUE
  BY <1>2, <1>3, ReadOK DEF Reads
<1>5. LineAt(s, c)
  BY DEF Starts
<1>6. Reads(s, l, k).id = s[c].id /\ Reads(s, l, k).bytes = s[c].bytes
  BY <1>2, ReadLine DEF Reads
<1> QED
  BY <1>1, <1>5, <1>6, LineOK

LEMMA RecordedExact ==
  ASSUME NEW s \in Seq(Cells), NEW l \in Seq(Entries), NEW i \in IDs, Exact(s, l)
  PROVE  /\ \A k \in 1 .. Len(l) : First(s, l, k).id = i => RecordedIn(s, l)[i] = First(s, l, k).bytes
         /\ (\A k \in 1 .. Len(l) : First(s, l, k).id # i) => RecordedIn(s, l)[i] = NoFile
<1>1. \A k \in 1 .. Len(l) : /\ Reads(s, l, k).id = First(s, l, k).id
                             /\ Reads(s, l, k).bytes = First(s, l, k).bytes
  BY ExactEntry DEF Reads
<1>2. \A j, k \in 1 .. Len(l) : First(s, l, j).id = First(s, l, k).id => j = k
  BY ExactOK
<1> QED
  BY <1>1, <1>2, RecordedFirst

-----------------------------------------------------------------------------
(* The methods.                                                            *)

DatFiles == Files(Seq(Cells))
IdxFiles == Files(Seq(Entries))

LEMMA FilesOK ==
  /\ \A f \in {Missing, Old, Emptied} : /\ f \in DatFiles /\ f \in IdxFiles
                                        /\ f.body = <<>> /\ f.state # "written"
  /\ Missing.state = "missing" /\ Old.state = "old" /\ Emptied.state = "empty"
  /\ \A s : Written(s).state = "written" /\ Written(s).body = s
  /\ \A s \in Seq(Cells) : Written(s) \in DatFiles
  /\ \A s \in Seq(Entries) : Written(s) \in IdxFiles
<1>1. \A S : <<>> \in Seq(S)
  OBVIOUS
<1> QED
  BY <1>1 DEF DatFiles, IdxFiles, Files, States, Missing, Old, Emptied, Written

LEMMA FileOK ==
  /\ \A d \in DatFiles : /\ d.state \in States /\ d.body \in Seq(Cells)
                         /\ d.state # "written" => d.body = <<>>
                         /\ d.state = "written" => d = Written(d.body)
  /\ \A x \in IdxFiles : /\ x.state \in States /\ x.body \in Seq(Entries)
                         /\ x.state # "written" => x.body = <<>>
                         /\ x.state = "written" => x = Written(x.body)
BY DEF DatFiles, IdxFiles, Files, Written

\* How OpenResumeData ends: for a first run, with files that are too old, or
\* with the files and their index read.
FirstRun(o, d, x, l) ==
  /\ d.state \in {"missing", "empty"}
  /\ o.dat = Emptied /\ o.idx = x /\ o.list = l /\ o.result = "ok" /\ o.first

TooOld(o, d, x, l) ==
  /\ d.state = "old" \/ (d.state = "written" /\ x.state = "old")
  /\ o.dat = Missing /\ o.idx = Missing /\ o.list = (IF d.state = "old" THEN l ELSE <<>>)
  /\ o.result = "ok" /\ ~o.first

IsRead(o, d, x) ==
  /\ d.state = "written" /\ x.state # "old"
  /\ o.dat = d /\ o.idx = (IF x.state = "missing" THEN Emptied ELSE x) /\ o.list = x.body
  /\ o.result = (IF x.state = "empty" THEN "no more data" ELSE "ok") /\ ~o.first

Fields == {"dat", "idx", "list", "index", "result", "first", "infos"}

LEMMA Opening ==
  ASSUME NEW d \in DatFiles, NEW x \in IdxFiles, NEW l
  PROVE  LET o == OpenResumeData(d, x, l)
         IN  /\ FirstRun(o, d, x, l) \/ TooOld(o, d, x, l) \/ IsRead(o, d, x)
             /\ DOMAIN o = Fields
<1> DEFINE o == OpenResumeData(d, x, l)
<1> SUFFICES /\ FirstRun(o, d, x, l) \/ TooOld(o, d, x, l) \/ IsRead(o, d, x)
             /\ DOMAIN o = Fields
  OBVIOUS
<1>1. d.state \in States /\ x.state \in States /\ (x.state # "written" => x.body = <<>>)
  BY FileOK
<1>2. CASE d.state \in {"missing", "empty"}
  <2>1. o = Opened(Emptied, x, l, TRUE, "ok")
    BY <1>2 DEF OpenResumeData
  <2> HIDE DEF o
  <2> QED
    BY <1>2, <2>1 DEF Fields, Opened, Outcome, FirstRun
<1>3. CASE d.state = "old"
  <2>1. o = Opened(Missing, Missing, l, FALSE, "ok")
    BY <1>3 DEF OpenResumeData
  <2> HIDE DEF o
  <2> QED
    BY <1>3, <2>1 DEF Fields, Opened, Outcome, TooOld
<1>4. CASE d.state = "written" /\ x.state = "old"
  <2>1. o = Opened(Missing, Missing, <<>>, FALSE, "ok")
    BY <1>4 DEF OpenResumeData
  <2> HIDE DEF o
  <2> QED
    BY <1>4, <2>1 DEF Fields, Opened, Outcome, TooOld
<1>5. CASE d.state = "written" /\ x.state = "missing"
  <2>1. o = Opened(d, Emptied, <<>>, FALSE, "ok")
    BY <1>5 DEF OpenResumeData
  <2> HIDE DEF o
  <2> QED
    BY <1>1, <1>5, <2>1 DEF Fields, Opened, Outcome, IsRead
<1>6. CASE d.state = "written" /\ x.state = "empty"
  <2>1. o = Opened(d, x, <<>>, FALSE, "no more data")
    BY <1>6 DEF OpenResumeData
  <2> HIDE DEF o
  <2> QED
    BY <1>1, <1>6, <2>1 DEF Fields, Opened, Outcome, IsRead
<1>7. CASE d.state = "written" /\ x.state = "written"
  <2>1. o = Opened(d, x, x.body, FALSE, "ok")
    BY <1>7 DEF OpenResumeData
  <2> HIDE DEF o
  <2> QED
    BY <1>1, <1>7, <2>1 DEF Fields, Opened, Outcome, IsRead
<1> QED
  BY <1>1, <1>2, <1>3, <1>4, <1>5, <1>6, <1>7 DEF States

\* How ReadResumeUploadDataByFileID ends.
ReadFirstRun(o, d, x, l, r) ==
  /\ d.state \in {"missing", "empty"}
  /\ o.dat = Emptied /\ o.idx = x /\ o.list = l /\ o.first
  /\ o.result = "no match" /\ o.index = r.index

ReadTooOld(o, d, x, l, r) ==
  /\ d.state = "old" \/ (d.state = "written" /\ x.state = "old")
  /\ o.dat = Missing /\ o.idx = Missing /\ o.list = (IF d.state = "old" THEN l ELSE <<>>)
  /\ ~o.first /\ o.result = "open error" /\ o.index = r.index

ReadFiles(o, d, x) ==
  /\ d.state = "written" /\ x.state # "old"
  /\ o.dat = d /\ o.idx = (IF x.state = "missing" THEN Emptied ELSE x) /\ o.list = x.body
  /\ ~o.first

FindsNone(s, l, i) == \A k \in 1 .. Len(l) : Reads(s, l, k).id # i
Finds(s, l, i, n) ==
  /\ n \in 1 .. Len(l) /\ Reads(s, l, n).id = i
  /\ \A j \in 1 .. Len(l) : j < n => Reads(s, l, j).id # i

ReadEnds(o, d, x, r) ==
  \/ x.state = "empty" /\ o.result = "no more data" /\ o.index = r.index
  \/ x.state # "empty" /\ r.index = 0 /\ o.result = "ok" /\ o.index = 0
  \/ /\ x.state # "empty" /\ r.index # 0 /\ FindsNone(d.body, x.body, r.id)
     /\ o.result \in {"no more data", "no match"} /\ o.index = 0
  \/ /\ x.state # "empty" /\ r.index # 0 /\ Finds(d.body, x.body, r.id, o.index)
     /\ o.result = "ok"

LEMMA Reading ==
  ASSUME NEW d \in DatFiles, NEW x \in IdxFiles, Len(x.body) <= MaxEntries, NEW l, NEW r \in Rec
  PROVE  LET o == ReadByFileID(d, x, l, r)
         IN  \/ ReadFirstRun(o, d, x, l, r) \/ ReadTooOld(o, d, x, l, r)
             \/ ReadFiles(o, d, x) /\ ReadEnds(o, d, x, r)
<1> DEFINE p == OpenResumeData(d, x, l)
           o == LoadResumeInfo(d, x, l)
           q == ReadByFileID(d, x, l, r)
<1> SUFFICES \/ ReadFirstRun(q, d, x, l, r) \/ ReadTooOld(q, d, x, l, r)
             \/ ReadFiles(q, d, x) /\ ReadEnds(q, d, x, r)
  OBVIOUS
<1>1. /\ FirstRun(p, d, x, l) \/ TooOld(p, d, x, l) \/ IsRead(p, d, x)
      /\ DOMAIN p = Fields
  BY Opening
<1>2. d.body \in Seq(Cells) /\ x.body \in Seq(Entries) /\ r.index \in 0 .. MaxEntries
  BY FileOK, RecOK
<1>3. /\ o.dat = p.dat /\ o.idx = p.idx /\ o.list = p.list /\ o.first = p.first
      /\ o.result = (IF p.result = "ok" /\ p.first THEN "no match"
                     ELSE IF p.dat.state = "missing" THEN "open error" ELSE p.result)
      /\ o.infos = (IF o.result = "ok" THEN Records(p.dat.body, p.list) ELSE NoRecords)
  <2>1. p = OpenResumeData(d, x, l)
    OBVIOUS
  <2> HIDE DEF p
  <2> QED
    BY <2>1, <1>1 DEF LoadResumeInfo, Fields
<1>8. DOMAIN o = Fields
  <2>1. p = OpenResumeData(d, x, l)
    OBVIOUS
  <2> HIDE DEF p
  <2> QED
    BY <2>1, <1>1 DEF LoadResumeInfo
<1> DEFINE same == {k \in DOMAIN o.infos : o.infos[k].id = r.id}
<1>4. /\ q.dat = o.dat /\ q.idx = o.idx /\ q.list = o.list /\ q.first = o.first
      /\ \/ (o.result # "ok" \/ r.index = 0) /\ q.result = o.result /\ q.index = r.index
         \/ /\ o.result = "ok" /\ r.index # 0 /\ DOMAIN o.infos = {}
            /\ q.result = "no more data" /\ q.index = 0
         \/ /\ o.result = "ok" /\ r.index # 0 /\ same = {}
            /\ q.result = "no match" /\ q.index = 0
         \/ /\ o.result = "ok" /\ r.index # 0 /\ same # {}
            /\ q.result = "ok" /\ q.index = Min(same)
  <2>1. o = LoadResumeInfo(d, x, l)
    OBVIOUS
  <2> HIDE DEF o
  <2> QED
    BY <2>1, <1>8 DEF ReadByFileID, Fields
<1> HIDE DEF p, o, q
<1>5. CASE FirstRun(p, d, x, l)
  BY <1>3, <1>4, <1>5, FilesOK DEF FirstRun, ReadFirstRun
<1>6. CASE TooOld(p, d, x, l)
  BY <1>3, <1>4, <1>6, FilesOK DEF TooOld, ReadTooOld
<1>7. CASE IsRead(p, d, x)
  <2>1. o.result = (IF x.state = "empty" THEN "no more data" ELSE "ok")
    BY <1>3, <1>7 DEF IsRead
  <2>2. ReadFiles(q, d, x)
    BY <1>3, <1>4, <1>7 DEF IsRead, ReadFiles
  <2>3. CASE o.result # "ok" \/ r.index = 0
    BY <2>1, <2>3, <2>2, <1>4 DEF ReadEnds
  <2>4. CASE o.result = "ok" /\ r.index # 0
    <3>1. o.infos = Records(d.body, x.body)
      BY <2>4, <1>3, <1>7 DEF IsRead
    <3>2. /\ DOMAIN o.infos \subseteq 1 .. Len(x.body)
          /\ \A k \in 1 .. Len(x.body) : Reads(d.body, x.body, k).id = r.id => k \in same
          /\ \A k \in same : k \in 1 .. Len(x.body) /\ Reads(d.body, x.body, k).id = r.id
      <4>1. r.id # None.id
        BY RecOK, NoneOK, LengthOK
      <4>2. /\ DOMAIN o.infos = {k \in 1 .. Len(x.body) : Reads(d.body, x.body, k) # None}
            /\ \A k \in DOMAIN o.infos : o.infos[k].id = Reads(d.body, x.body, k).id
        <5>1. DOMAIN x.body = 1 .. Len(x.body)
          BY <1>2, EntryOK
        <5>2. /\ DOMAIN Records(d.body, x.body) = {k \in DOMAIN x.body : ReadAt(d.body, x.body[k].pos) # None}
              /\ \A k \in DOMAIN Records(d.body, x.body) :
                   Records(d.body, x.body)[k].id = ReadAt(d.body, x.body[k].pos).id
          BY <1>2, RecordsOK
        <5> QED
          BY <3>1, <5>1, <5>2 DEF Reads
      <4> QED
        BY <4>1, <4>2
    <3>3. CASE same = {}
      <4>1. FindsNone(d.body, x.body, r.id)
        BY <3>2, <3>3 DEF FindsNone
      <4>2. q.result \in {"no more data", "no match"} /\ q.index = 0
        <5> HIDE DEF same
        <5> QED  BY <3>3, <2>4, <1>4
      <4> QED
        BY <4>1, <4>2, <2>1, <2>2, <2>4 DEF ReadEnds
    <3>4. CASE same # {}
      <4>1. q.result = "ok" /\ q.index = Min(same)
        <5>1. DOMAIN o.infos # {}
          BY <3>4
        <5> HIDE DEF same
        <5> QED  BY <5>1, <3>4, <2>4, <1>4
      <4>2. Min(same) \in same /\ \A k \in same : Min(same) <= k
        <5>1. same \in SUBSET Nat
          BY <3>2
        <5> HIDE DEF same
        <5> QED  BY <5>1, <3>4, LeastOf
      <4>3. Finds(d.body, x.body, r.id, Min(same))
        <5> DEFINE m == Min(same)
        <5>1. m \in same /\ \A k \in same : m <= k
          BY <4>2
        <5> HIDE DEF m, same
        <5>2. m \in 1 .. Len(x.body) /\ Reads(d.body, x.body, m).id = r.id
          BY <5>1, <3>2
        <5>3. \A k \in 1 .. Len(x.body) : k < m => Reads(d.body, x.body, k).id # r.id
          BY <5>1, <3>2, <5>2
        <5>4. Finds(d.body, x.body, r.id, m)
          BY <5>2, <5>3 DEF Finds
        <5> QED
          BY <5>4 DEF m
      <4> HIDE DEF same
      <4> QED
        BY <4>1, <4>3, <2>1, <2>2, <2>4 DEF ReadEnds
    <3> QED
      BY <3>3, <3>4
  <2> QED
    BY <2>3, <2>4
<1> QED
  BY <1>1, <1>5, <1>6, <1>7

\* How WriteResumeUploadData ends.  No record is written:
StaysEmpty(w, d, x, l, r) ==
  /\ d.state \in {"missing", "empty"} /\ w.dat \in {Emptied, Written(Header)}
  /\ w.idx = x /\ w.list = l /\ w.index = r.index
  /\ w.result \in {"no match", "locked", "no room"} /\ (r.done \/ r.index # 0)

IsTooOld(w, d, x, l, r) ==
  /\ d.state = "old" \/ (d.state = "written" /\ x.state = "old")
  /\ w.dat = Missing /\ w.idx = Missing /\ w.list = (IF d.state = "old" THEN l ELSE <<>>)
  /\ w.index = r.index /\ w.result = "open error"

StaysAsRead(w, d, x, r) ==
  /\ d.state = "written" /\ x.state # "old"
  /\ w.dat = d /\ w.idx = (IF x.state = "missing" THEN Emptied ELSE x) /\ w.list = x.body
  /\ w.index \in 1 .. Len(x.body) \/ w.index = r.index \/ (w.index = 0 /\ r.done)
  /\ w.result \in Results /\ (w.result = "ok" => r.done /\ w.index = 0 /\ r.index = 0)
  /\ r.done \/ w.index # 0

\* a new record is added to the file s, with the entries of m;
IsAdded(w, d, x, l, r, s, m, y) ==
  /\ ~r.done /\ w \in Appended(s, y, WithRecord([body |-> s, list |-> m], r))
  /\ \/ d.state \in {"missing", "empty"} /\ s = Header /\ m = l /\ y = x /\ r.index = 0
     \/ /\ d.state = "written" /\ x.state # "old" /\ s = d.body /\ m = x.body
        /\ y = (IF x.state = "missing" THEN Emptied ELSE x)
        /\ r.index = 0 \/ FindsNone(d.body, x.body, r.id)

\* a record is written where entry n of m has it;
IsLaid(w, d, x, l, r, s, m, n) ==
  /\ ~r.done /\ n \in 1 .. Len(m) /\ m[n].len >= Length[r.id]
  /\ w = Outcome(Written(Overlay(s, m[n].pos, Text(r, m[n].len))), x, m, n, "ok")
  /\ \/ d.state \in {"missing", "empty"} /\ s = Header /\ m = l
     \/ /\ d.state = "written" /\ x.state = "written" /\ s = d.body /\ m = x.body
        /\ Finds(d.body, x.body, r.id, n)

\* the record of entry n is removed.
KeptBy(d, x, n) ==
  LET infos == Records(d.body, x.body)
  IN  Restrict(infos, {k \in DOMAIN infos : x.body[k] # x.body[n] /\ infos[k].bytes # Size})

IsCleared(w, d, x, r, n) ==
  /\ r.done /\ d.state = "written" /\ x.state = "written" /\ Finds(d.body, x.body, r.id, n)
  /\ w \in Saved(x, Rewritten(KeptBy(d, x, n), Len(x.body)), KeptBy(d, x, n), Len(x.body), n)

LEMMA Clearing ==
  ASSUME NEW d \in DatFiles, NEW x \in IdxFiles, Len(x.body) <= MaxEntries, NEW r \in Rec, r.done,
         NEW o, ReadFiles(o, d, x), ReadEnds(o, d, x, r), o.result = "ok",
         NEW w \in ClearResumeInfo(o.dat, o.idx, o.list, o.index)
  PROVE  StaysAsRead(w, d, x, r) \/ IsCleared(w, d, x, r, o.index)
<1> DEFINE n == o.index
           y == o.idx
           p == OpenResumeData(d, y, x.body)
           infos == Records(p.dat.body, p.list)
           kept == Restrict(infos, {k \in DOMAIN infos : p.list[k] # p.list[n] /\ infos[k].bytes # Size})
<1>1. /\ d.state = "written" /\ x.state \in {"missing", "written"} /\ x.body \in Seq(Entries)
      /\ o.dat = d /\ y = (IF x.state = "missing" THEN Emptied ELSE x) /\ o.list = x.body
      /\ x.state = "missing" => x.body = <<>>
      /\ \/ r.index = 0 /\ n = 0
         \/ Finds(d.body, x.body, r.id, n)
  BY FileOK DEF ReadFiles, ReadEnds, States
<1>2. y \in IdxFiles /\ y.state # "missing" /\ y.state # "old" /\ y.body = x.body
      /\ (y.state = "empty" <=> x.state = "missing")
  BY <1>1, FilesOK, FileOK
<1>3. IsRead(p, d, y)
  <2>1. FirstRun(p, d, y, x.body) \/ TooOld(p, d, y, x.body) \/ IsRead(p, d, y)
    BY <1>2, Opening
  <2> QED
    BY <2>1, <1>1, <1>2 DEF FirstRun, TooOld
<1>4. /\ p.dat = d /\ p.idx = y /\ p.list = x.body
      /\ p.result = (IF x.state = "missing" THEN "no more data" ELSE "ok")
  BY <1>2, <1>3 DEF IsRead
<1>5. w \in (IF p.result # "ok" THEN {Outcome(p.dat, p.idx, p.list, n, p.result)}
             ELSE IF n = 0 THEN {Outcome(p.dat, Written(p.list), p.list, n, "ok")}
             ELSE IF n > Len(p.list) THEN {Outcome(p.dat, p.idx, p.list, n, "locked")}
             ELSE Saved(p.idx, Rewritten(kept, Len(p.list)), kept, Len(p.list), n))
  BY <1>1, SMTT(30) DEF ClearResumeInfo
<1>6. CASE x.state = "missing"
  <2>1. ~Finds(d.body, x.body, r.id, n)
    BY <1>1, <1>6 DEF Finds
  <2>2. w = Outcome(d, Emptied, x.body, 0, "no more data") /\ r.index = 0
    <3> HIDE DEF kept, p, n, y
    <3> QED  BY <1>1, <1>4, <1>5, <1>6, <2>1
  <2> QED
    BY <1>1, <1>6, <2>2 DEF StaysAsRead, Outcome, Results
<1>7. CASE x.state = "written" /\ n = 0
  <2>1. ~Finds(d.body, x.body, r.id, n)
    BY <1>7 DEF Finds
  <2>2. w = Outcome(d, Written(x.body), x.body, 0, "ok") /\ r.index = 0
    <3> HIDE DEF kept, p, n, y
    <3> QED  BY <1>1, <1>4, <1>5, <1>7, <2>1
  <2>3. Written(x.body) = x
    BY <1>7, FileOK
  <2> QED
    BY <1>1, <1>7, <2>2, <2>3 DEF StaysAsRead, Outcome, Results
<1>8. CASE x.state = "written" /\ n # 0
  <2>1. Finds(d.body, x.body, r.id, n) /\ n \in 1 .. Len(x.body) /\ Len(x.body) \in Nat
    BY <1>1, <1>8 DEF Finds
  <2>2. w \in Saved(x, Rewritten(kept, Len(x.body)), kept, Len(x.body), n)
    <3> HIDE DEF kept, p, n, y
    <3> QED  BY <1>1, <1>4, <1>5, <1>8, <2>1
  <2>3. kept = KeptBy(d, x, n)
    BY <1>4 DEF KeptBy
  <2> QED
    BY <1>1, <1>8, <2>1, <2>2, <2>3 DEF IsCleared
<1> QED
  BY <1>1, <1>6, <1>7, <1>8

LEMMA Storing ==
  ASSUME NEW o, NEW r, NEW s, NEW n, n = o.index, NEW m, m = o.list, NEW w \in Stored(o, r, s)
  PROVE  \/ n > Len(m) /\ w = Outcome(Written(s), o.idx, m, n, "locked")
         \/ n = 0 /\ w \in Appended(s, o.idx, WithRecord([body |-> s, list |-> m], r))
         \/ ~(n > Len(m)) /\ n # 0 /\ w = Outcome(Written(s), o.idx, m, n, "no room")
         \/ /\ ~(n > Len(m)) /\ n # 0 /\ ~(m[n].len < Length[r.id])
            /\ w = Outcome(Written(Overlay(s, m[n].pos, Text(r, m[n].len))), o.idx, m, n, "ok")
<1>1. w \in (IF n > Len(m) THEN {Outcome(Written(s), o.idx, m, n, "locked")}
             ELSE IF n = 0 THEN Appended(s, o.idx, WithRecord([body |-> s, list |-> m], r))
             ELSE IF m[n].len < Length[r.id] THEN {Outcome(Written(s), o.idx, m, n, "no room")}
             ELSE {Outcome(Written(Overlay(s, m[n].pos, Text(r, m[n].len))), o.idx, m, n, "ok")})
  BY DEF Stored
<1> QED
  BY <1>1

LEMMA Writing ==
  ASSUME NEW d \in DatFiles, NEW x \in IdxFiles, Len(x.body) <= MaxEntries,
         NEW l \in Seq(Entries), NEW r \in Rec, NEW w \in WriteResumeUploadData(d, x, l, r)
  PROVE  \/ StaysEmpty(w, d, x, l, r) \/ IsTooOld(w, d, x, l, r) \/ StaysAsRead(w, d, x, r)
         \/ \E s \in Seq(Cells), m \in Seq(Entries), y \in IdxFiles : IsAdded(w, d, x, l, r, s, m, y)
         \/ \E s \in Seq(Cells), m \in Seq(Entries), n \in Nat : IsLaid(w, d, x, l, r, s, m, n)
         \/ \E n \in Nat : IsCleared(w, d, x, r, n)
<1>0. PICK o : o = ReadByFileID(d, x, l, r)
  OBVIOUS
<1>1. \/ ReadFirstRun(o, d, x, l, r) \/ ReadTooOld(o, d, x, l, r)
      \/ ReadFiles(o, d, x) /\ ReadEnds(o, d, x, r)
  BY <1>0, Reading
<1>2. w \in (IF o.result = "open error" \/ (r.done /\ o.result # "ok")
             THEN {Outcome(o.dat, o.idx, o.list, o.index, o.result)}
             ELSE IF r.done THEN ClearResumeInfo(o.dat, o.idx, o.list, o.index)
             ELSE Stored(o, r, IF o.first THEN Header ELSE o.dat.body))
  BY <1>0 DEF WriteResumeUploadData
<1>3. PICK n : n = o.index
  OBVIOUS
<1>4. /\ r.index \in Nat /\ r.id \in IDs /\ Length[r.id] \in Nat
      /\ d.body \in Seq(Cells) /\ x.body \in Seq(Entries) /\ d.state \in States /\ x.state \in States
      /\ (d.state = "written" => d = Written(d.body))
      /\ (x.state # "written" => x.body = <<>>) /\ Header \in Seq(Cells) /\ MaxEntries \in Nat
  BY RecOK, LengthOK, FileOK, CellsOK, StoreAssumption
<1>5. Len(l) \in Nat /\ Len(x.body) \in Nat
  BY <1>4
<1>6. CASE ReadFirstRun(o, d, x, l, r)
  <2>1. /\ d.state \in {"missing", "empty"} /\ o.dat = Emptied /\ o.idx = x /\ o.list = l
        /\ o.first /\ o.result = "no match" /\ n = r.index
    BY <1>3, <1>6 DEF ReadFirstRun
  <2>2. CASE r.done
    <3>1. w = Outcome(Emptied, x, l, n, "no match")
      BY <1>2, <1>3, <2>1, <2>2
    <3> QED
      BY <2>1, <2>2, <3>1 DEF StaysEmpty, Outcome
  <2>3. CASE ~r.done
    <3>1. w \in Stored(o, r, Header)
      BY <1>2, <2>1, <2>3
    <3>2. CASE n > Len(l) /\ w = Outcome(Written(Header), x, l, n, "locked")
      <4>1. n # 0
        BY <3>2, <1>5
      <4> QED
        BY <2>1, <3>2, <4>1 DEF StaysEmpty, Outcome
    <3>3. CASE n = 0 /\ w \in Appended(Header, x, WithRecord([body |-> Header, list |-> l], r))
      <4>1. IsAdded(w, d, x, l, r, Header, l, x)
        BY <2>1, <2>3, <3>3 DEF IsAdded
      <4> QED
        BY <4>1, <1>4
    <3>4. CASE n # 0 /\ w = Outcome(Written(Header), x, l, n, "no room")
      BY <2>1, <3>4 DEF StaysEmpty, Outcome
    <3>5. CASE /\ ~(n > Len(l)) /\ n # 0 /\ ~(l[n].len < Length[r.id])
               /\ w = Outcome(Written(Overlay(Header, l[n].pos, Text(r, l[n].len))), x, l, n, "ok")
      <4>1. n \in 1 .. Len(l) /\ n \in Nat
        <5>1. n \in Nat /\ ~(n > Len(l)) /\ n # 0
          BY <2>1, <3>5, <1>4
        <5> QED
          BY <5>1, <1>5
      <4>2. l[n].len \in Nat
        BY <4>1, EntryOK
      <4>3. l[n].len >= Length[r.id]
        BY <3>5, <4>2, <1>4
      <4>4. IsLaid(w, d, x, l, r, Header, l, n)
        BY <2>1, <2>3, <3>5, <4>1, <4>3 DEF IsLaid
      <4> QED
        BY <4>1, <4>4, <1>4
    <3>6. \/ n > Len(l) /\ w = Outcome(Written(Header), x, l, n, "locked")
          \/ n = 0 /\ w \in Appended(Header, x, WithRecord([body |-> Header, list |-> l], r))
          \/ ~(n > Len(l)) /\ n # 0 /\ w = Outcome(Written(Header), x, l, n, "no room")
          \/ /\ ~(n > Len(l)) /\ n # 0 /\ ~(l[n].len < Length[r.id])
             /\ w = Outcome(Written(Overlay(Header, l[n].pos, Text(r, l[n].len))), x, l, n, "ok")
      <4>1. w \in Stored(o, r, Header) /\ l = o.list /\ o.idx = x
        BY <2>1, <3>1
      <4> QED
        BY <1>3, <4>1, Storing
    <3> QED
      BY <3>2, <3>3, <3>4, <3>5, <3>6
  <2> QED
    BY <2>2, <2>3
<1>7. CASE ReadTooOld(o, d, x, l, r)
  <2>1. o.result = "open error" /\ w = Outcome(o.dat, o.idx, o.list, o.index, o.result)
    BY <1>2, <1>7 DEF ReadTooOld
  <2> QED
    BY <2>1, <1>7 DEF ReadTooOld, IsTooOld, Outcome
<1>8. CASE ReadFiles(o, d, x) /\ ReadEnds(o, d, x, r)
  <2>0. PICK y : y = IF x.state = "missing" THEN Emptied ELSE x
    OBVIOUS
  <2>1. /\ d.state = "written" /\ x.state # "old" /\ o.dat = d /\ o.list = x.body
        /\ ~o.first /\ o.idx = y
        /\ o.result \in {"ok", "no more data", "no match"} /\ Written(d.body) = d
    BY <1>8, <1>4, <2>0 DEF ReadFiles, ReadEnds
  <2>2. CASE r.done /\ o.result # "ok"
    <3>1. w = Outcome(d, y, x.body, n, o.result)
      BY <1>2, <1>3, <2>1, <2>2
    <3>2. n \in {0, r.index}
      BY <1>3, <1>8, <2>2 DEF ReadEnds
    <3> QED
      BY <2>0, <2>1, <2>2, <3>1, <3>2 DEF StaysAsRead, Outcome, Results
  <2>3. CASE r.done /\ o.result = "ok"
    <3>1. w \in ClearResumeInfo(o.dat, o.idx, o.list, o.index)
      BY <1>2, <2>3
    <3>2. StaysAsRead(w, d, x, r) \/ IsCleared(w, d, x, r, o.index)
      BY <3>1, <2>3, <1>8, Clearing
    <3>3. IsCleared(w, d, x, r, o.index) => o.index \in Nat
      BY <1>5 DEF IsCleared, Finds
    <3> QED
      BY <3>2, <3>3
  <2>4. CASE ~r.done
    <3>1. w \in Stored(o, r, d.body)
      BY <1>2, <2>1, <2>4
    <3>2. /\ n = r.index \/ n = 0 \/ n \in 1 .. Len(x.body)
          /\ n = 0 => r.index = 0 \/ FindsNone(d.body, x.body, r.id)
      <4>1. Finds(d.body, x.body, r.id, o.index) => n \in 1 .. Len(x.body) /\ n # 0
        BY <1>3, <1>5 DEF Finds
      <4> QED
        BY <4>1, <1>3, <1>8 DEF ReadEnds
    <3>3. CASE n > Len(x.body) /\ w = Outcome(d, y, x.body, n, "locked")
      <4>1. n # 0 /\ n = r.index
        BY <3>2, <3>3, <1>5
      <4> QED
        BY <2>0, <2>1, <2>4, <3>3, <4>1 DEF StaysAsRead, Outcome, Results
    <3>4. CASE n = 0 /\ w \in Appended(d.body, y, WithRecord([body |-> d.body, list |-> x.body], r))
      <4>1. y \in IdxFiles
        BY <2>0, FilesOK
      <4>2. IsAdded(w, d, x, l, r, d.body, x.body, y)
        BY <2>0, <2>1, <2>4, <3>2, <3>4 DEF IsAdded
      <4> QED
        BY <4>1, <4>2, <1>4
    <3>5. CASE ~(n > Len(x.body)) /\ n # 0 /\ w = Outcome(d, y, x.body, n, "no room")
      <4>1. n \in 1 .. Len(x.body)
        <5>1. n \in Nat \/ n \in 1 .. Len(x.body)
          BY <3>2, <1>4
        <5>2. ~(n > Len(x.body)) /\ n # 0
          BY <3>5
        <5> QED
          BY <5>1, <5>2, <1>5
      <4> QED
        BY <2>0, <2>1, <2>4, <3>5, <4>1 DEF StaysAsRead, Outcome, Results
    <3>6. CASE /\ ~(n > Len(x.body)) /\ n # 0 /\ ~(x.body[n].len < Length[r.id])
               /\ w = Outcome(Written(Overlay(d.body, x.body[n].pos, Text(r, x.body[n].len))), y,
                              x.body, n, "ok")
      <4>1. n \in 1 .. Len(x.body) /\ n \in Nat
        <5>1. n \in Nat \/ n \in 1 .. Len(x.body)
          BY <3>2, <1>4
        <5>2. ~(n > Len(x.body)) /\ n # 0
          BY <3>6
        <5> QED
          BY <5>1, <5>2, <1>5
      <4>2. x.state = "written" /\ y = x
        <5>1. x.body # <<>>
          BY <4>1
        <5> QED
          BY <5>1, <1>4, <2>0
      <4>3. Finds(d.body, x.body, r.id, n)
        BY <4>2, <1>8, <1>3, <3>6 DEF ReadEnds
      <4>4. x.body[n].len \in Nat
        BY <4>1, <1>4, EntryOK
      <4>5. x.body[n].len >= Length[r.id]
        BY <4>4, <3>6, <1>4
      <4>6. IsLaid(w, d, x, l, r, d.body, x.body, n)
        BY <2>1, <2>4, <3>6, <4>1, <4>2, <4>3, <4>5 DEF IsLaid
      <4> QED
        BY <4>1, <4>6, <1>4
    <3>7. \/ n > Len(x.body) /\ w = Outcome(Written(d.body), y, x.body, n, "locked")
          \/ n = 0 /\ w \in Appended(d.body, y, WithRecord([body |-> d.body, list |-> x.body], r))
          \/ ~(n > Len(x.body)) /\ n # 0 /\ w = Outcome(Written(d.body), y, x.body, n, "no room")
          \/ /\ ~(n > Len(x.body)) /\ n # 0 /\ ~(x.body[n].len < Length[r.id])
             /\ w = Outcome(Written(Overlay(d.body, x.body[n].pos, Text(r, x.body[n].len))), y,
                            x.body, n, "ok")
      <4>1. w \in Stored(o, r, d.body) /\ x.body = o.list
        BY <2>1, <3>1
      <4>2. o.idx = y
        BY <2>1
      <4> QED
        BY <1>3, <4>1, <4>2, Storing, ZenonT(40)
    <3> QED
      BY <2>1, <3>3, <3>4, <3>5, <3>6, <3>7
  <2> QED
    BY <2>2, <2>3, <2>4
<1> QED
  BY <1>1, <1>6, <1>7, <1>8

-----------------------------------------------------------------------------
(* What a write leaves.                                                    *)

LEMMA AppendedAs ==
  ASSUME NEW s \in Seq(Cells), NEW m \in Seq(Entries), NEW y, NEW r \in Rec,
         NEW f, f = WithRecord([body |-> s, list |-> m], r), NEW w \in Appended(s, y, f)
  PROVE  /\ f \in Rewrites /\ f.body \in Seq(Cells) /\ f.list \in Seq(Entries)
         /\ \/ /\ w.result = "ok" /\ w.dat = Written(f.body) /\ w.idx = Written(f.list)
               /\ w.list = f.list /\ w.index = Len(f.list)
            \/ /\ w.result = "died" /\ w.index = 0 /\ w.list = <<>> /\ w.dat = Written(s)
               /\ w.idx \in {y, Emptied, Written(f.list)}
<1>1. [body |-> s, list |-> m] \in Rewrites
  BY DEF Rewrites
<1>2. f \in Rewrites
  BY <1>1, WithRecordOK
<1> QED
  BY <1>2 DEF Appended, Outcome, Died, Rewrites

LEMMA SavedAs ==
  ASSUME NEW x, NEW file, NEW kept, NEW n, NEW index, NEW w \in Saved(x, file, kept, n, index)
  PROVE  \/ /\ w.result = "ok" /\ w.dat = Written(file[n].body) /\ w.idx = Written(file[n].list)
            /\ w.list = file[n].list /\ w.index = index
         \/ /\ w.result = "died" /\ w.index = 0 /\ w.list = <<>>
            /\ \/ /\ w.idx = x
                  /\ w.dat = Emptied \/ \E k \in {0} \cup DOMAIN kept : w.dat = Written(file[k].body)
               \/ /\ w.idx \in {Emptied, Written(file[n].list)}
                  /\ w.dat \in {Emptied, Written(file[n].body)}
BY DEF Saved, Outcome, Died

\* The records that are kept.
LEMMA KeptByOK ==
  ASSUME NEW d \in DatFiles, NEW x \in IdxFiles, Len(x.body) <= MaxEntries, NEW n,
         NEW kept, kept = KeptBy(d, x, n)
  PROVE  /\ DOMAIN kept \subseteq 1 .. Len(x.body)
         /\ \A k \in DOMAIN kept : /\ kept[k] \in Rec /\ kept[k].bytes # Size
                                   /\ kept[k].id = Reads(d.body, x.body, k).id
                                   /\ kept[k].bytes = Reads(d.body, x.body, k).bytes
                                   /\ x.body[k] # x.body[n]
         /\ \A k \in 1 .. Len(x.body) :
              /\ Reads(d.body, x.body, k).id \in IDs /\ Reads(d.body, x.body, k).bytes # Size
              /\ x.body[k] # x.body[n]
              => k \in DOMAIN kept
<1> DEFINE infos == Records(d.body, x.body)
           S == {k \in DOMAIN infos : x.body[k] # x.body[n] /\ infos[k].bytes # Size}
<1>1. d.body \in Seq(Cells) /\ x.body \in Seq(Entries)
  BY FileOK
<1>2. /\ DOMAIN infos = {k \in DOMAIN x.body : ReadAt(d.body, x.body[k].pos) # None}
      /\ DOMAIN infos \subseteq 1 .. Len(x.body)
      /\ \A k \in DOMAIN infos : /\ infos[k] \in Rec
                                 /\ infos[k].id = ReadAt(d.body, x.body[k].pos).id
                                 /\ infos[k].bytes = ReadAt(d.body, x.body[k].pos).bytes
  BY <1>1, RecordsOK
<1>3. kept = [k \in S |-> infos[k]]
  BY DEF KeptBy, Restrict
<1> HIDE DEF infos
<1>4. DOMAIN kept = S /\ \A k \in S : kept[k] = infos[k]
  BY <1>3
<1>5. ASSUME NEW k \in 1 .. Len(x.body), Reads(d.body, x.body, k).id \in IDs,
             Reads(d.body, x.body, k).bytes # Size, x.body[k] # x.body[n]
      PROVE  k \in S
  <2>1. x.body[k].pos \in Nat /\ k \in DOMAIN x.body
    BY <1>1, EntryOK
  <2>2. ReadAt(d.body, x.body[k].pos) # None
    BY <1>1, <1>5, <2>1, ReadOK DEF Reads
  <2>3. k \in DOMAIN infos
    BY <1>2, <2>1, <2>2
  <2>4. infos[k].bytes # Size
    BY <1>2, <1>5, <2>3 DEF Reads
  <2> QED
    BY <1>5, <2>3, <2>4
<1> QED
  BY <1>2, <1>4, <1>5 DEF Reads

\* A record that is read is in the text.  What a cell tells is a file and its bytes.
TextIn(s, i) == \E c \in 1 .. Len(s) : s[c].kind = "text" /\ s[c].id = i
Says(s, i) == \E c \in 1 .. Len(s) : s[c].kind = "text" /\ <<s[c].id, s[c].bytes>> = i

LEMMA ReadsSaid ==
  ASSUME NEW s \in Seq(Cells), NEW l \in Seq(Entries), NEW k \in 1 .. Len(l), Reads(s, l, k).id \in IDs
  PROVE  Says(s, <<Reads(s, l, k).id, Reads(s, l, k).bytes>>)
<1>1. l[k].pos \in Nat
  BY EntryOK
<1>2. Reads(s, l, k) # None
  BY NoneOK, LengthOK
<1>3. PICK c \in Starts(s, l[k].pos) : TRUE
  BY <1>1, <1>2, ReadOK DEF Reads
<1>4. LineAt(s, c) /\ Reads(s, l, k).id = s[c].id /\ Reads(s, l, k).bytes = s[c].bytes
  <2>1. LineAt(s, c)
    BY DEF Starts
  <2>2. Reads(s, l, k) = [id |-> s[c].id, bytes |-> s[c].bytes, index |-> 0, done |-> FALSE]
    BY <1>1, ReadLine DEF Reads
  <2> QED
    BY <2>1, <2>2
<1>5. c \in 1 .. Len(s) /\ s[c].kind = "text"
  BY <1>4, LineOK
<1> QED
  BY <1>4, <1>5 DEF Says

LEMMA ReadsText ==
  ASSUME NEW s \in Seq(Cells), NEW l \in Seq(Entries), NEW k \in 1 .. Len(l), Reads(s, l, k).id \in IDs
  PROVE  TextIn(s, Reads(s, l, k).id)
BY ReadsSaid DEF Says, TextIn

LEMMA WithRecordText ==
  ASSUME NEW f \in Rewrites, NEW r \in Rec, NEW i, Says(WithRecord(f, r).body, i)
  PROVE  i = <<r.id, r.bytes>> \/ Says(f.body, i)
<1> DEFINE t == WithRecord(f, r).body
<1>1. /\ f.body \in Seq(Cells) /\ Length[r.id] \in Nat
      /\ Len(t) = Len(f.body) + Length[r.id]
      /\ \A k \in 1 .. Len(f.body) : t[k] = f.body[k]
      /\ \A k \in 1 .. Length[r.id] : t[Len(f.body) + k] = TextCell(r, k)
  BY WithRecordOK, RecOK, LengthOK DEF Rewrites
<1> HIDE DEF t
<1>2. PICK c \in 1 .. Len(t) : t[c].kind = "text" /\ <<t[c].id, t[c].bytes>> = i
  BY DEF Says, t
<1>3. CASE c <= Len(f.body)
  <2>1. c \in 1 .. Len(f.body)
    BY <1>1, <1>3
  <2>2. t[c] = f.body[c]
    BY <1>1, <2>1
  <2> QED
    BY <1>2, <2>1, <2>2 DEF Says
<1>4. CASE c > Len(f.body)
  <2>1. c - Len(f.body) \in 1 .. Length[r.id] /\ Len(f.body) + (c - Len(f.body)) = c
    BY <1>1, <1>4
  <2>2. t[c] = TextCell(r, c - Len(f.body))
    BY <1>1, <2>1
  <2> QED
    BY <1>2, <2>2 DEF TextCell
<1> QED
  BY <1>1, <1>3, <1>4

LEMMA OverlayText ==
  ASSUME NEW s \in Seq(Cells), NEW pos \in Nat, NEW r \in Rec, NEW n \in Nat, NEW i,
         Says(Overlay(s, pos, Text(r, n)), i)
  PROVE  i = <<r.id, r.bytes>> \/ Says(s, i)
<1>1. PICK t : t = Text(r, n)
  OBVIOUS
<1>2. PICK v : v = Overlay(s, pos, t)
  OBVIOUS
<1>3. /\ t \in Seq(Cells)
      /\ \A k \in 1 .. Len(t) : t[k] = IF k <= Length[r.id] THEN TextCell(r, k) ELSE Pad
  BY <1>1, TextOK
<1>4. \A k \in 1 .. Len(v) : v[k] = IF k \in pos + 1 .. pos + Len(t) THEN t[k - pos]
                                    ELSE IF k <= Len(s) THEN s[k] ELSE Hole
  BY <1>2, <1>3, OverlayOK
<1>5. PICK c \in 1 .. Len(v) : v[c].kind = "text" /\ <<v[c].id, v[c].bytes>> = i
  BY <1>1, <1>2 DEF Says
<1>6. CASE c \in pos + 1 .. pos + Len(t)
  <2>1. c - pos \in 1 .. Len(t)
    BY <1>6, <1>3
  <2>2. v[c] = TextCell(r, c - pos) \/ v[c] = Pad
    BY <1>3, <1>4, <1>6, <2>1
  <2> QED
    BY <1>5, <2>2, CellsOK DEF TextCell
<1>7. CASE c \notin pos + 1 .. pos + Len(t)
  <2>1. v[c] = Hole \/ (c \in 1 .. Len(s) /\ v[c] = s[c])
    BY <1>4, <1>7
  <2> QED
    BY <1>5, <2>1, CellsOK DEF Says
<1> QED
  BY <1>6, <1>7

\* The text of files that are rewritten is that of the records kept.
LEMMA SavedText ==
  ASSUME NEW d \in DatFiles, NEW x \in IdxFiles, Len(x.body) <= MaxEntries, NEW n,
         NEW k \in 0 .. Len(x.body)
  PROVE  /\ Rewritten(KeptBy(d, x, n), Len(x.body))[k] \in Rewrites
         /\ \A i : Says(Rewritten(KeptBy(d, x, n), Len(x.body))[k].body, i) => Says(d.body, i)
<1>0. PICK file : file = Rewritten(KeptBy(d, x, n), Len(x.body))
  OBVIOUS
<1>1. PICK kept : kept = KeptBy(d, x, n)
  OBVIOUS
<1>2. d.body \in Seq(Cells) /\ x.body \in Seq(Entries) /\ Len(x.body) \in Nat
  BY FileOK
<1>3. /\ DOMAIN kept \subseteq 1 .. Len(x.body)
      /\ \A j \in DOMAIN kept : /\ kept[j] \in Rec /\ kept[j].id = Reads(d.body, x.body, j).id
                           /\ kept[j].bytes = Reads(d.body, x.body, j).bytes
  BY <1>1, KeptByOK
<1>4. file[k] \in Rewrites
  BY <1>0, <1>1, <1>2, <1>3, RewrittenOK
<1>5. ASSUME NEW i, Says(file[k].body, i) PROVE Says(d.body, i)
  <2>1. PICK c \in 1 .. Len(file[k].body) : file[k].body[c].kind = "text" /\ <<file[k].body[c].id, file[k].body[c].bytes>> = i
    BY <1>5 DEF Says
  <2>2. PICK j \in DOMAIN kept : i = <<kept[j].id, kept[j].bytes>>
    <3>1. file = Rewritten(kept, Len(x.body))
      BY <1>0, <1>1
    <3>2. PICK g : g = Rewritten(kept, Len(x.body))[k].body
      OBVIOUS
    <3>3. \A b \in 1 .. Len(g) : g[b].kind = "text" => \E j \in DOMAIN kept : g[b].id = kept[j].id /\ g[b].bytes = kept[j].bytes
      <4>1. PICK m : m = Len(x.body)
        OBVIOUS
      <4>2. /\ m \in Nat /\ DOMAIN kept \subseteq 1 .. m /\ k \in 0 .. m
            /\ \A j \in DOMAIN kept : kept[j] \in Rec
        BY <1>2, <1>3, <4>1
      <4>3. TextOf(Rewritten(kept, m)[k].body, kept)
        BY ONLY <4>2, RewrittenCells
      <4> QED
        BY <3>2, <4>1, <4>3 DEF TextOf
    <3> QED
      BY <2>1, <3>1, <3>2, <3>3
  <2>3. /\ j \in 1 .. Len(x.body) /\ Reads(d.body, x.body, j).id \in IDs
        /\ i = <<Reads(d.body, x.body, j).id, Reads(d.body, x.body, j).bytes>>
    BY <1>3, <2>2, RecOK
  <2> QED
    BY <1>2, <2>3, ReadsSaid
<1> QED
  BY <1>0, <1>4, <1>5

\* What holds of the outcome of every write.
WriteSays(w, d, x, l, r) ==
  /\ w.dat \in DatFiles /\ w.idx \in IdxFiles /\ w.list \in Seq(Entries)
  /\ w.result \in Results \cup {"died"}
  /\ w.index \in 0 .. MaxEntries /\ Len(w.list) <= MaxEntries
  /\ w.idx.state = "old" => x.state = "old" /\ w.list \in {l, <<>>}
  /\ w.index = 0 /\ ~r.done /\ w.result # "died" => w.dat = Missing /\ r.index = 0
  /\ \A i : Says(w.dat.body, i) => i = <<r.id, r.bytes>> \/ Says(d.body, i)

LEMMA WriteTells ==
  ASSUME NEW d \in DatFiles, NEW x \in IdxFiles, Len(x.body) <= MaxEntries,
         NEW l \in Seq(Entries), Len(l) <= MaxEntries, NEW r \in Rec,
         NEW w \in WriteResumeUploadData(d, x, l, r), Len(w.idx.body) <= MaxEntries
  PROVE  WriteSays(w, d, x, l, r)
<1>1. /\ d.body \in Seq(Cells) /\ x.body \in Seq(Entries) /\ Len(x.body) \in Nat /\ Len(l) \in Nat
      /\ d.state \in States /\ x.state \in States /\ r.index \in 0 .. MaxEntries /\ MaxEntries \in Nat
      /\ (x.state # "written" => x.body = <<>>) /\ <<>> \in Seq(Entries) /\ Len(<<>>) = 0
      /\ r.id \in IDs /\ Length[r.id] \in Nat /\ Length[r.id] > 0
  BY FileOK, RecOK, LengthOK, StoreAssumption
<1>2. (\A i : ~Says(<<>>, i)) /\ (\A i : ~Says(Header, i))
  BY CellsOK DEF Says
<1>3. /\ Missing.body = <<>> /\ Emptied.body = <<>> /\ \A s : Written(s).body = s
      /\ Emptied.state # "old" /\ Missing.state # "old" /\ \A s : Written(s).state = "written"
  BY FilesOK
<1>4. CASE StaysEmpty(w, d, x, l, r)
  <2>1. w.dat \in DatFiles /\ w.dat.body \in {<<>>, Header}
    BY <1>4, <1>3, FilesOK, CellsOK DEF StaysEmpty
  <2> QED
    BY <1>1, <1>2, <1>4, <2>1 DEF StaysEmpty, WriteSays, Results
<1>5. CASE IsTooOld(w, d, x, l, r)
  BY <1>1, <1>2, <1>3, <1>5, FilesOK DEF IsTooOld, WriteSays, Results
<1>6. CASE StaysAsRead(w, d, x, r)
  <2>1. w.index \in 0 .. MaxEntries
    BY <1>1, <1>6 DEF StaysAsRead
  <2>2. w.idx \in IdxFiles /\ w.idx.state # "old"
    BY <1>1, <1>3, <1>6, FilesOK DEF StaysAsRead
  <2> QED
    BY <1>1, <1>6, <2>1, <2>2 DEF StaysAsRead, WriteSays
<1>7. ASSUME NEW s \in Seq(Cells), NEW m \in Seq(Entries), NEW y \in IdxFiles,
             IsAdded(w, d, x, l, r, s, m, y)
      PROVE  WriteSays(w, d, x, l, r)
  <2>1. PICK f : f = WithRecord([body |-> s, list |-> m], r)
    OBVIOUS
  <2>2. /\ ~r.done /\ w \in Appended(s, y, f)
        /\ y.state = "old" => x.state = "old"
        /\ \A i : Says(s, i) => Says(d.body, i)
    BY <1>2, <1>3, <1>7, <2>1 DEF IsAdded
  <2>3. /\ f \in Rewrites /\ f.body \in Seq(Cells) /\ f.list \in Seq(Entries)
        /\ \/ /\ w.result = "ok" /\ w.dat = Written(f.body) /\ w.idx = Written(f.list)
              /\ w.list = f.list /\ w.index = Len(f.list)
           \/ /\ w.result = "died" /\ w.index = 0 /\ w.list = <<>> /\ w.dat = Written(s)
              /\ w.idx \in {y, Emptied, Written(f.list)}
    BY <2>1, <2>2, AppendedAs
  <2>4. Len(f.list) \in Nat /\ Len(f.list) >= 1
    <3>1. [body |-> s, list |-> m] \in Rewrites
      BY DEF Rewrites
    <3>2. Len(f.list) = Len(m) + 1
      BY <3>1, <2>1, WithRecordOK
    <3> QED
      BY <3>2
  <2>5. \A i : Says(f.body, i) => i = <<r.id, r.bytes>> \/ Says(s, i)
    <3>1. [body |-> s, list |-> m] \in Rewrites
      BY DEF Rewrites
    <3> QED
      BY <3>1, <2>1, WithRecordText
  <2>6. CASE w.result = "ok"
    <3>1. /\ w.dat = Written(f.body) /\ w.idx = Written(f.list)
          /\ w.list = f.list /\ w.index = Len(f.list)
      BY <2>3, <2>6
    <3>2. w.dat \in DatFiles /\ w.idx \in IdxFiles /\ w.idx.state # "old" /\ w.idx.body = f.list
          /\ w.dat.body = f.body
      BY <3>1, <2>3, <1>3, FilesOK
    <3>3. Len(f.list) <= MaxEntries
      BY <3>2
    <3>4. w.index \in 0 .. MaxEntries /\ w.index # 0
      BY <3>1, <3>3, <2>4, <1>1
    <3> QED
      BY <2>2, <2>3, <2>5, <2>6, <3>1, <3>2, <3>3, <3>4 DEF WriteSays, Results
  <2>7. CASE w.result = "died"
    <3>1. /\ w.index = 0 /\ w.list = <<>> /\ w.dat = Written(s)
          /\ w.idx \in {y, Emptied, Written(f.list)}
      BY <2>3, <2>7
    <3>2. w.dat \in DatFiles /\ w.idx \in IdxFiles /\ (w.idx.state = "old" => x.state = "old")
          /\ w.dat.body = s
      BY <3>1, <2>2, <2>3, <1>3, FilesOK
    <3> QED
      BY <1>1, <2>2, <2>7, <3>1, <3>2 DEF WriteSays
  <2> QED
    BY <2>3, <2>6, <2>7
<1>8. ASSUME NEW s \in Seq(Cells), NEW m \in Seq(Entries), NEW n \in Nat,
             IsLaid(w, d, x, l, r, s, m, n)
      PROVE  WriteSays(w, d, x, l, r)
  <2>1. PICK v : v = Overlay(s, m[n].pos, Text(r, m[n].len))
    OBVIOUS
  <2>2. /\ n \in 1 .. Len(m) /\ w = Outcome(Written(v), x, m, n, "ok") /\ m \in {l, x.body}
        /\ x.state = "old" => m = l
        /\ \A i : Says(s, i) => Says(d.body, i)
    BY <1>2, <1>3, <1>8, <2>1 DEF IsLaid
  <2>3. /\ w.dat = Written(v) /\ w.idx = x /\ w.list = m /\ w.index = n /\ w.result = "ok"
    BY <2>2 DEF Outcome
  <2>4. m[n].pos \in Nat /\ m[n].len \in Nat
    BY <2>2, EntryOK
  <2>5. v \in Seq(Cells) /\ w.dat \in DatFiles /\ w.dat.body = v
    <3>1. Text(r, m[n].len) \in Seq(Cells)
      BY <2>4, TextOK
    <3>2. v \in Seq(Cells)
      BY <2>1, <2>4, <3>1, OverlayOK
    <3> QED
      BY <2>3, <3>2, <1>3, FilesOK
  <2>6. \A i : Says(v, i) => i = <<r.id, r.bytes>> \/ Says(s, i)
    BY <2>1, <2>4, OverlayText
  <2>7. Len(m) <= MaxEntries /\ n \in 0 .. MaxEntries /\ n # 0
    BY <2>2, <1>1
  <2> QED
    BY <2>2, <2>3, <2>5, <2>6, <2>7 DEF WriteSays, Results
<1>9. ASSUME NEW n \in Nat, IsCleared(w, d, x, r, n)
      PROVE  WriteSays(w, d, x, l, r)
  <2>1. PICK file : file = Rewritten(KeptBy(d, x, n), Len(x.body))
    OBVIOUS
  <2>2. r.done /\ x.state = "written" /\ n \in 1 .. Len(x.body)
    BY <1>9 DEF IsCleared, Finds
  <2>3. /\ DOMAIN KeptBy(d, x, n) \subseteq 0 .. Len(x.body) /\ Len(x.body) \in 0 .. Len(x.body)
        /\ \A k \in 0 .. Len(x.body) :
             /\ file[k] \in Rewrites /\ file[k].body \in Seq(Cells) /\ file[k].list \in Seq(Entries)
             /\ \A i : Says(file[k].body, i) => Says(d.body, i)
    <3>1. \A k \in 0 .. Len(x.body) :
            file[k] \in Rewrites /\ \A i : Says(file[k].body, i) => Says(d.body, i)
      <4> SUFFICES ASSUME NEW k \in 0 .. Len(x.body)
                   PROVE  file[k] \in Rewrites /\ \A i : Says(file[k].body, i) => Says(d.body, i)
        OBVIOUS
      <4> QED
        BY <2>1, SavedText
    <3>2. \A k \in 0 .. Len(x.body) : file[k].body \in Seq(Cells) /\ file[k].list \in Seq(Entries)
      BY <3>1 DEF Rewrites
    <3>3. DOMAIN KeptBy(d, x, n) \subseteq 0 .. Len(x.body) /\ Len(x.body) \in 0 .. Len(x.body)
      BY <1>1, KeptByOK
    <3> QED
      BY <3>1, <3>2, <3>3
  <2>4. \/ /\ w.result = "ok" /\ w.dat = Written(file[Len(x.body)].body)
           /\ w.idx = Written(file[Len(x.body)].list) /\ w.list = w.idx.body /\ w.index = n
        \/ /\ w.result = "died" /\ w.index = 0 /\ w.list = <<>>
           /\ w.idx \in {x, Emptied, Written(file[Len(x.body)].list)}
           /\ w.dat = Emptied \/ \E k \in 0 .. Len(x.body) : w.dat = Written(file[k].body)
    BY <1>3, <1>9, <2>1, <2>3, SavedAs DEF IsCleared
  <2>5. w.idx \in IdxFiles /\ w.idx.state # "old" /\ w.list \in Seq(Entries)
    <3>1. PICK m \in Seq(Entries) : m = file[Len(x.body)].list
      BY <2>3
    <3>2. Written(m) \in IdxFiles /\ Written(m).body = m /\ Written(m).state # "old"
      BY <1>3, FilesOK
    <3>3. Emptied \in IdxFiles /\ x.state # "old"
      BY <2>2, FilesOK
    <3> QED
      BY <1>1, <1>3, <2>4, <3>1, <3>2, <3>3
  <2>6. w.dat \in DatFiles /\ \A i : Says(w.dat.body, i) => Says(d.body, i)
    BY <1>2, <1>3, <2>3, <2>4, FilesOK
  <2>7. w.index \in 0 .. MaxEntries /\ Len(w.list) <= MaxEntries
    BY <1>1, <2>2, <2>4
  <2>8. w.result \in Results \cup {"died"}
    BY <2>4 DEF Results
  <2> QED
    BY <2>2, <2>5, <2>6, <2>7, <2>8 DEF WriteSays
<1> QED
  BY <1>4, <1>5, <1>6, <1>7, <1>8, <1>9, Writing

\* Its text tells of the file that is written and of those that were there.
WriteShape(w, d, x, l, r) ==
  /\ WriteSays(w, d, x, l, r)
  /\ \A i : TextIn(w.dat.body, i) => i = r.id \/ TextIn(d.body, i)

LEMMA WriteType ==
  ASSUME NEW d \in DatFiles, NEW x \in IdxFiles, Len(x.body) <= MaxEntries,
         NEW l \in Seq(Entries), Len(l) <= MaxEntries, NEW r \in Rec,
         NEW w \in WriteResumeUploadData(d, x, l, r), Len(w.idx.body) <= MaxEntries
  PROVE  WriteShape(w, d, x, l, r)
<1>1. WriteSays(w, d, x, l, r)
  BY WriteTells
<1>2. \A c : Says(w.dat.body, c) => c = <<r.id, r.bytes>> \/ Says(d.body, c)
  BY <1>1 DEF WriteSays
<1>3. ASSUME NEW i, TextIn(w.dat.body, i) PROVE i = r.id \/ TextIn(d.body, i)
  <2>1. PICK b : Says(w.dat.body, <<i, b>>)
    BY <1>3 DEF TextIn, Says
  <2>2. <<i, b>> = <<r.id, r.bytes>> \/ Says(d.body, <<i, b>>)
    BY <1>2, <2>1
  <2> QED
    BY <2>2 DEF TextIn, Says
<1> QED
  BY <1>1, <1>3 DEF WriteShape

-----------------------------------------------------------------------------
(* What opening and reading leave.                                         *)

OpenShape(o, d, x, l) ==
  /\ o.dat \in {Emptied, Missing, d} /\ o.dat \in DatFiles
  /\ o.idx \in {Emptied, Missing, x} /\ o.idx \in IdxFiles
  /\ o.list \in {l, <<>>, x.body} /\ o.list \in Seq(Entries)
  /\ o.idx.state = "old" => x.state = "old" /\ o.list = l

LEMMA OpenType ==
  ASSUME NEW d \in DatFiles, NEW x \in IdxFiles, NEW l \in Seq(Entries),
         NEW o, o = OpenResumeData(d, x, l)
  PROVE  OpenShape(o, d, x, l)
<1>1. /\ \A f \in {Missing, Emptied} : f \in DatFiles /\ f \in IdxFiles /\ f.state # "old"
      /\ x.body \in Seq(Entries) /\ <<>> \in Seq(Entries)
  BY FilesOK, FileOK
<1>2. FirstRun(o, d, x, l) \/ TooOld(o, d, x, l) \/ IsRead(o, d, x)
  BY Opening
<1>3. CASE FirstRun(o, d, x, l)
  BY <1>1, <1>3 DEF FirstRun, OpenShape
<1>4. CASE TooOld(o, d, x, l)
  BY <1>1, <1>4 DEF TooOld, OpenShape
<1>5. CASE IsRead(o, d, x)
  BY <1>1, <1>5 DEF IsRead, OpenShape
<1> QED
  BY <1>2, <1>3, <1>4, <1>5

\* The records that are found are in the text.
Held(f, s) == Infos(f) /\ \A k \in DOMAIN f : TextIn(s, f[k].id) /\ f[k].id \in IDs /\ ~f[k].done

LEMMA NoRecordsHeld == ASSUME NEW s PROVE Held(NoRecords, s)
BY DEF Held, Infos, NoRecords

LEMMA RecordsHeld ==
  ASSUME NEW s \in Seq(Cells), NEW l \in Seq(Entries), Len(l) <= MaxEntries
  PROVE  Held(Records(s, l), s)
<1>1. PICK f : f = Records(s, l)
  OBVIOUS
<1>2. /\ DOMAIN f \subseteq 1 .. Len(l)
      /\ \A k \in DOMAIN f : /\ f[k] \in Rec /\ f[k].id = Reads(s, l, k).id
                             /\ f[k].index = k /\ ~f[k].done
  BY <1>1, RecordsOK DEF Reads
<1>3. Infos(f)
  BY <1>2, EntryOK, StoreAssumption DEF Infos, Rec
<1>4. ASSUME NEW k \in DOMAIN f PROVE f[k].id \in IDs /\ TextIn(s, f[k].id)
  <2>1. f[k].id \in IDs /\ k \in 1 .. Len(l) /\ f[k].id = Reads(s, l, k).id
    BY <1>2, RecOK
  <2> QED
    BY <2>1, ReadsText
<1> QED
  BY <1>1, <1>2, <1>3, <1>4 DEF Held

LEMMA SomeHeld ==
  ASSUME NEW f, NEW s, Held(f, s), NEW S \in SUBSET DOMAIN f
  PROVE  Held(Restrict(f, S), s)
<1>1. DOMAIN Restrict(f, S) = S /\ \A k \in S : Restrict(f, S)[k] = f[k]
  BY DEF Restrict
<1> QED
  BY <1>1 DEF Held, Infos

LEMMA TextAbove ==
  ASSUME NEW f, NEW s, NEW t, Held(f, s), \A i : TextIn(s, i) => TextIn(t, i)
  PROVE  Held(f, t)
BY DEF Held

LEMMA LoadType ==
  ASSUME NEW d \in DatFiles, NEW x \in IdxFiles, Len(x.body) <= MaxEntries,
         NEW l \in Seq(Entries), Len(l) <= MaxEntries, NEW o, o = LoadResumeInfo(d, x, l)
  PROVE  OpenShape(o, d, x, l) /\ Held(o.infos, d.body)
<1>1. PICK p : p = OpenResumeData(d, x, l)
  OBVIOUS
<1>2. OpenShape(p, d, x, l) /\ DOMAIN p = Fields
  BY <1>1, OpenType, Opening
<1>3. /\ o.dat = p.dat /\ o.idx = p.idx /\ o.list = p.list
      /\ o.infos \in {NoRecords, Records(p.dat.body, p.list)}
  BY <1>1, <1>2 DEF LoadResumeInfo, Fields
<1>4. OpenShape(o, d, x, l)
  BY <1>2, <1>3 DEF OpenShape
<1>5. Held(Records(p.dat.body, p.list), d.body)
  <2>1. p.dat.body \in Seq(Cells) /\ p.dat.body \in {<<>>, d.body}
    BY <1>2, FileOK, FilesOK DEF OpenShape
  <2>2. p.list \in Seq(Entries) /\ Len(p.list) <= MaxEntries
    BY <1>2, StoreAssumption DEF OpenShape
  <2>3. Held(Records(p.dat.body, p.list), p.dat.body)
    BY <2>1, <2>2, RecordsHeld
  <2>4. \A i : TextIn(p.dat.body, i) => TextIn(d.body, i)
    BY <2>1 DEF TextIn
  <2> QED
    BY <2>3, <2>4, TextAbove
<1> QED
  BY <1>3, <1>4, <1>5, NoRecordsHeld

-----------------------------------------------------------------------------
(* The inductive invariant.                                                *)

\* No process holds a record of file i, and there is no text of one.
Unheld(i) ==
  ~TextIn(dat.body, i) /\ \A q \in Procs : \A k \in DOMAIN pend[q] : pend[q][k].id # i

\* A record that was never written is of a file that no other record is of.
Fresh ==
  \A p \in Procs : cur[p] # None /\ ~cur[p].done /\ cur[p].index = 0 =>
    Unheld(cur[p].id) /\ \A q \in Procs \ {p} : cur[q].id # cur[p].id

\* Every record is of a file that was created.
Known ==
  /\ \A i : TextIn(dat.body, i) => i \in created
  /\ \A p \in Procs : cur[p] # None => cur[p].id \in created
  /\ \A p \in Procs : \A k \in DOMAIN pend[p] : pend[p][k].id \in created /\ ~pend[p][k].done

Paused == \A p \in Procs : again[p] => cur[p] # None

\* No process has read files that are too old.
OldIndex == idx.state = "old" => \A p \in Procs : list[p] = <<>>

Inv == TypeOK /\ Fresh /\ Known /\ Paused /\ OldIndex

LEMMA Types ==
  ASSUME TypeOK
  PROVE  /\ dat \in DatFiles /\ idx \in IdxFiles /\ Len(dat.body) <= MaxCells
         /\ Len(idx.body) <= MaxEntries
         /\ dat.body \in Seq(Cells) /\ idx.body \in Seq(Entries)
         /\ \A p \in Procs : /\ list[p] \in Seq(Entries) /\ Len(list[p]) <= MaxEntries
                             /\ Infos(pend[p]) /\ cur[p] \in Info /\ again[p] \in BOOLEAN
BY FileOK DEF TypeOK, DatFiles, IdxFiles

\* The records a process may come to have still to handle.
PendOK(f, s, old) ==
  /\ Infos(f)
  /\ \A k \in DOMAIN f : ~f[k].done /\ (TextIn(s, f[k].id) \/ \E j \in DOMAIN old : old[j].id = f[k].id)

LEMMA HeldPend == ASSUME NEW f, NEW s, NEW old, Held(f, s) PROVE PendOK(f, s, old)
BY DEF Held, PendOK

\* What a step of process p must leave: its list, records to handle, record to
\* write and pause become nl, np, nc and na, and the files of new are created.
Moves(p, nl, np, nc, na, new) ==
  /\ dat' \in DatFiles /\ Len(dat'.body) <= MaxCells
  /\ \A i : TextIn(dat'.body, i) => TextIn(dat.body, i) \/ i \in new
  /\ idx' \in IdxFiles /\ Len(idx'.body) <= MaxEntries
  /\ idx'.state = "old" => idx.state = "old" /\ nl \in {list[p], <<>>}
  /\ list' = [list EXCEPT ![p] = nl] /\ nl \in Seq(Entries) /\ Len(nl) <= MaxEntries
  /\ cmd' \in [Procs -> {"none", "upload", "resume"}] /\ res' \in [Procs -> Results]
  /\ pend' = [pend EXCEPT ![p] = np] /\ PendOK(np, dat.body, pend[p])
  /\ again' = [again EXCEPT ![p] = na] /\ na \in BOOLEAN /\ (na => nc # None)
  /\ cur' = [cur EXCEPT ![p] = nc] /\ nc \in Info
  /\ created' = created \cup new /\ (nc # None => nc.id \in created \cup new)
  /\ \A q \in Procs \ {p} : cur[q] # None /\ ~cur[q].done /\ cur[q].index = 0 =>
                             cur[q].id \notin new /\ cur[q].id # nc.id
  /\ nc # None /\ ~nc.done /\ nc.index = 0 =>
       /\ ~TextIn(dat'.body, nc.id)
       /\ \A q \in Procs : \A k \in DOMAIN pend'[q] : pend'[q][k].id # nc.id
       /\ \A q \in Procs \ {p} : cur[q].id # nc.id

LEMMA Keeps ==
  ASSUME Inv, NEW p \in Procs, NEW nl, NEW np, NEW nc, NEW na, NEW new \in SUBSET IDs,
         Moves(p, nl, np, nc, na, new)
  PROVE  Inv'
<1> USE DEF Moves
<1>1. /\ TypeOK /\ Fresh /\ Known /\ Paused /\ OldIndex
  BY DEF Inv
<1>2. /\ list \in [Procs -> Seq(Entries)] /\ pend = [q \in Procs |-> pend[q]] /\ cur \in [Procs -> Info]
      /\ again \in [Procs -> BOOLEAN] /\ created \subseteq IDs
      /\ \A q \in Procs : Len(list[q]) <= MaxEntries /\ Infos(pend[q])
  BY <1>1 DEF TypeOK
<1>3. /\ list'[p] = nl /\ \A q \in Procs \ {p} : list'[q] = list[q]
      /\ pend'[p] = np /\ \A q \in Procs \ {p} : pend'[q] = pend[q]
      /\ again'[p] = na /\ \A q \in Procs \ {p} : again'[q] = again[q]
      /\ cur'[p] = nc /\ \A q \in Procs \ {p} : cur'[q] = cur[q]
      /\ list' \in [Procs -> Seq(Entries)] /\ pend' = [q \in Procs |-> pend'[q]]
      /\ cur' \in [Procs -> Info] /\ again' \in [Procs -> BOOLEAN]
  BY <1>2
<1>4. Infos(np) /\ \A k \in DOMAIN np : /\ ~np[k].done
                                       /\ \/ TextIn(dat.body, np[k].id)
                                          \/ \E j \in DOMAIN pend[p] : pend[p][j].id = np[k].id
  BY DEF PendOK
<1>5. TypeOK'
  <2>1. \A q \in Procs : Len(list'[q]) <= MaxEntries /\ Infos(pend'[q])
    BY <1>2, <1>3, <1>4
  <2> QED
    BY <1>2, <1>3, <2>1 DEF TypeOK, DatFiles, IdxFiles, Infos
<1>6. Known'
  <2>1. \A k \in DOMAIN np : np[k].id \in created
    BY <1>1, <1>4 DEF Known
  <2>2. \A i : TextIn(dat'.body, i) => i \in created'
    BY <1>1 DEF Known
  <2>3. \A q \in Procs : cur'[q] # None => cur'[q].id \in created'
    BY <1>1, <1>3 DEF Known
  <2>4. \A q \in Procs : \A k \in DOMAIN pend'[q] : pend'[q][k].id \in created' /\ ~pend'[q][k].done
    BY <1>1, <1>3, <1>4, <2>1 DEF Known
  <2> QED
    BY <2>2, <2>3, <2>4 DEF Known, TextIn
<1>7. Fresh'
  <2>1. ASSUME NEW q \in Procs, cur'[q] # None, ~cur'[q].done, cur'[q].index = 0
        PROVE  /\ ~TextIn(dat'.body, cur'[q].id)
               /\ \A a \in Procs : \A k \in DOMAIN pend'[a] : pend'[a][k].id # cur'[q].id
               /\ \A a \in Procs \ {q} : cur'[a].id # cur'[q].id
    <3>1. CASE q = p
      BY <2>1, <3>1, <1>3
    <3>2. CASE q # p
      <4>1. /\ cur'[q] = cur[q] /\ ~TextIn(dat.body, cur[q].id) /\ cur[q].id \notin new
            /\ cur[q].id # nc.id
            /\ \A a \in Procs : \A k \in DOMAIN pend[a] : pend[a][k].id # cur[q].id
            /\ \A a \in Procs \ {q} : cur[a].id # cur[q].id
        BY <1>1, <1>3, <2>1, <3>2 DEF Fresh, Unheld
      <4>2. \A k \in DOMAIN np : np[k].id # cur[q].id
        BY <1>4, <4>1
      <4> QED
        BY <1>3, <3>2, <4>1, <4>2
    <3> QED
      BY <3>1, <3>2
  <2> QED
    BY <2>1 DEF Fresh, Unheld, TextIn
<1>8. Paused'
  BY <1>1, <1>3 DEF Paused
<1>9. OldIndex'
  BY <1>1, <1>3 DEF OldIndex
<1> QED
  BY <1>5, <1>6, <1>7, <1>8, <1>9 DEF Inv

\* The records a process may write next.
LEMMA NextRec ==
  ASSUME Inv, NEW p \in Procs, NEW r \in NextWrites(p)
  PROVE  /\ r \in Rec
         /\ cur[p] # None => r.id = cur[p].id /\ r.index = cur[p].index /\ (cur[p].done => r.done)
         /\ cur[p] = None => r.id \notin created /\ r.index = 0 /\ ~r.done
         /\ again[p] => r = cur[p]
<1>1. cur[p] \in Info /\ (again[p] => cur[p] # None)
  BY Types DEF Inv, Paused
<1>2. CASE again[p]
  BY <1>1, <1>2 DEF NextWrites, Rec
<1>3. CASE ~again[p] /\ cur[p] # None
  <2> DEFINE c == cur[p]
  <2>1. /\ c \in Rec /\ c.id \in IDs /\ c.bytes \in 0 .. Size /\ c.index \in 0 .. MaxEntries
        /\ c.done \in BOOLEAN
        /\ c = [id |-> c.id, bytes |-> c.bytes, index |-> c.index, done |-> c.done]
    BY <1>1, <1>3, RecOK DEF Rec
  <2>2. r = IF c.bytes < Size THEN [c EXCEPT !.bytes = @ + 1] ELSE [c EXCEPT !.done = TRUE]
    BY <1>3 DEF NextWrites
  <2> HIDE DEF c
  <2>3. c \in [id : IDs, bytes : 0 .. Size, index : 0 .. MaxEntries, done : BOOLEAN]
    BY <2>1
  <2>4. c.bytes < Size => c.bytes + 1 \in 0 .. Size
    BY <2>1, StoreAssumption
  <2>5. r \in Info /\ r.id = c.id /\ r.index = c.index /\ (c.done => r.done)
    BY <2>2, <2>3, <2>4 DEF Info
  <2>6. r # None
    BY <2>1, <2>5, NoneOK, LengthOK
  <2> QED
    BY <1>3, <2>5, <2>6 DEF Rec, c
<1>4. CASE ~again[p] /\ cur[p] = None
  <2>1. PICK i \in IDs \ created : r = [None EXCEPT !.id = i]
    <3>1. cmd[p] = "upload"
      BY <1>4 DEF NextWrites
    <3> QED
      BY <1>4, <3>1 DEF NextWrites
  <2>2. r = [id |-> i, bytes |-> 0, index |-> 0, done |-> FALSE]
    BY <2>1 DEF None
  <2>3. r \in Info /\ r # None
    BY <2>2, StoreAssumption, NoneOK, LengthOK DEF Info
  <2> QED
    BY <1>4, <2>2, <2>3 DEF Rec
<1> QED
  BY <1>1, <1>2, <1>3, <1>4

LEMMA IndexedOK ==
  ASSUME NEW r \in Rec, NEW n \in 0 .. MaxEntries, NEW c, c = [r EXCEPT !.index = n]
  PROVE  /\ c \in Rec /\ c \in Info /\ c # None
         /\ c.id = r.id /\ c.bytes = r.bytes /\ c.index = n /\ c.done = r.done
<1>1. /\ r \in [id : IDs, bytes : 0 .. Size, index : 0 .. MaxEntries, done : BOOLEAN]
      /\ r.id \in IDs
  BY RecOK
<1>2. /\ c \in [id : IDs, bytes : 0 .. Size, index : 0 .. MaxEntries, done : BOOLEAN]
      /\ c.id = r.id /\ c.bytes = r.bytes /\ c.index = n /\ c.done = r.done
  BY <1>1
<1> QED
  BY <1>1, <1>2, NoneOK, LengthOK DEF Rec, Info

LEMMA InvInit == Init => Inv
<1> SUFFICES ASSUME Init PROVE Inv
  OBVIOUS
<1>1. /\ dat \in DatFiles /\ idx \in IdxFiles /\ dat.body = <<>> /\ idx.body = <<>>
      /\ Len(<<>>) = 0 /\ <<>> \in Seq(Entries) /\ MaxCells \in Nat /\ MaxEntries \in Nat
  BY FilesOK, StoreAssumption DEF Init
<1>2. Infos(NoRecords) /\ DOMAIN NoRecords = {}
  BY DEF NoRecords, Infos
<1>3. TypeOK
  BY <1>1, <1>2, NoneOK DEF Init, TypeOK, DatFiles, IdxFiles, Results
<1>4. Known
  BY <1>1, <1>2 DEF Init, Known, TextIn
<1> QED
  BY <1>3, <1>4 DEF Inv, Init, Fresh, Paused, OldIndex

\* A step that only reads the files: process p may have other records to handle,
\* or none.
LEMMA InvRead ==
  ASSUME Inv, NEW p \in Procs, NEW o, OpenShape(o, dat, idx, list[p]),
         dat' = o.dat, idx' = o.idx, NEW nl \in {o.list, <<>>}, list' = [list EXCEPT ![p] = nl],
         NEW np, pend' = [pend EXCEPT ![p] = np], PendOK(np, dat.body, pend[p]),
         cmd' \in [Procs -> {"none", "upload", "resume"}],
         UNCHANGED <<cur, again, res, created, counted>>
  PROVE  Inv'
<1>1. /\ dat \in DatFiles /\ idx \in IdxFiles /\ Len(dat.body) <= MaxCells
      /\ Len(idx.body) <= MaxEntries /\ list[p] \in Seq(Entries) /\ Len(list[p]) <= MaxEntries
      /\ cur[p] \in Info /\ again[p] \in BOOLEAN
      /\ cur \in [Procs -> Info] /\ again \in [Procs -> BOOLEAN] /\ res \in [Procs -> Results]
  BY Types DEF Inv, TypeOK
<1>2. /\ Emptied.body = <<>> /\ Missing.body = <<>> /\ Len(<<>>) = 0 /\ <<>> \in Seq(Entries)
      /\ \A i : ~TextIn(<<>>, i)
  BY FilesOK DEF TextIn
<1>3. dat' \in DatFiles /\ Len(dat'.body) <= MaxCells /\ \A i : TextIn(dat'.body, i) => TextIn(dat.body, i)
  BY <1>1, <1>2, StoreAssumption DEF OpenShape
<1>4. idx' \in IdxFiles /\ Len(idx'.body) <= MaxEntries
      /\ (idx'.state = "old" => idx.state = "old" /\ nl \in {list[p], <<>>})
  BY <1>1, <1>2, StoreAssumption DEF OpenShape
<1>5. nl \in Seq(Entries) /\ Len(nl) <= MaxEntries
  <2>1. nl \in {list[p], <<>>, idx.body} /\ nl \in Seq(Entries)
    BY <1>2 DEF OpenShape
  <2> QED
    BY <1>1, <1>2, <2>1, StoreAssumption
<1>6. PICK nc, na, new : nc = cur[p] /\ na = again[p] /\ new = {}
  OBVIOUS
<1>7. /\ again' = [again EXCEPT ![p] = na] /\ cur' = [cur EXCEPT ![p] = nc]
      /\ created' = created \cup new /\ new \in SUBSET IDs /\ nc \in Info /\ na \in BOOLEAN
      /\ res' \in [Procs -> Results]
      /\ \A i : TextIn(dat'.body, i) => TextIn(dat.body, i) \/ i \in new
  BY <1>1, <1>3, <1>6
<1>8. /\ na => nc # None
      /\ nc # None => nc.id \in created \cup new
      /\ \A q \in Procs \ {p} : cur[q] # None /\ ~cur[q].done /\ cur[q].index = 0 =>
                                  cur[q].id \notin new /\ cur[q].id # nc.id
  BY <1>6 DEF Inv, Paused, Known, Fresh
<1>9. ASSUME nc # None, ~nc.done, nc.index = 0
      PROVE  /\ ~TextIn(dat'.body, nc.id)
             /\ \A q \in Procs : \A k \in DOMAIN pend'[q] : pend'[q][k].id # nc.id
             /\ \A q \in Procs \ {p} : cur[q].id # nc.id
  <2>1. /\ ~TextIn(dat.body, nc.id) /\ \A q \in Procs \ {p} : cur[q].id # nc.id
        /\ \A q \in Procs : \A k \in DOMAIN pend[q] : pend[q][k].id # nc.id
    BY <1>6, <1>9 DEF Inv, Fresh, Unheld
  <2>2. \A q \in Procs : pend'[q] \in {np, pend[q]}
    BY DEF Inv, TypeOK
  <2>3. \A k \in DOMAIN np : np[k].id # nc.id
    BY <2>1 DEF PendOK
  <2> QED
    BY <1>3, <2>1, <2>2, <2>3
<1>10. Moves(p, nl, np, nc, na, new)
  BY <1>3, <1>4, <1>5, <1>7, <1>8, <1>9 DEF Moves
<1> QED
  BY <1>7, <1>10, Keeps

LEMMA PendStays == ASSUME Inv, NEW p \in Procs, NEW s PROVE PendOK(pend[p], s, pend[p])
BY DEF Inv, TypeOK, Known, PendOK

LEMMA InvStartUpload == ASSUME Inv, NEW p \in Procs, StartUpload(p) PROVE Inv'
<1>1. PICK o : o = OpenResumeData(dat, idx, list[p])
  OBVIOUS
<1>2. OpenShape(o, dat, idx, list[p])
  BY <1>1, Types, OpenType DEF Inv
<1>3. pend' = [pend EXCEPT ![p] = pend[p]] /\ cmd' \in [Procs -> {"none", "upload", "resume"}]
  BY DEF StartUpload, Inv, TypeOK
<1>4. /\ dat' = o.dat /\ idx' = o.idx /\ list' = [list EXCEPT ![p] = o.list]
      /\ UNCHANGED <<cur, again, res, created, counted>>
  BY <1>1 DEF StartUpload
<1> QED
  BY <1>2, <1>3, <1>4, PendStays, InvRead

LEMMA OpenAgain ==
  ASSUME Inv, NEW p \in Procs, NEW o, OpenShape(o, dat, idx, list[p]),
         NEW q, OpenShape(q, o.dat, o.idx, o.list)
  PROVE  OpenShape(q, dat, idx, list[p])
<1>1. Emptied.state # "old" /\ Missing.state # "old" /\ Emptied.body = <<>> /\ Missing.body = <<>>
  BY FilesOK
<1> QED
  BY <1>1 DEF OpenShape

LEMMA InvLoad ==
  ASSUME Inv, NEW p \in Procs, NEW o, OpenShape(o, dat, idx, list[p]),
         Load(p, o.dat, o.idx, o.list), cmd' \in [Procs -> {"none", "upload", "resume"}],
         UNCHANGED <<cur, again, res, created, counted>>
  PROVE  Inv'
<1>1. PICK q : q = LoadResumeInfo(o.dat, o.idx, o.list)
  OBVIOUS
<1>2. /\ Emptied.body = <<>> /\ Missing.body = <<>> /\ Len(<<>>) = 0 /\ \A i : ~TextIn(<<>>, i)
      /\ MaxEntries \in Nat
  BY FilesOK, StoreAssumption DEF TextIn
<1>3. Len(idx.body) <= MaxEntries /\ Len(list[p]) <= MaxEntries
  BY Types DEF Inv
<1>4. o.dat \in DatFiles /\ o.idx \in IdxFiles /\ o.list \in Seq(Entries)
      /\ Len(o.idx.body) <= MaxEntries /\ Len(o.list) <= MaxEntries
      /\ \A i : TextIn(o.dat.body, i) => TextIn(dat.body, i)
  BY <1>2, <1>3 DEF OpenShape
<1>5. OpenShape(q, dat, idx, list[p]) /\ Held(q.infos, o.dat.body)
  BY <1>1, <1>4, LoadType, OpenAgain
<1>6. PICK np \in {q.infos, NoRecords} : pend' = [pend EXCEPT ![p] = np]
  BY <1>1 DEF Load
<1>7. PendOK(np, dat.body, pend[p])
  <2>1. Held(np, dat.body)
    BY <1>4, <1>5, <1>6, TextAbove, NoRecordsHeld
  <2> QED
    BY <2>1, HeldPend
<1>8. PICK nl \in {q.list, <<>>} : list' = [list EXCEPT ![p] = nl]
  BY <1>1 DEF Load
<1>9. dat' = q.dat /\ idx' = q.idx
  BY <1>1 DEF Load
<1> QED
  BY <1>5, <1>6, <1>7, <1>8, <1>9, InvRead

LEMMA InvStartResume == ASSUME Inv, NEW p \in Procs, StartResume(p) PROVE Inv'
<1>1. PICK o : o = OpenResumeData(dat, idx, list[p])
  OBVIOUS
<1>2. OpenShape(o, dat, idx, list[p])
  BY <1>1, Types, OpenType DEF Inv
<1>3. Load(p, o.dat, o.idx, o.list) /\ UNCHANGED <<cur, again, res, created, counted>>
  BY <1>1 DEF StartResume
<1>4. cmd' \in [Procs -> {"none", "upload", "resume"}]
  BY DEF StartResume, Inv, TypeOK
<1> QED
  BY <1>2, <1>3, <1>4, InvLoad

LEMMA InvListRecords == ASSUME Inv, NEW p \in Procs, ListRecords(p) PROVE Inv'
<1>1. PICK o : o = LoadResumeInfo(dat, idx, list[p])
  OBVIOUS
<1>2. OpenShape(o, dat, idx, list[p]) /\ Held(o.infos, dat.body)
  BY <1>1, Types, LoadType DEF Inv
<1>3. PICK np \in {o.infos, NoRecords} : pend' = [pend EXCEPT ![p] = np]
  BY <1>1 DEF ListRecords, Load
<1>4. PendOK(np, dat.body, pend[p])
  BY <1>2, <1>3, HeldPend, NoRecordsHeld
<1>5. PICK nl \in {o.list, <<>>} : list' = [list EXCEPT ![p] = nl]
  BY <1>1 DEF ListRecords, Load
<1>6. dat' = o.dat /\ idx' = o.idx /\ UNCHANGED <<cur, again, res, created, counted>>
  BY <1>1 DEF ListRecords, Load
<1>7. cmd' \in [Procs -> {"none", "upload", "resume"}]
  BY DEF ListRecords, Inv, TypeOK
<1> QED
  BY <1>2, <1>3, <1>4, <1>5, <1>6, <1>7, InvRead

LEMMA InvStartResumeOf == ASSUME Inv, NEW p \in Procs, StartResumeOf(p) PROVE Inv'
<1> DEFINE o == OpenResumeData(dat, idx, list[p])
           infos == Records(o.dat.body, o.list)
<1>1. /\ dat' = o.dat /\ idx' = o.idx /\ list' = [list EXCEPT ![p] = o.list]
      /\ UNCHANGED <<cur, again, res, created, counted>>
      /\ \E files \in SUBSET IDs \ {{}} :
           pend' = [pend EXCEPT ![p] = Restrict(infos, {k \in DOMAIN infos : infos[k].id \in files})]
  BY DEF StartResumeOf
<1>2. OpenShape(o, dat, idx, list[p])
  BY Types, OpenType DEF Inv
<1>3. infos = Records(o.dat.body, o.list)
  OBVIOUS
<1> HIDE DEF infos, o
<1>4. PICK S \in SUBSET DOMAIN infos : pend' = [pend EXCEPT ![p] = Restrict(infos, S)]
  <2>1. PICK files : pend' = [pend EXCEPT ![p] =
                                Restrict(infos, {k \in DOMAIN infos : infos[k].id \in files})]
    BY <1>1
  <2> QED
    BY <2>1
<1>5. Held(infos, dat.body)
  <2>1. /\ Emptied.body = <<>> /\ Missing.body = <<>> /\ Len(<<>>) = 0 /\ \A i : ~TextIn(<<>>, i)
        /\ MaxEntries \in Nat /\ Len(idx.body) <= MaxEntries /\ Len(list[p]) <= MaxEntries
    BY FilesOK, Types, StoreAssumption DEF TextIn, Inv
  <2>2. o.dat.body \in Seq(Cells) /\ o.list \in Seq(Entries) /\ Len(o.list) <= MaxEntries
        /\ \A i : TextIn(o.dat.body, i) => TextIn(dat.body, i)
    BY <1>2, <2>1, FileOK DEF OpenShape
  <2>3. Held(infos, o.dat.body)
    BY <1>3, <2>2, RecordsHeld
  <2> QED
    BY <2>2, <2>3, TextAbove
<1>6. PICK np : np = Restrict(infos, S)
  OBVIOUS
<1>7. PendOK(np, dat.body, pend[p])
  BY <1>5, <1>6, SomeHeld, HeldPend
<1>8. cmd' \in [Procs -> {"none", "upload", "resume"}]
  BY DEF StartResumeOf, Inv, TypeOK
<1> QED
  BY <1>2, <1>4, <1>6, <1>1, <1>7, <1>8, InvRead

\* Of the records that other processes may write first, none is of the file that
\* process p writes.
LEMMA OthersFresh ==
  ASSUME Inv, NEW p \in Procs, NEW r \in NextWrites(p), NEW q \in Procs \ {p},
         cur[q] # None, ~cur[q].done, cur[q].index = 0
  PROVE  cur[q].id # r.id
<1>1. CASE cur[p] # None
  <2>1. cur[p].id # cur[q].id
    BY DEF Inv, Fresh
  <2> QED
    BY <1>1, <2>1, NextRec
<1>2. CASE cur[p] = None
  <2>1. cur[q].id \in created /\ r.id \notin created
    BY <1>2, NextRec DEF Inv, Known
  <2> QED
    BY <2>1
<1> QED
  BY <1>1, <1>2

LEMMA OutcomeShape ==
  ASSUME Inv, NEW p \in Procs, NEW r \in NextWrites(p), NEW w \in Outcomes(p, r)
  PROVE  /\ WriteShape(w, dat, idx, list[p], r) /\ r \in Rec
         /\ w \in WriteResumeUploadData(dat, idx, list[p], r)
         /\ Len(w.dat.body) <= MaxCells /\ Len(w.idx.body) <= MaxEntries
<1>1. /\ w \in WriteResumeUploadData(dat, idx, list[p], r)
      /\ Len(w.dat.body) <= MaxCells /\ Len(w.idx.body) <= MaxEntries
  BY DEF Outcomes
<1>2. r \in Rec
  BY NextRec
<1>3. /\ dat \in DatFiles /\ idx \in IdxFiles /\ Len(idx.body) <= MaxEntries
      /\ list[p] \in Seq(Entries) /\ Len(list[p]) <= MaxEntries
  BY Types DEF Inv
<1> QED
  BY <1>1, <1>2, <1>3, WriteType

\* Process p writes record r, with outcome w.
Writes(p, r, w) ==
  LET retry == ~again[p] /\ w.result \in {"locked", "no match"}
  IN  /\ w.result # "died"
      /\ dat' = w.dat /\ idx' = w.idx /\ list' = [list EXCEPT ![p] = w.list]
      /\ again' = [again EXCEPT ![p] = retry]
      /\ cur' = [cur EXCEPT ![p] = IF r.done /\ ~retry THEN None
                                   ELSE [r EXCEPT !.index = w.index]]
      /\ res' = [res EXCEPT ![p] = w.result]
      /\ created' = created \cup {r.id}
      /\ counted' = counted \cup {<<r.id, r.bytes>>}
      /\ UNCHANGED <<cmd, pend>>

LEMMA WritesOne ==
  ASSUME NEW p, WriteRecord(p)
  PROVE  \E r \in NextWrites(p) : \E w \in Outcomes(p, r) : Writes(p, r, w)
BY DEF WriteRecord, Writes

LEMMA InvWriteRecord == ASSUME Inv, NEW p \in Procs, WriteRecord(p) PROVE Inv'
<1>0. PICK r \in NextWrites(p) : \E w \in Outcomes(p, r) : Writes(p, r, w)
  BY WritesOne
<1>1. PICK w \in Outcomes(p, r) : Writes(p, r, w)
  BY <1>0
<1>2. PICK na, nl, np, new : /\ na = (~again[p] /\ w.result \in {"locked", "no match"})
                             /\ nl = w.list /\ np = pend[p] /\ new = {r.id}
  OBVIOUS
<1>3. PICK nc : nc = IF r.done /\ ~na THEN None ELSE [r EXCEPT !.index = w.index]
  OBVIOUS
<1>4. /\ w.result # "died"
      /\ dat' = w.dat /\ idx' = w.idx /\ list' = [list EXCEPT ![p] = nl]
      /\ again' = [again EXCEPT ![p] = na] /\ cur' = [cur EXCEPT ![p] = nc]
      /\ res' = [res EXCEPT ![p] = w.result]
      /\ created' = created \cup new /\ cmd' = cmd /\ pend' = pend
  BY <1>1, <1>2, <1>3 DEF Writes
<1>5. /\ WriteShape(w, dat, idx, list[p], r) /\ r \in Rec
      /\ Len(w.dat.body) <= MaxCells /\ Len(w.idx.body) <= MaxEntries
  BY OutcomeShape
<1>6. /\ w.index \in 0 .. MaxEntries /\ r.id \in IDs /\ r.id # NoFile
      /\ w.result \in Results
  BY <1>4, <1>5, RecOK, LengthOK DEF WriteShape, WriteSays
<1>7. \/ nc = None /\ ~na
      \/ /\ nc \in Info /\ nc # None /\ nc.id = r.id /\ nc.index = w.index /\ nc.done = r.done
  BY <1>3, <1>5, <1>6, IndexedOK
<1>8. /\ cmd \in [Procs -> {"none", "upload", "resume"}] /\ res \in [Procs -> Results]
      /\ pend = [q \in Procs |-> pend[q]]
  BY DEF Inv, TypeOK
<1>9. /\ cmd' \in [Procs -> {"none", "upload", "resume"}] /\ res' \in [Procs -> Results]
      /\ pend' = [pend EXCEPT ![p] = np] /\ PendOK(np, dat.body, pend[p])
      /\ na \in BOOLEAN /\ nc \in Info /\ (na => nc # None) /\ new \in SUBSET IDs
      /\ (nc # None => nc.id \in created \cup new)
  BY <1>2, <1>4, <1>6, <1>7, <1>8, PendStays, NoneOK
<1>10. /\ dat' \in DatFiles /\ Len(dat'.body) <= MaxCells
       /\ \A i : TextIn(dat'.body, i) => TextIn(dat.body, i) \/ i \in new
       /\ idx' \in IdxFiles /\ Len(idx'.body) <= MaxEntries
       /\ nl \in Seq(Entries) /\ Len(nl) <= MaxEntries
  BY <1>2, <1>4, <1>5 DEF WriteShape, WriteSays
<1>11. idx'.state = "old" => idx.state = "old" /\ nl \in {list[p], <<>>}
  BY <1>2, <1>4, <1>5 DEF WriteShape, WriteSays
<1>12. \A q \in Procs \ {p} : cur[q] # None /\ ~cur[q].done /\ cur[q].index = 0 =>
                                cur[q].id \notin new /\ cur[q].id # nc.id
  <2> SUFFICES ASSUME NEW q \in Procs \ {p}, cur[q] # None, ~cur[q].done, cur[q].index = 0
               PROVE  cur[q].id \notin new /\ cur[q].id # nc.id
    OBVIOUS
  <2>1. cur[q].id # r.id
    BY OthersFresh
  <2>2. cur[q].id # NoFile
    BY Types, RecOK, LengthOK DEF Inv, Rec
  <2> QED
    BY <1>2, <1>7, <2>1, <2>2, NoneOK
<1>13. ASSUME nc # None, ~nc.done, nc.index = 0
       PROVE  /\ ~TextIn(dat'.body, nc.id)
              /\ \A q \in Procs : \A k \in DOMAIN pend'[q] : pend'[q][k].id # nc.id
              /\ \A q \in Procs \ {p} : cur[q].id # nc.id
  <2>1. nc.id = r.id /\ w.index = 0 /\ ~r.done
    BY <1>7, <1>13
  <2>2. w.dat = Missing /\ r.index = 0
    BY <1>4, <1>5, <2>1 DEF WriteShape, WriteSays
  <2>3. ~TextIn(dat'.body, nc.id)
    BY <1>4, <2>2, FilesOK DEF TextIn
  <2>4. CASE cur[p] # None
    <3>1. cur[p].id = r.id /\ cur[p].index = 0 /\ ~cur[p].done
      BY <2>1, <2>2, <2>4, NextRec
    <3>2. /\ \A q \in Procs : \A k \in DOMAIN pend[q] : pend[q][k].id # r.id
          /\ \A q \in Procs \ {p} : cur[q].id # r.id
      BY <2>4, <3>1 DEF Inv, Fresh, Unheld
    <3> QED
      BY <1>4, <2>1, <2>3, <3>2
  <2>5. CASE cur[p] = None
    <3>1. r.id \notin created
      BY <2>5, NextRec
    <3>2. /\ \A q \in Procs : \A k \in DOMAIN pend[q] : pend[q][k].id # r.id
          /\ \A q \in Procs : cur[q] # None => cur[q].id # r.id
      BY <3>1 DEF Inv, Known
    <3>3. \A q \in Procs : cur[q].id # r.id
      BY <1>6, <3>2, NoneOK
    <3> QED
      BY <1>4, <2>1, <2>3, <3>2, <3>3
  <2> QED
    BY <2>4, <2>5
<1> QED
  <2>1. /\ list' = [list EXCEPT ![p] = nl] /\ again' = [again EXCEPT ![p] = na]
        /\ cur' = [cur EXCEPT ![p] = nc] /\ created' = created \cup new
    BY <1>4
  <2>2. Moves(p, nl, np, nc, na, new)
    BY <2>1, <1>9, <1>10, <1>11, <1>12, <1>13 DEF Moves
  <2> QED
    BY <1>9, <2>2, Keeps

\* A step of process p that only changes the files and its list.
LEMMA InvFiles ==
  ASSUME Inv, NEW p \in Procs,
         dat' \in DatFiles, Len(dat'.body) <= MaxCells,
         \A i : TextIn(dat'.body, i) => TextIn(dat.body, i),
         idx' \in IdxFiles, Len(idx'.body) <= MaxEntries,
         idx'.state = "old" => idx.state = "old",
         list' = [list EXCEPT ![p] = <<>>], UNCHANGED <<cmd, cur, pend, again, res, created, counted>>
  PROVE  Inv'
<1>2. /\ list \in [Procs -> Seq(Entries)] /\ pend = [q \in Procs |-> pend[q]]
      /\ cmd \in [Procs -> {"none", "upload", "resume"}]
      /\ cur \in [Procs -> Info] /\ again \in [Procs -> BOOLEAN] /\ res \in [Procs -> Results]
      /\ created \subseteq IDs
      /\ \A q \in Procs : Len(list[q]) <= MaxEntries /\ Infos(pend[q])
  BY DEF Inv, TypeOK
<1>3. /\ list' \in [Procs -> Seq(Entries)]
      /\ \A q \in Procs : list'[q] = list[q] \/ list'[q] = <<>>
      /\ Len(<<>>) <= MaxEntries
  BY <1>2, StoreAssumption
<1>4. TypeOK'
  <2>1. \A q \in Procs : Len(list'[q]) <= MaxEntries /\ Infos(pend'[q])
    BY <1>2, <1>3
  <2>2. /\ pend' = [q \in Procs |-> pend'[q]] /\ cmd' \in [Procs -> {"none", "upload", "resume"}]
        /\ cur' \in [Procs -> Info] /\ again' \in [Procs -> BOOLEAN] /\ res' \in [Procs -> Results]
        /\ created' \subseteq IDs
    BY <1>2
  <2> QED
    BY <1>3, <2>1, <2>2 DEF TypeOK, DatFiles, IdxFiles, Infos
<1>5. Fresh'
  BY DEF Inv, Fresh, Unheld, TextIn
<1>6. Known' /\ Paused'
  BY DEF Inv, Known, Paused, TextIn
<1>7. OldIndex'
  BY <1>3 DEF Inv, OldIndex
<1> QED
  BY <1>4, <1>5, <1>6, <1>7 DEF Inv

\* A step that leaves process p without a record to write.
LEMMA InvEnds ==
  ASSUME Inv, NEW p \in Procs, NEW new \in SUBSET IDs,
         dat' \in DatFiles, Len(dat'.body) <= MaxCells,
         \A i : TextIn(dat'.body, i) => TextIn(dat.body, i) \/ i \in new,
         idx' \in IdxFiles, Len(idx'.body) <= MaxEntries,
         idx'.state = "old" => idx.state = "old",
         list' = [list EXCEPT ![p] = <<>>], created' = created \cup new,
         \A q \in Procs \ {p} : cur[q] # None /\ ~cur[q].done /\ cur[q].index = 0 => cur[q].id \notin new,
         cmd' = [cmd EXCEPT ![p] = "none"], cur' = [cur EXCEPT ![p] = None],
         pend' = [pend EXCEPT ![p] = NoRecords], again' = [again EXCEPT ![p] = FALSE],
         res' = [res EXCEPT ![p] = "ok"]
  PROVE  Inv'
<1>1. /\ cmd \in [Procs -> {"none", "upload", "resume"}] /\ res \in [Procs -> Results]
      /\ pend = [q \in Procs |-> pend[q]] /\ cur \in [Procs -> Info] /\ again \in [Procs -> BOOLEAN]
      /\ <<>> \in Seq(Entries) /\ Len(<<>>) <= MaxEntries
  BY StoreAssumption DEF Inv, TypeOK
<1>2. \A q \in Procs : cur[q] # None => cur[q].id # NoFile
  BY <1>1, RecOK, LengthOK DEF Rec
<1>3. PICK nc, na, np, nl : nc = None /\ na = FALSE /\ np = NoRecords /\ nl = <<>>
  OBVIOUS
<1>4. /\ again' = [again EXCEPT ![p] = na] /\ cur' = [cur EXCEPT ![p] = nc]
      /\ pend' = [pend EXCEPT ![p] = np] /\ PendOK(np, dat.body, pend[p])
      /\ nc \in Info /\ na \in BOOLEAN /\ res' \in [Procs -> Results]
      /\ cmd' \in [Procs -> {"none", "upload", "resume"}]
      /\ list' = [list EXCEPT ![p] = nl] /\ nl \in Seq(Entries) /\ Len(nl) <= MaxEntries
  BY <1>1, <1>3, NoneOK, NoRecordsHeld, HeldPend DEF Results
<1>5. \A q \in Procs \ {p} : cur[q] # None /\ ~cur[q].done /\ cur[q].index = 0 =>
                               cur[q].id \notin new /\ cur[q].id # nc.id
  BY <1>2, <1>3, NoneOK
<1>6. (na => nc # None) /\ (nc # None => nc.id \in created \cup new)
  BY <1>3
<1>7. nc # None /\ ~nc.done /\ nc.index = 0 =>
        /\ ~TextIn(dat'.body, nc.id)
        /\ \A q \in Procs : \A k \in DOMAIN pend'[q] : pend'[q][k].id # nc.id
        /\ \A q \in Procs \ {p} : cur[q].id # nc.id
  BY <1>3
<1>8. idx'.state = "old" => idx.state = "old" /\ nl \in {list[p], <<>>}
  BY <1>3
<1>9. Moves(p, nl, np, nc, na, new)
  BY <1>4, <1>5, <1>6, <1>7, <1>8 DEF Moves
<1> QED
  BY <1>9, Keeps

\* A step that changes neither the files nor the list.
LEMMA InvMemory ==
  ASSUME Inv, NEW p \in Procs, NEW np, NEW nc, UNCHANGED <<dat, idx, list, again, res, created, counted>>,
         cmd' \in [Procs -> {"none", "upload", "resume"}],
         pend' = [pend EXCEPT ![p] = np], PendOK(np, dat.body, pend[p]),
         cur' = [cur EXCEPT ![p] = nc], nc \in Info, ~again[p] \/ nc # None,
         nc # None => nc.id \in created /\ nc.index # 0,
         \A q \in Procs \ {p} : cur[q] # None /\ ~cur[q].done /\ cur[q].index = 0 => cur[q].id # nc.id
  PROVE  Inv'
<1>1. /\ dat \in DatFiles /\ idx \in IdxFiles /\ Len(dat.body) <= MaxCells
      /\ Len(idx.body) <= MaxEntries /\ list \in [Procs -> Seq(Entries)]
      /\ list[p] \in Seq(Entries) /\ Len(list[p]) <= MaxEntries
      /\ again \in [Procs -> BOOLEAN] /\ res \in [Procs -> Results]
  BY Types DEF Inv, TypeOK
<1>2. PICK nl, na, new : nl = list[p] /\ na = again[p] /\ new = {}
  OBVIOUS
<1>3. /\ list' = [list EXCEPT ![p] = nl] /\ again' = [again EXCEPT ![p] = na]
      /\ created' = created \cup new /\ new \in SUBSET IDs /\ res' \in [Procs -> Results]
      /\ dat' = dat /\ idx' = idx
  BY <1>1, <1>2
<1>4. /\ na \in BOOLEAN /\ (na => nc # None)
      /\ nl \in Seq(Entries) /\ Len(nl) <= MaxEntries
      /\ (idx'.state = "old" => idx.state = "old" /\ nl \in {list[p], <<>>})
      /\ (nc # None => nc.id \in created \cup new)
      /\ \A q \in Procs \ {p} : cur[q] # None /\ ~cur[q].done /\ cur[q].index = 0 =>
                                  cur[q].id \notin new /\ cur[q].id # nc.id
  BY <1>1, <1>2, <1>3
<1>5. Moves(p, nl, np, nc, na, new)
  BY <1>1, <1>3, <1>4 DEF Moves
<1> QED
  BY <1>3, <1>5, Keeps

LEMMA InvNextRecord == ASSUME Inv, NEW p \in Procs, NextRecord(p) PROVE Inv'
<1>1. PICK k : k = Min(DOMAIN pend[p])
  OBVIOUS
<1>2. PICK np, nc : np = Restrict(pend[p], DOMAIN pend[p] \ {k}) /\ nc = pend[p][k]
  OBVIOUS
<1>3. /\ cur' = [cur EXCEPT ![p] = nc] /\ pend' = [pend EXCEPT ![p] = np]
      /\ UNCHANGED <<dat, idx, list, cmd, again, res, created, counted>> /\ DOMAIN pend[p] # {}
      /\ cur[p] = None
  BY <1>1, <1>2 DEF NextRecord
<1>4. /\ DOMAIN pend[p] \subseteq 1 .. MaxEntries /\ MaxEntries \in Nat
      /\ \A j \in DOMAIN pend[p] : /\ pend[p][j] \in Info /\ pend[p][j] # None
                                  /\ pend[p][j].index = j /\ pend[p][j].id \in created
                                  /\ ~pend[p][j].done
  BY StoreAssumption DEF Inv, TypeOK, Infos, Known
<1>5. k \in DOMAIN pend[p]
  <2>1. DOMAIN pend[p] \in SUBSET Nat
    BY <1>4
  <2> QED
    BY <1>1, <1>3, <2>1, LeastOf
<1>6. nc \in Info /\ nc # None /\ nc.id \in created /\ nc.index # 0
  BY <1>2, <1>4, <1>5
<1>7. PendOK(np, dat.body, pend[p])
  <2>1. DOMAIN np = DOMAIN pend[p] \ {k} /\ \A j \in DOMAIN np : np[j] = pend[p][j]
    BY <1>2 DEF Restrict
  <2> QED
    BY <1>4, <2>1 DEF PendOK, Infos
<1>8. \A q \in Procs \ {p} : cur[q] # None /\ ~cur[q].done /\ cur[q].index = 0 => cur[q].id # nc.id
  BY <1>2, <1>5 DEF Inv, Fresh, Unheld
<1>9. cmd' \in [Procs -> {"none", "upload", "resume"}]
  BY <1>3 DEF Inv, TypeOK
<1>10. UNCHANGED <<dat, idx, list, again, res, created, counted>>
  BY <1>3
<1> QED
  BY <1>3, <1>6, <1>7, <1>8, <1>9, <1>10, InvMemory

LEMMA InvGiveUp == ASSUME Inv, NEW p \in Procs, GiveUp(p) PROVE Inv'
<1>1. PICK np, nc : np = pend[p] /\ nc = None
  OBVIOUS
<1>2. /\ cur' = [cur EXCEPT ![p] = nc] /\ pend' = [pend EXCEPT ![p] = np]
      /\ UNCHANGED <<dat, idx, list, again, res, created, counted>> /\ ~again[p]
      /\ cmd' \in [Procs -> {"none", "upload", "resume"}]
  BY <1>1 DEF GiveUp, Inv, TypeOK
<1>3. PendOK(np, dat.body, pend[p]) /\ nc \in Info /\ nc = None
  BY <1>1, PendStays, NoneOK
<1>4. \A q \in Procs \ {p} : cur[q] # None /\ ~cur[q].done /\ cur[q].index = 0 => cur[q].id # nc.id
  BY <1>1, Types, RecOK, LengthOK, NoneOK DEF Inv, Rec
<1> QED
  BY <1>2, <1>3, <1>4, InvMemory

LEMMA InvEndCommand == ASSUME Inv, NEW p \in Procs, EndCommand(p) PROVE Inv'
<1>1. PICK np, nc : np = NoRecords /\ nc = None
  OBVIOUS
<1>2. /\ cur' = [cur EXCEPT ![p] = nc] /\ pend' = [pend EXCEPT ![p] = np]
      /\ UNCHANGED <<dat, idx, list, again, res, created, counted>> /\ ~again[p]
      /\ cmd' \in [Procs -> {"none", "upload", "resume"}]
  BY <1>1 DEF EndCommand, Inv, TypeOK, Paused
<1>3. PendOK(np, dat.body, pend[p]) /\ nc \in Info /\ nc = None
  BY <1>1, NoRecordsHeld, HeldPend, NoneOK
<1>4. \A q \in Procs \ {p} : cur[q] # None /\ ~cur[q].done /\ cur[q].index = 0 => cur[q].id # nc.id
  BY <1>1, Types, RecOK, LengthOK, NoneOK DEF Inv, Rec
<1> QED
  BY <1>2, <1>3, <1>4, InvMemory

LEMMA InvClearFiles == ASSUME Inv, NEW p \in Procs, ClearFiles(p) PROVE Inv'
<1>1. /\ idx \in IdxFiles /\ Len(idx.body) <= MaxEntries
      /\ Missing \in DatFiles /\ Missing \in IdxFiles /\ Missing.body = <<>> /\ Missing.state # "old"
      /\ Len(<<>>) = 0 /\ MaxCells \in Nat /\ MaxEntries \in Nat /\ \A i : ~TextIn(<<>>, i)
  BY Types, FilesOK, StoreAssumption DEF Inv, TextIn
<1>2. /\ dat' = Missing /\ idx' \in {idx, Missing} /\ list' = [list EXCEPT ![p] = <<>>]
      /\ UNCHANGED <<cmd, cur, pend, again, res, created, counted>>
  BY DEF ClearFiles
<1>3. /\ dat' \in DatFiles /\ Len(dat'.body) <= MaxCells /\ \A i : TextIn(dat'.body, i) => TextIn(dat.body, i)
      /\ idx' \in IdxFiles /\ Len(idx'.body) <= MaxEntries /\ (idx'.state = "old" => idx.state = "old")
  BY <1>1, <1>2
<1> QED
  BY <1>2, <1>3, InvFiles

LEMMA InvRestarted ==
  ASSUME Inv, NEW p \in Procs, Restarted(p), NEW new \in SUBSET IDs,
         dat' \in DatFiles, Len(dat'.body) <= MaxCells,
         \A i : TextIn(dat'.body, i) => TextIn(dat.body, i) \/ i \in new,
         idx' \in IdxFiles, Len(idx'.body) <= MaxEntries,
         idx'.state = "old" => idx.state = "old",
         created' = created \cup new,
         \A q \in Procs \ {p} : cur[q] # None /\ ~cur[q].done /\ cur[q].index = 0 => cur[q].id \notin new
  PROVE  Inv'
BY InvEnds DEF Restarted

LEMMA InvQuit == ASSUME Inv, NEW p \in Procs, Quit(p) PROVE Inv'
<1>1. PICK new : new = {}
  OBVIOUS
<1>2. /\ Restarted(p) /\ new \in SUBSET IDs /\ created' = created \cup new /\ \A i : i \notin new
      /\ dat' = dat /\ idx' = idx
  BY <1>1 DEF Quit
<1>3. /\ dat \in DatFiles /\ Len(dat.body) <= MaxCells /\ idx \in IdxFiles /\ Len(idx.body) <= MaxEntries
  BY Types DEF Inv
<1> QED
  BY <1>2, <1>3, InvRestarted

LEMMA InvDieInWrite == ASSUME Inv, NEW p \in Procs, DieInWrite(p) PROVE Inv'
<1>1. PICK r \in NextWrites(p) : \E w \in Outcomes(p, r) :
        w.result = "died" /\ dat' = w.dat /\ idx' = w.idx /\ created' = created \cup {r.id}
  BY DEF DieInWrite
<1>2. PICK w \in Outcomes(p, r) :
        w.result = "died" /\ dat' = w.dat /\ idx' = w.idx /\ created' = created \cup {r.id}
  BY <1>1
<1>3. PICK new : new = {r.id}
  OBVIOUS
<1>4. /\ WriteShape(w, dat, idx, list[p], r) /\ r.id \in IDs
      /\ Len(w.dat.body) <= MaxCells /\ Len(w.idx.body) <= MaxEntries
  BY OutcomeShape, RecOK
<1>5. /\ dat' \in DatFiles /\ Len(dat'.body) <= MaxCells
      /\ \A i : TextIn(dat'.body, i) => TextIn(dat.body, i) \/ i \in new
      /\ idx' \in IdxFiles /\ Len(idx'.body) <= MaxEntries /\ (idx'.state = "old" => idx.state = "old")
      /\ created' = created \cup new /\ new \in SUBSET IDs
  BY <1>2, <1>3, <1>4 DEF WriteShape, WriteSays
<1>6. \A q \in Procs \ {p} : cur[q] # None /\ ~cur[q].done /\ cur[q].index = 0 => cur[q].id \notin new
  BY <1>3, OthersFresh
<1>7. Restarted(p)
  BY DEF DieInWrite
<1> QED
  BY <1>5, <1>6, <1>7, InvRestarted

LEMMA InvDieInClearFiles == ASSUME Inv, NEW p \in Procs, DieInClearFiles(p) PROVE Inv'
<1>1. PICK new : new = {}
  OBVIOUS
<1>2. /\ idx \in IdxFiles /\ Len(idx.body) <= MaxEntries /\ Missing \in DatFiles /\ Missing.body = <<>>
      /\ Len(<<>>) = 0 /\ MaxCells \in Nat /\ \A i : ~TextIn(<<>>, i)
  BY Types, FilesOK, StoreAssumption DEF Inv, TextIn
<1>3. /\ Restarted(p) /\ new \in SUBSET IDs /\ created' = created \cup new /\ \A i : i \notin new
      /\ dat' = Missing /\ idx' = idx
  BY <1>1 DEF DieInClearFiles
<1>4. /\ dat' \in DatFiles /\ Len(dat'.body) <= MaxCells
      /\ \A i : TextIn(dat'.body, i) => TextIn(dat.body, i) \/ i \in new
  BY <1>2, <1>3
<1> QED
  BY <1>2, <1>3, <1>4, InvRestarted

LEMMA InvStutter == ASSUME Inv, UNCHANGED vars PROVE Inv'
<1>1. TypeOK'
  BY DEF Inv, vars, TypeOK, Infos
<1>2. Fresh' /\ Known'
  BY DEF Inv, vars, Fresh, Known, Unheld, TextIn
<1>3. Paused' /\ OldIndex'
  BY DEF Inv, vars, Paused, OldIndex
<1> QED
  BY <1>1, <1>2, <1>3 DEF Inv

LEMMA InvNext == Inv /\ [Next]_vars => Inv'
<1> SUFFICES ASSUME Inv, [Next]_vars PROVE Inv'
  OBVIOUS
<1>1. CASE UNCHANGED vars
  BY <1>1, InvStutter
<1>2. ASSUME NEW p \in Procs,
             \/ StartUpload(p) \/ StartResume(p) \/ StartResumeOf(p) \/ ListRecords(p)
             \/ WriteRecord(p) \/ NextRecord(p) \/ GiveUp(p) \/ EndCommand(p)
             \/ ClearFiles(p) \/ Quit(p) \/ DieInWrite(p) \/ DieInClearFiles(p)
      PROVE  Inv'
  BY <1>2, InvStartUpload, InvStartResume, InvStartResumeOf, InvListRecords, InvWriteRecord,
     InvNextRecord, InvGiveUp, InvEndCommand, InvClearFiles, InvQuit, InvDieInWrite,
     InvDieInClearFiles
<1> QED
  BY <1>1, <1>2 DEF Next

LEMMA InvAlways == Spec => []Inv
BY InvInit, InvNext, PTL DEF Spec

\* The type invariant: the files, the lists in memory and the records that the
\* processes hold are of their types and within the bounds, whoever dies and when.
THEOREM TypeCorrect == Spec => []TypeOK
<1>1. Inv => TypeOK
  BY DEF Inv
<1> QED
  BY <1>1, InvAlways, PTL

-----------------------------------------------------------------------------
(* Files that stay consistent.                                             *)

\* The lines of an exact index do not overlap.
LEMMA ExactApart ==
  ASSUME NEW s \in Seq(Cells), NEW l \in Seq(Entries), Exact(s, l)
  PROVE  \A j, k \in 1 .. Len(l) : j < k => l[j].pos + l[j].len <= l[k].pos
<1> DEFINE G == {k \in 0 .. Len(l) : k # 0 => \A j \in 1 .. k - 1 : l[j].pos + l[j].len <= l[k].pos}
<1>1. /\ Len(l) \in Nat
      /\ \A k \in 1 .. Len(l) : l[k].pos \in Nat /\ l[k].len \in Nat /\ l[k].pos = EndOf(l, k - 1)
  BY EntryOK, ExactOK
<1>2. 0 \in G
  BY <1>1
<1>3. ASSUME NEW k \in 1 .. Len(l), k - 1 \in G PROVE k \in G
  <2> SUFFICES ASSUME NEW j \in 1 .. k - 1 PROVE l[j].pos + l[j].len <= l[k].pos
    BY <1>1
  <2>1. l[k].pos = l[k - 1].pos + l[k - 1].len /\ k - 1 \in 1 .. Len(l)
    BY <1>1 DEF EndOf
  <2>2. CASE j = k - 1
    <3>1. l[k].pos \in Nat /\ l[k].pos = l[j].pos + l[j].len
      BY <1>1, <2>1, <2>2
    <3> QED
      BY <3>1
  <2>3. CASE j # k - 1
    <3>1. j \in 1 .. (k - 1) - 1
      BY <2>3
    <3>2. l[j].pos + l[j].len <= l[k - 1].pos
      BY <1>3, <3>1
    <3>3. j \in 1 .. Len(l)
      BY <1>1
    <3>4. l[j].pos \in Nat /\ l[j].len \in Nat
      BY <1>1, <3>3
    <3>5. l[k - 1].pos \in Nat /\ l[k - 1].len \in Nat
      BY <1>1, <2>1
    <3>6. PICK a, b, c, m : a = l[j].pos /\ b = l[j].len /\ c = l[k - 1].pos /\ m = l[k - 1].len
      OBVIOUS
    <3>7. a \in Nat /\ b \in Nat /\ c \in Nat /\ m \in Nat /\ a + b <= c
      BY <3>2, <3>4, <3>5, <3>6
    <3>8. a + b <= c + m
      BY ONLY <3>7
    <3> QED
      BY <2>1, <3>6, <3>8
  <2> QED
    BY <2>2, <2>3
<1>4. \A k \in 0 .. Len(l) : k \in G
  <2> HIDE DEF G
  <2> QED  BY <1>1, <1>2, <1>3, UpTo
<1> QED
  BY <1>1, <1>4

\* A record is written over the line that has the record of its file.
LEMMA ExactOverlay ==
  ASSUME NEW s \in Seq(Cells), NEW l \in Seq(Entries), Exact(s, l), NEW n \in 1 .. Len(l),
         NEW r \in Rec, First(s, l, n).id = r.id,
         NEW v, v = Overlay(s, l[n].pos, Text(r, l[n].len))
  PROVE  /\ v \in Seq(Cells) /\ Exact(v, l)
         /\ First(v, l, n).id = r.id /\ First(v, l, n).bytes = r.bytes
         /\ \A k \in 1 .. Len(l) : k # n => First(v, l, k) = First(s, l, k)
<1>1. PICK pos, len : pos = l[n].pos /\ len = Length[r.id]
  OBVIOUS
<1>2. /\ pos \in Nat /\ len \in Nat /\ len > 0 /\ l[n].len = len /\ pos + len <= Len(s)
      /\ Len(s) \in Nat
  BY <1>1, ExactEntry, RecOK, LengthOK
<1>3. PICK t : t = Text(r, len)
  OBVIOUS
<1>4. /\ t \in Seq(Cells) /\ Len(t) = len /\ \A k \in 1 .. len : t[k] = TextCell(r, k)
  BY <1>1, <1>2, <1>3, TextOK
<1>5. v = Overlay(s, pos, t)
  BY <1>1, <1>2, <1>3
<1>6. /\ v \in Seq(Cells) /\ Len(v) = Len(s)
      /\ \A k \in 1 .. Len(v) : v[k] = IF k \in pos + 1 .. pos + Len(t) THEN t[k - pos]
                                       ELSE IF k <= Len(s) THEN s[k] ELSE Hole
  <2>1. /\ v \in Seq(Cells)
        /\ Len(v) = IF Len(s) >= pos + Len(t) THEN Len(s) ELSE pos + Len(t)
        /\ \A k \in 1 .. Len(v) : v[k] = IF k \in pos + 1 .. pos + Len(t) THEN t[k - pos]
                                         ELSE IF k <= Len(s) THEN s[k] ELSE Hole
    BY <1>2, <1>4, <1>5, OverlayOK
  <2>2. Len(s) >= pos + Len(t)
    BY <1>2, <1>4
  <2> QED
    BY <2>1, <2>2
<1>7. LineAt(v, pos + 1) /\ v[pos + 1].id = r.id /\ v[pos + 1].bytes = r.bytes
  <2>1. \A j \in 1 .. len : v[pos + j] = TextCell(r, j)
    <3> SUFFICES ASSUME NEW j \in 1 .. len PROVE v[pos + j] = TextCell(r, j)
      OBVIOUS
    <3>1. pos + j \in 1 .. Len(v) /\ pos + j \in pos + 1 .. pos + Len(t) /\ (pos + j) - pos = j
      BY <1>2, <1>4, <1>6
    <3> QED
      BY <1>4, <1>6, <3>1
  <2> QED
    <3>1. /\ pos + Length[r.id] <= Len(v)
          /\ \A j \in 1 .. Length[r.id] : v[pos + j] = TextCell(r, j)
      BY <1>1, <1>2, <1>6, <2>1
    <3>2. v \in Seq(Cells) /\ pos \in Nat
      BY <1>2, <1>6
    <3> QED
      BY <3>1, <3>2, LineOfText
<1>8. ASSUME NEW k \in 1 .. Len(l), k # n
      PROVE  LineAt(v, l[k].pos + 1) /\ First(v, l, k) = First(s, l, k)
  <2>1. PICK b : b = l[k].pos + 1
    OBVIOUS
  <2>2. /\ l[k].pos \in Nat /\ l[k].len \in Nat /\ LineAt(s, b) /\ Length[s[b].id] = l[k].len
        /\ l[k].pos + l[k].len <= Len(s)
    BY <2>1, ExactEntry DEF First
  <2>3. l[k].pos + l[k].len <= pos \/ pos + len <= l[k].pos
    <3>1. k < n \/ n < k
      BY <1>8
    <3> QED
      BY <3>1, <1>1, <1>2, ExactApart
  <2>4. \A j \in b .. b + Length[s[b].id] - 1 : v[j] = s[j]
    <3> SUFFICES ASSUME NEW j \in b .. b + Length[s[b].id] - 1 PROVE v[j] = s[j]
      OBVIOUS
    <3>1. j \in 1 .. Len(v) /\ j <= Len(s) /\ j \notin pos + 1 .. pos + Len(t)
      <4>1. PICK a, c, m : a = l[k].pos /\ c = l[k].len /\ m = Len(s)
        OBVIOUS
      <4>2. /\ a \in Nat /\ c \in Nat /\ m \in Nat /\ b = a + 1 /\ j \in b .. b + c - 1
            /\ a + c <= m /\ (a + c <= pos \/ pos + len <= a) /\ Len(v) = m /\ Len(t) = len
        BY <1>2, <1>4, <1>6, <2>1, <2>2, <2>3, <4>1
      <4>3. j \in 1 .. m /\ j \notin pos + 1 .. pos + len
        BY <4>2, <1>2
      <4> QED
        BY <4>1, <4>2, <4>3
    <3> QED
      BY <1>6, <3>1
  <2>5. b + Length[s[b].id] <= Len(v) + 1
    BY <1>2, <1>6, <2>1, <2>2
  <2>6. LineAt(v, b) /\ v[b] = s[b]
    BY <1>6, <2>2, <2>4, <2>5, LineKept, SMTT(30)
  <2> QED
    BY <2>1, <2>6 DEF First
<1>9. /\ First(v, l, n).id = r.id /\ First(v, l, n).bytes = r.bytes /\ LineAt(v, l[n].pos + 1)
  BY <1>1, <1>7 DEF First
<1>10. Exact(v, l)
  <2>1. \A k \in 1 .. Len(l) : First(v, l, k).id = First(s, l, k).id /\ LineAt(v, l[k].pos + 1)
    BY <1>8, <1>9
  <2>2. /\ Len(v) = EndOf(l, Len(l))
        /\ \A k \in 1 .. Len(l) : l[k].pos = EndOf(l, k - 1) /\ l[k].len = Length[First(v, l, k).id]
        /\ \A j, k \in 1 .. Len(l) : First(v, l, j).id = First(v, l, k).id => j = k
    BY <1>6, <2>1, ExactOK
  <2> QED
    BY <1>6, <2>1, <2>2, ExactOK
<1> QED
  BY <1>6, <1>8, <1>9, <1>10

\* What opening or reading the files leaves of them.
OpenCons(o, d, x, l) ==
  \/ /\ d.state # "written" \/ x.state = "old"
     /\ o.dat \in {Emptied, Missing} /\ o.idx \in {x, Missing} /\ o.list \in {l, <<>>}
  \/ /\ d.state = "written" /\ o.dat = d /\ o.idx.body = x.body /\ o.list = x.body
     /\ x.state # "old" /\ o.idx.state # "old"

LEMMA OpensCons ==
  ASSUME NEW d \in DatFiles, NEW x \in IdxFiles, NEW l \in Seq(Entries),
         NEW o, o = OpenResumeData(d, x, l) \/ o = LoadResumeInfo(d, x, l)
  PROVE  OpenCons(o, d, x, l)
<1>1. PICK p : p = OpenResumeData(d, x, l)
  OBVIOUS
<1>2. (FirstRun(p, d, x, l) \/ TooOld(p, d, x, l) \/ IsRead(p, d, x)) /\ DOMAIN p = Fields
  BY <1>1, Opening
<1>3. o.dat = p.dat /\ o.idx = p.idx /\ o.list = p.list
  BY <1>1, <1>2 DEF LoadResumeInfo, Fields
<1>4. Emptied.body = <<>> /\ Emptied.state # "old" /\ (x.state = "missing" => x.body = <<>>)
  BY FilesOK, FileOK
<1>5. CASE FirstRun(p, d, x, l)
  BY <1>3, <1>5 DEF FirstRun, OpenCons
<1>6. CASE TooOld(p, d, x, l)
  BY <1>3, <1>6 DEF TooOld, OpenCons
<1>7. CASE IsRead(p, d, x)
  BY <1>3, <1>4, <1>7 DEF IsRead, OpenCons
<1> QED
  BY <1>2, <1>5, <1>6, <1>7

LEMMA ConsTwice ==
  ASSUME NEW d, NEW x, NEW l, NEW o, OpenCons(o, d, x, l), NEW q, OpenCons(q, o.dat, o.idx, o.list)
  PROVE  OpenCons(q, d, x, l)
<1>1. /\ Emptied.state # "written" /\ Missing.state # "written" /\ Missing.state # "old"
      /\ Emptied.state # "old"
  BY FilesOK
<1> QED
  BY <1>1 DEF OpenCons

LEMMA ConsRead ==
  ASSUME Inv, Consistent, NEW p \in Procs, NEW o, OpenCons(o, dat, idx, list[p]),
         dat' = o.dat, idx' = o.idx, NEW nl \in {o.list, <<>>}, list' = [list EXCEPT ![p] = nl]
  PROVE  Consistent'
<1>1. /\ Emptied.state # "written" /\ Missing.state # "written" /\ list \in [Procs -> Seq(Entries)]
  BY FilesOK DEF Inv, TypeOK
<1>2. CASE /\ dat.state # "written" \/ idx.state = "old"
           /\ o.dat \in {Emptied, Missing} /\ o.idx \in {idx, Missing} /\ o.list \in {list[p], <<>>}
  <2>1. idx.state # "written" /\ \A q \in Procs : list[q] = <<>>
    BY <1>2 DEF Inv, OldIndex, Consistent, IndexExact
  <2>2. \A q \in Procs : list'[q] = <<>>
    BY <1>1, <1>2, <2>1
  <2> QED
    BY <1>1, <1>2, <2>1, <2>2 DEF Consistent, IndexExact
<1>3. CASE /\ dat.state = "written" /\ o.dat = dat /\ o.idx.body = idx.body
  <2>1. dat' = dat /\ idx'.body = idx.body
    BY <1>3
  <2>2. Exact(dat'.body, idx'.body) /\ dat'.state = "written"
    BY <1>3, <2>1 DEF Consistent, IndexExact
  <2> QED
    BY <2>2 DEF Consistent, IndexExact
<1> QED
  BY <1>2, <1>3 DEF OpenCons

LEMMA NewUnheld ==
  ASSUME Inv, NEW p \in Procs, NEW r \in NextWrites(p), r.index = 0, ~r.done
  PROVE  ~TextIn(dat.body, r.id)
<1>1. CASE cur[p] # None
  <2>1. cur[p].id = r.id /\ cur[p].index = 0 /\ ~cur[p].done
    BY <1>1, NextRec
  <2> QED
    BY <1>1, <2>1 DEF Inv, Fresh, Unheld
<1>2. CASE cur[p] = None
  BY <1>2, NextRec DEF Inv, Known
<1> QED
  BY <1>1, <1>2

LEMMA NoneFirst ==
  ASSUME NEW s \in Seq(Cells), NEW l \in Seq(Entries), Exact(s, l), NEW i \in IDs,
         FindsNone(s, l, i) \/ ~TextIn(s, i)
  PROVE  \A k \in 1 .. Len(l) : First(s, l, k).id # i
<1> SUFFICES ASSUME NEW k \in 1 .. Len(l) PROVE First(s, l, k).id # i
  OBVIOUS
<1>1. /\ Reads(s, l, k).id = First(s, l, k).id /\ First(s, l, k).id \in IDs
  BY ExactEntry DEF Reads
<1>2. TextIn(s, First(s, l, k).id)
  BY <1>1, ReadsText
<1> QED
  BY <1>1, <1>2 DEF FindsNone

\* A record that is added, or laid over the one of its file, to files that are
\* consistent.
LEMMA AddedExact ==
  ASSUME Inv, Consistent, NEW p \in Procs, NEW r \in NextWrites(p), NEW w,
         NEW s \in Seq(Cells), NEW m \in Seq(Entries), NEW y,
         IsAdded(w, dat, idx, list[p], r, s, m, y)
  PROVE  /\ Exact(s, m) /\ \A k \in 1 .. Len(m) : First(s, m, k).id # r.id
         /\ dat.state = "written" => s = dat.body /\ m = idx.body
         /\ dat.state # "written" => s = Header /\ m = <<>>
<1>1. dat.body \in Seq(Cells) /\ idx.body \in Seq(Entries) /\ r.id \in IDs /\ r \in Rec
  BY Types, NextRec, RecOK DEF Inv
<1>2. CASE dat.state # "written"
  <2>1. s = Header /\ m = <<>>
    BY <1>2 DEF IsAdded, Consistent
  <2> QED
    BY <1>2, <2>1, ExactHeader
<1>3. CASE dat.state = "written"
  <2>1. s = dat.body /\ m = idx.body /\ ~r.done /\ (r.index = 0 \/ FindsNone(dat.body, idx.body, r.id))
    BY <1>3 DEF IsAdded
  <2>2. Exact(dat.body, idx.body)
    BY <1>3 DEF Consistent, IndexExact
  <2>3. FindsNone(dat.body, idx.body, r.id) \/ ~TextIn(dat.body, r.id)
    BY <2>1, NewUnheld
  <2> QED
    BY <1>1, <1>3, <2>1, <2>2, <2>3, NoneFirst
<1> QED
  BY <1>2, <1>3

LaidOn(r, s, m, n) ==
  /\ dat.state = "written" /\ s = dat.body /\ m = idx.body /\ Exact(s, m)
  /\ n \in 1 .. Len(m) /\ First(s, m, n).id = r.id

LEMMA LaidExact ==
  ASSUME Inv, Consistent, NEW p \in Procs, NEW r \in NextWrites(p), NEW w,
         NEW s \in Seq(Cells), NEW m \in Seq(Entries), NEW n,
         IsLaid(w, dat, idx, list[p], r, s, m, n)
  PROVE  LaidOn(r, s, m, n)
<1>1. dat.body \in Seq(Cells) /\ idx.body \in Seq(Entries)
  BY Types DEF Inv
<1>2. n \in 1 .. Len(m)
  BY DEF IsLaid
<1>3. dat.state = "written"
  <2>1. dat.state # "written" => m = <<>>
    BY DEF IsLaid, Consistent
  <2> QED
    BY <1>2, <2>1
<1>4. s = dat.body /\ m = idx.body /\ Finds(dat.body, idx.body, r.id, n)
  BY <1>3 DEF IsLaid
<1>5. Exact(s, m)
  BY <1>3, <1>4 DEF Consistent, IndexExact
<1>6. First(s, m, n).id = r.id
  BY <1>1, <1>2, <1>4, <1>5, ExactEntry DEF Finds, Reads
<1> QED
  BY <1>2, <1>3, <1>4, <1>5, <1>6 DEF LaidOn

\* The record that is removed from files that are consistent.
LEMMA ClearedExact ==
  ASSUME NEW d \in DatFiles, NEW x \in IdxFiles, Len(x.body) <= MaxEntries, Exact(d.body, x.body),
         NEW n, NEW f, f = Rewritten(KeptBy(d, x, n), Len(x.body))[Len(x.body)]
  PROVE  /\ f.body \in Seq(Cells) /\ f.list \in Seq(Entries) /\ Exact(f.body, f.list)
         /\ \A e \in 1 .. Len(f.list) :
              \E m \in DOMAIN KeptBy(d, x, n) : Same(First(f.body, f.list, e), KeptBy(d, x, n)[m])
         /\ \A m \in DOMAIN KeptBy(d, x, n) :
              \E e \in 1 .. Len(f.list) : Same(First(f.body, f.list, e), KeptBy(d, x, n)[m])
<1>1. PICK kept, m : kept = KeptBy(d, x, n) /\ m = Len(x.body)
  OBVIOUS
<1>2. d.body \in Seq(Cells) /\ x.body \in Seq(Entries) /\ m \in Nat
  BY <1>1, FileOK
<1>3. /\ DOMAIN kept \subseteq 1 .. m /\ \A k \in DOMAIN kept : kept[k] \in Rec
      /\ \A k \in DOMAIN kept : kept[k].id = Reads(d.body, x.body, k).id
  BY <1>1, KeptByOK
<1>4. \A j, k \in DOMAIN kept : kept[j].id = kept[k].id => j = k
  <2>1. \A k \in DOMAIN kept : k \in 1 .. Len(x.body) /\ kept[k].id = First(d.body, x.body, k).id
    BY <1>1, <1>2, <1>3, ExactEntry DEF Reads
  <2> QED
    BY <1>2, <2>1, ExactOK
<1>5. f = Rewritten(kept, m)[m] /\ m \in 0 .. m
  BY <1>1, <1>2
<1>6. f \in Rewrites
  BY <1>2, <1>3, <1>5, RewrittenOK
<1>7. /\ Exact(f.body, f.list)
      /\ \A e \in 1 .. Len(f.list) : \E k \in DOMAIN kept : Same(First(f.body, f.list, e), kept[k])
      /\ \A k \in DOMAIN kept : \E e \in 1 .. Len(f.list) : Same(First(f.body, f.list, e), kept[k])
  BY <1>2, <1>3, <1>4, <1>5, RewrittenExact
<1> QED
  BY <1>1, <1>6, <1>7 DEF Rewrites

LEMMA ConsWritten ==
  ASSUME NEW s \in Seq(Cells), NEW m \in Seq(Entries), Exact(s, m),
         dat' = Written(s), idx'.body = m
  PROVE  Consistent'
<1>1. dat'.state = "written" /\ dat'.body = s
  BY FilesOK
<1>2. Exact(dat'.body, idx'.body)
  BY <1>1
<1> QED
  BY <1>1, <1>2 DEF Consistent, IndexExact

LEMMA ConsWriteRecord == ASSUME Inv, Consistent, NEW p \in Procs, WriteRecord(p) PROVE Consistent'
<1>0. PICK r \in NextWrites(p) : \E w \in Outcomes(p, r) : Writes(p, r, w)
  BY WritesOne
<1>1. PICK w \in Outcomes(p, r) : Writes(p, r, w)
  BY <1>0
<1>2. /\ w.result # "died" /\ dat' = w.dat /\ idx' = w.idx
      /\ list' = [list EXCEPT ![p] = w.list]
  BY <1>1 DEF Writes
<1>3. /\ dat \in DatFiles /\ idx \in IdxFiles /\ Len(idx.body) <= MaxEntries
      /\ list \in [Procs -> Seq(Entries)] /\ list[p] \in Seq(Entries)
      /\ dat.body \in Seq(Cells) /\ idx.body \in Seq(Entries)
      /\ r \in Rec /\ w \in WriteResumeUploadData(dat, idx, list[p], r)
  BY Types, OutcomeShape DEF Inv, TypeOK
<1>4. CASE StaysEmpty(w, dat, idx, list[p], r)
  <2>1. dat.state # "written" /\ idx.state # "written" /\ \A q \in Procs : list[q] = <<>>
    BY <1>4 DEF StaysEmpty, Consistent, IndexExact
  <2>2. idx' = idx /\ idx.body = <<>> /\ \A q \in Procs : list'[q] = <<>>
    BY <1>2, <1>3, <1>4, <2>1, FileOK DEF StaysEmpty
  <2>3. CASE w.dat = Emptied
    BY <1>2, <2>1, <2>2, <2>3, FilesOK DEF Consistent, IndexExact
  <2>4. CASE w.dat = Written(Header)
    <3>1. Header \in Seq(Cells) /\ <<>> \in Seq(Entries) /\ Exact(Header, <<>>)
      BY CellsOK, ExactHeader
    <3> QED
      BY <1>2, <2>2, <2>4, <3>1, ConsWritten
  <2> QED
    BY <1>4, <2>3, <2>4 DEF StaysEmpty
<1>5. CASE IsTooOld(w, dat, idx, list[p], r)
  <2>1. OpenCons(w, dat, idx, list[p])
    BY <1>5 DEF IsTooOld, OpenCons
  <2> QED
    BY <1>2, <2>1, ConsRead
<1>6. CASE StaysAsRead(w, dat, idx, r)
  <2>1. OpenCons(w, dat, idx, list[p])
    BY <1>3, <1>6, FilesOK, FileOK DEF StaysAsRead, OpenCons
  <2> QED
    BY <1>2, <2>1, ConsRead
<1>7. ASSUME NEW s \in Seq(Cells), NEW m \in Seq(Entries), NEW y,
             IsAdded(w, dat, idx, list[p], r, s, m, y)
      PROVE  Consistent'
  <2>1. PICK e : e = [body |-> s, list |-> m]
    OBVIOUS
  <2>2. e \in Rewrites /\ e.body = s /\ e.list = m
    BY <2>1 DEF Rewrites
  <2>3. Exact(e.body, e.list) /\ \A k \in 1 .. Len(e.list) : First(e.body, e.list, k).id # r.id
    BY <1>7, <2>2, AddedExact
  <2>4. PICK f : f = WithRecord(e, r)
    OBVIOUS
  <2>5. Exact(f.body, f.list)
    BY <1>3, <2>2, <2>3, <2>4, ExactAppend
  <2>6. w \in Appended(s, y, f)
    BY <1>7, <2>1, <2>4 DEF IsAdded
  <2>7. /\ f.body \in Seq(Cells) /\ f.list \in Seq(Entries)
        /\ w.dat = Written(f.body) /\ w.idx = Written(f.list)
    BY <1>2, <1>3, <2>1, <2>4, <2>6, AppendedAs
  <2> QED
    BY <1>2, <2>5, <2>7, FilesOK, ConsWritten
<1>8. ASSUME NEW s \in Seq(Cells), NEW m \in Seq(Entries), NEW n \in Nat,
             IsLaid(w, dat, idx, list[p], r, s, m, n)
      PROVE  Consistent'
  <2>1. PICK v : v = Overlay(s, m[n].pos, Text(r, m[n].len))
    OBVIOUS
  <2>2. /\ s = dat.body /\ m = idx.body /\ Exact(s, m) /\ n \in 1 .. Len(m)
        /\ First(s, m, n).id = r.id /\ w = Outcome(Written(v), idx, m, n, "ok")
    <3>1. /\ s = dat.body /\ m = idx.body /\ Exact(s, m) /\ n \in 1 .. Len(m)
          /\ First(s, m, n).id = r.id
          /\ w = Outcome(Written(Overlay(s, m[n].pos, Text(r, m[n].len))), idx, m, n, "ok")
      <4>1. LaidOn(r, s, m, n)
        BY <1>8, LaidExact
      <4> QED
        BY <4>1, <1>8 DEF IsLaid, LaidOn
    <3> QED
      BY <2>1, <3>1
  <2>3. v \in Seq(Cells) /\ Exact(v, m)
    BY <1>3, <2>1, <2>2, ExactOverlay
  <2>4. w.dat = Written(v) /\ w.idx = idx
    BY <2>2 DEF Outcome
  <2> QED
    BY <1>2, <2>2, <2>3, <2>4, ConsWritten
<1>9. ASSUME NEW n \in Nat, IsCleared(w, dat, idx, r, n)
      PROVE  Consistent'
  <2>1. PICK f : f = Rewritten(KeptBy(dat, idx, n), Len(idx.body))[Len(idx.body)]
    OBVIOUS
  <2>2. Exact(dat.body, idx.body)
    BY <1>9 DEF IsCleared, Consistent, IndexExact
  <2>3. f.body \in Seq(Cells) /\ f.list \in Seq(Entries) /\ Exact(f.body, f.list)
    BY <1>3, <2>1, <2>2, ClearedExact
  <2>4. w.dat = Written(f.body) /\ w.idx = Written(f.list)
    BY <1>2, <1>9, <2>1, SavedAs DEF IsCleared
  <2> QED
    BY <1>2, <2>3, <2>4, FilesOK, ConsWritten
<1> QED
  BY <1>3, <1>4, <1>5, <1>6, <1>7, <1>8, <1>9, Writing

\* A step that leaves the files and changes, or forgets, a list.
LEMMA ConsSame ==
  ASSUME Consistent, UNCHANGED <<dat, idx>>, Inv,
         list' = list \/ \E p \in Procs : list' = [list EXCEPT ![p] = <<>>]
  PROVE  Consistent'
<1>1. \A q \in Procs : list'[q] = list[q] \/ list'[q] = <<>>
  BY DEF Inv, TypeOK
<1>2. Exact(dat.body, idx.body) => Exact(dat'.body, idx'.body)
  OBVIOUS
<1> QED
  BY <1>1, <1>2 DEF Consistent, IndexExact

LEMMA ConsClearFiles ==
  ASSUME ~ClearsBehind, Inv, Consistent, NEW p \in Procs, ClearFiles(p)
  PROVE  Consistent'
<1>1. /\ dat' = Missing /\ dat'.state # "written"
      /\ idx' = IF dat.state = "missing" THEN idx ELSE Missing
      /\ list' = [list EXCEPT ![p] = <<>>] /\ \A q \in Procs \ {p} : list[q] = <<>>
  BY FilesOK DEF ClearFiles
<1>2. \A q \in Procs : list'[q] = <<>>
  BY <1>1 DEF Inv, TypeOK
<1>3. idx'.state # "written"
  BY <1>1, FilesOK DEF Consistent, IndexExact
<1> QED
  BY <1>1, <1>2, <1>3 DEF Consistent, IndexExact

LEMMA ConsStep ==
  ASSUME ~ClearsBehind, Inv, Consistent, NEW p \in Procs,
         \/ StartUpload(p) \/ StartResume(p) \/ StartResumeOf(p) \/ ListRecords(p)
         \/ WriteRecord(p) \/ NextRecord(p) \/ GiveUp(p) \/ EndCommand(p)
         \/ ClearFiles(p) \/ Quit(p)
  PROVE  Consistent'
<1> DEFINE o == OpenResumeData(dat, idx, list[p])
           q == LoadResumeInfo(o.dat, o.idx, o.list)
           e == LoadResumeInfo(dat, idx, list[p])
<1>1. /\ OpenCons(o, dat, idx, list[p]) /\ OpenCons(e, dat, idx, list[p])
      /\ o.dat \in DatFiles /\ o.idx \in IdxFiles /\ o.list \in Seq(Entries)
  <2>1. dat \in DatFiles /\ idx \in IdxFiles /\ list[p] \in Seq(Entries)
    BY Types DEF Inv
  <2> QED
    BY <2>1, OpensCons, OpenType DEF OpenShape
<1>2. OpenCons(q, dat, idx, list[p])
  <2>1. OpenCons(q, o.dat, o.idx, o.list)
    <3> HIDE DEF o
    <3> QED  BY <1>1, OpensCons
  <2> HIDE DEF o, q
  <2> QED
    BY <1>1, <2>1, ConsTwice
<1>3. CASE StartUpload(p) \/ StartResumeOf(p)
  <2>1. dat' = o.dat /\ idx' = o.idx /\ list' = [list EXCEPT ![p] = o.list]
    BY <1>3 DEF StartUpload, StartResumeOf
  <2> HIDE DEF o
  <2> QED
    BY <1>1, <2>1, ConsRead
<1>4. CASE StartResume(p)
  <2>1. dat' = q.dat /\ idx' = q.idx /\ \E nl \in {q.list, <<>>} : list' = [list EXCEPT ![p] = nl]
    BY <1>4 DEF StartResume, Load
  <2> HIDE DEF q
  <2> QED
    BY <1>2, <2>1, ConsRead
<1>5. CASE ListRecords(p)
  <2>1. dat' = e.dat /\ idx' = e.idx /\ \E nl \in {e.list, <<>>} : list' = [list EXCEPT ![p] = nl]
    BY <1>5 DEF ListRecords, Load
  <2> HIDE DEF e
  <2> QED
    BY <1>1, <2>1, ConsRead
<1>6. CASE WriteRecord(p)
  BY <1>6, ConsWriteRecord
<1>7. CASE NextRecord(p) \/ GiveUp(p) \/ EndCommand(p) \/ Quit(p)
  BY <1>7, ConsSame DEF NextRecord, GiveUp, EndCommand, Quit, Restarted
<1>8. CASE ClearFiles(p)
  BY <1>8, ConsClearFiles
<1> QED
  BY <1>3, <1>4, <1>5, <1>6, <1>7, <1>8

\* While no user clears the files behind another DioCLI, only a process that dies
\* inside a method leaves the files, or the lists of the others, inconsistent: the
\* index has exactly the lines of the data file, one of each file.
THEOREM OnlyDeathDamages == ASSUME ~ClearsBehind PROVE Spec => StaysConsistent
<1>1. Inv /\ [Next]_vars =>
        [Consistent /\ ~Consistent' => \E p \in Procs : DieInWrite(p) \/ DieInClearFiles(p)]_vars
  <2> SUFFICES ASSUME Inv, Next, Consistent, ~Consistent'
               PROVE  \E p \in Procs : DieInWrite(p) \/ DieInClearFiles(p)
    OBVIOUS
  <2> QED
    BY ConsStep DEF Next
<1> QED
  BY <1>1, InvAlways, PTL DEF Spec, StaysConsistent

-----------------------------------------------------------------------------
(* What a write records.                                                   *)

\* What may be said of process p when it writes.
LEMMA Wrote ==
  ASSUME Inv, NEW p \in Procs, WriteRecord(p)
  PROVE  \E r \in NextWrites(p) : \E w \in Outcomes(p, r) :
           /\ Writes(p, r, w) /\ r \in Rec /\ w.result # "died" /\ res'[p] = w.result
           /\ dat' = w.dat /\ idx' = w.idx
           /\ \/ StaysEmpty(w, dat, idx, list[p], r) \/ IsTooOld(w, dat, idx, list[p], r)
              \/ StaysAsRead(w, dat, idx, r)
              \/ \E s \in Seq(Cells), m \in Seq(Entries), y \in IdxFiles :
                   IsAdded(w, dat, idx, list[p], r, s, m, y)
              \/ \E s \in Seq(Cells), m \in Seq(Entries), n \in Nat :
                   IsLaid(w, dat, idx, list[p], r, s, m, n)
              \/ \E n \in Nat : IsCleared(w, dat, idx, r, n)
<1>0. PICK r \in NextWrites(p) : \E w \in Outcomes(p, r) : Writes(p, r, w)
  BY WritesOne
<1>1. PICK w \in Outcomes(p, r) : Writes(p, r, w)
  BY <1>0
<1>2. /\ w.result # "died" /\ dat' = w.dat /\ idx' = w.idx /\ res' = [res EXCEPT ![p] = w.result]
  BY <1>1 DEF Writes
<1>3. res'[p] = w.result
  BY <1>2 DEF Inv, TypeOK
<1>4. /\ dat \in DatFiles /\ idx \in IdxFiles /\ Len(idx.body) <= MaxEntries
      /\ list[p] \in Seq(Entries)
      /\ r \in Rec /\ w \in WriteResumeUploadData(dat, idx, list[p], r)
  BY Types, OutcomeShape DEF Inv
<1>5. \/ StaysEmpty(w, dat, idx, list[p], r) \/ IsTooOld(w, dat, idx, list[p], r)
      \/ StaysAsRead(w, dat, idx, r)
      \/ \E s \in Seq(Cells), m \in Seq(Entries), y \in IdxFiles :
           IsAdded(w, dat, idx, list[p], r, s, m, y)
      \/ \E s \in Seq(Cells), m \in Seq(Entries), n \in Nat :
           IsLaid(w, dat, idx, list[p], r, s, m, n)
      \/ \E n \in Nat : IsCleared(w, dat, idx, r, n)
  BY <1>4, Writing
<1> QED
  BY <1>1, <1>2, <1>3, <1>4, <1>5

\* The record that is removed is of none of those kept.
LEMMA ClearedNone ==
  ASSUME NEW d \in DatFiles, NEW x \in IdxFiles, Len(x.body) <= MaxEntries, Exact(d.body, x.body),
         NEW i \in IDs, NEW n, Finds(d.body, x.body, i, n),
         NEW f, f = Rewritten(KeptBy(d, x, n), Len(x.body))[Len(x.body)]
  PROVE  RecordedIn(f.body, f.list)[i] = NoFile
<1>1. d.body \in Seq(Cells) /\ x.body \in Seq(Entries)
  BY FileOK
<1>2. PICK kept : kept = KeptBy(d, x, n)
  OBVIOUS
<1>3. /\ f.body \in Seq(Cells) /\ f.list \in Seq(Entries) /\ Exact(f.body, f.list)
      /\ \A e \in 1 .. Len(f.list) : \E m \in DOMAIN kept : Same(First(f.body, f.list, e), kept[m])
  BY <1>2, ClearedExact
<1>4. /\ DOMAIN kept \subseteq 1 .. Len(x.body)
      /\ \A k \in DOMAIN kept : kept[k].id = Reads(d.body, x.body, k).id /\ x.body[k] # x.body[n]
  BY <1>2, KeptByOK
<1>5. ASSUME NEW k \in DOMAIN kept PROVE kept[k].id # i
  <2>1. k \in 1 .. Len(x.body) /\ n \in 1 .. Len(x.body) /\ Reads(d.body, x.body, n).id = i
    BY <1>4 DEF Finds
  <2>2. /\ Reads(d.body, x.body, k).id = First(d.body, x.body, k).id
        /\ Reads(d.body, x.body, n).id = First(d.body, x.body, n).id
    BY <1>1, <2>1, ExactEntry DEF Reads
  <2>3. k # n
    BY <1>4
  <2>4. First(d.body, x.body, k).id # First(d.body, x.body, n).id
    BY <1>1, <2>1, <2>3, ExactOK
  <2> QED
    BY <1>4, <2>1, <2>2, <2>4
<1>6. \A e \in 1 .. Len(f.list) : First(f.body, f.list, e).id # i
  BY <1>3, <1>5 DEF Same
<1> QED
  BY <1>3, <1>6, RecordedExact

\* No process finds the record of a file that it has removed with success from
\* files that were consistent, unless the record had lost its index.
THEOREM NoneAfterRemoval == Spec => FinishedIsForgotten
<1> DEFINE Removed(p, i) ==
      /\ Consistent
      /\ res'[p] = "ok" /\ cur[p].id = i /\ cur[p].bytes = Size
      /\ again[p] => cur[p].done
      /\ cur[p].index # 0 /\ WriteRecord(p)
<1>1. ASSUME Inv, NEW p \in Procs, NEW i \in IDs, Removed(p, i) PROVE Recorded'[i] = NoFile
  <2>1. PICK r \in NextWrites(p) : \E w \in Outcomes(p, r) :
           /\ Writes(p, r, w) /\ r \in Rec /\ w.result # "died" /\ res'[p] = w.result
           /\ dat' = w.dat /\ idx' = w.idx
           /\ \/ StaysEmpty(w, dat, idx, list[p], r) \/ IsTooOld(w, dat, idx, list[p], r)
              \/ StaysAsRead(w, dat, idx, r)
              \/ \E s \in Seq(Cells), m \in Seq(Entries), y \in IdxFiles :
                   IsAdded(w, dat, idx, list[p], r, s, m, y)
              \/ \E s \in Seq(Cells), m \in Seq(Entries), n \in Nat :
                   IsLaid(w, dat, idx, list[p], r, s, m, n)
              \/ \E n \in Nat : IsCleared(w, dat, idx, r, n)
    BY <1>1, Wrote
  <2>2. r.id = i /\ r.index # 0 /\ r.done
    <3>1. cur[p] # None
      BY <1>1, NoneOK, LengthOK
    <3>2. CASE again[p]
      BY <1>1, <3>2, NextRec
    <3>3. CASE ~again[p]
      <4>1. r = [cur[p] EXCEPT !.done = TRUE]
        BY <1>1, <3>1, <3>3, StoreAssumption DEF NextWrites
      <4>2. r.done
        BY <3>1, <4>1, <1>1, Types, RecOK DEF Inv, Rec
      <4> QED
        BY <1>1, <3>1, <4>2, NextRec
    <3> QED
      BY <3>2, <3>3
  <2>3. PICK w \in Outcomes(p, r), n \in Nat :
          dat' = w.dat /\ idx' = w.idx /\ IsCleared(w, dat, idx, r, n) /\ w.result = "ok"
    BY <1>1, <2>1, <2>2 DEF StaysEmpty, IsTooOld, StaysAsRead, IsAdded, IsLaid
  <2>4. PICK f : f = Rewritten(KeptBy(dat, idx, n), Len(idx.body))[Len(idx.body)]
    OBVIOUS
  <2>5. w.dat = Written(f.body) /\ w.idx = Written(f.list)
    BY <2>3, <2>4, SavedAs DEF IsCleared
  <2>6. RecordedIn(f.body, f.list)[i] = NoFile
    <3>1. dat \in DatFiles /\ idx \in IdxFiles /\ Len(idx.body) <= MaxEntries
      BY <1>1, Types DEF Inv
    <3>2. Exact(dat.body, idx.body) /\ Finds(dat.body, idx.body, i, n)
      BY <1>1, <2>2, <2>3 DEF IsCleared, Consistent, IndexExact
    <3> QED
      BY <3>1, <3>2, <2>4, ClearedNone
  <2>7. dat'.body = f.body /\ idx'.body = f.list
    BY <2>3, <2>5, FilesOK
  <2>8. Recorded' = RecordedIn(dat'.body, idx'.body)
    BY DEF Recorded
  <2> QED
    BY <2>6, <2>7, <2>8
<1>2. Inv /\ [Next]_vars =>
        [\A p \in Procs, i \in IDs : Removed(p, i) => Recorded'[i] = NoFile]_vars
  <2> HIDE DEF Removed
  <2> QED
    BY <1>1
<1> QED
  BY <1>2, InvAlways, PTL DEF Spec, FinishedIsForgotten

-----------------------------------------------------------------------------
(* A record that was written is read back.                                 *)

\* Text that is written after the first e cells, where a line begins, hides no
\* line before it: what is then read from an earlier position is that line, or
\* was read before.
Covers(t, e, s, pos) ==
  /\ pos <= e /\ e <= Len(s) /\ e + 1 <= Len(t)
  /\ t[e + 1].kind = "text" /\ t[e + 1].at = 1
  /\ \A j \in pos + 1 .. e : t[j] = s[j]

LEMMA ReadOver ==
  ASSUME NEW s \in Seq(Cells), NEW t \in Seq(Cells), NEW pos \in Nat, NEW e \in Nat,
         Covers(t, e, s, pos), NEW k \in Starts(t, pos)
  PROVE  \/ ReadAt(t, pos).bytes = t[e + 1].bytes
         \/ ReadAt(t, pos).id = ReadAt(s, pos).id
<1>0. PICK L : L = Length[t[k].id]
  OBVIOUS
<1>7. /\ pos <= e /\ e <= Len(s) /\ e + 1 <= Len(t)
      /\ t[e + 1].kind = "text" /\ t[e + 1].at = 1
      /\ \A j \in pos + 1 .. e : t[j] = s[j]
  BY DEF Covers
<1>1. /\ k \in pos + 1 .. Len(t) /\ LineAt(t, k) /\ \A j \in pos + 1 .. k - 1 : t[j] = Pad
  BY DEF Starts
<1>2. /\ t[k].id \in IDs /\ L \in Nat /\ L > 0 /\ k \in Nat
      /\ \A j \in k .. k + L - 1 : t[j] = TextCell(t[k], j - k + 1)
  <2>1. t[k].id \in IDs /\ \A j \in k .. k + L - 1 : t[j] = TextCell(t[k], j - k + 1)
    BY <1>0, <1>1, LineOK
  <2> QED
    BY <1>0, <1>1, <2>1, LengthOK
<1>3. /\ ReadAt(t, pos).bytes = t[k].bytes /\ ReadAt(t, pos).id = t[k].id
  BY ReadLine
<1>4. CASE k = e + 1
  BY <1>3, <1>4
<1>5. CASE k > e + 1
  <2>1. e + 1 \in pos + 1 .. k - 1
    BY <1>2, <1>5, <1>7
  <2>2. t[e + 1] = Pad
    BY <1>1, <2>1
  <2> QED
    BY <1>7, <2>2, CellsOK
<1>6. CASE k <= e
  <2>1. k + L - 1 <= e
    <3> SUFFICES ASSUME k + L - 1 >= e + 1 PROVE FALSE
      BY <1>2
    <3>1. e + 1 \in k .. k + L - 1
      BY <1>2, <1>6
    <3>2. t[e + 1] = TextCell(t[k], e + 1 - k + 1)
      BY <1>2, <3>1
    <3>3. t[e + 1].at = e + 1 - k + 1
      BY <3>2 DEF TextCell
    <3> QED
      BY <1>2, <1>6, <1>7, <3>3
  <2>2. /\ \A j \in k .. k + L - 1 : s[j] = t[j]
        /\ k + L <= Len(s) + 1
    <3>1. \A j \in k .. k + L - 1 : j \in pos + 1 .. e
      BY <1>1, <1>2, <2>1
    <3>2. \A j \in k .. k + L - 1 : s[j] = t[j]
      BY <1>7, <3>1
    <3>3. Len(s) \in Nat
      OBVIOUS
    <3> QED
      BY <1>2, <1>7, <2>1, <3>2, <3>3
  <2>3. LineAt(s, k) /\ s[k] = t[k]
    BY <1>0, <1>1, <2>2, LineKept
  <2>4. \A j \in pos + 1 .. k - 1 : s[j] = Pad
    <3>1. \A j \in pos + 1 .. k - 1 : j \in pos + 1 .. e
      BY <1>2, <1>6
    <3> QED
      BY <1>1, <1>7, <3>1
  <2>5. k \in pos + 1 .. Len(s)
    BY <1>1, <1>2, <1>6, <1>7
  <2>6. k \in Starts(s, pos)
    BY <2>3, <2>4, <2>5 DEF Starts
  <2>7. ReadAt(s, pos).id = s[k].id
    BY <2>6, ReadLine
  <2> QED
    BY <1>3, <2>3, <2>7
<1> QED
  BY <1>2, <1>4, <1>5, <1>6

\* The line that begins after the first e cells is what is read there.
LEMMA ReadHere ==
  ASSUME NEW t \in Seq(Cells), NEW e \in Nat, LineAt(t, e + 1)
  PROVE  ReadAt(t, e).id = t[e + 1].id /\ ReadAt(t, e).bytes = t[e + 1].bytes
<1>1. e + 1 \in 1 .. Len(t)
  BY LineOK
<1>2. e + 1 \in Starts(t, e)
  <2>1. e + 1 \in e + 1 .. Len(t)
    BY <1>1
  <2>2. \A j \in e + 1 .. e + 1 - 1 : t[j] = Pad
    OBVIOUS
  <2> QED
    BY <2>1, <2>2 DEF Starts
<1> QED
  BY <1>2, ReadLine

\* A record that is added is found, if there was none of its file.
LEMMA AddedBack ==
  ASSUME NEW s \in Seq(Cells), NEW m \in Seq(Entries), NEW r \in Rec, FindsNone(s, m, r.id),
         NEW f, f = WithRecord([body |-> s, list |-> m], r)
  PROVE  RecordedIn(f.body, f.list)[r.id] = r.bytes
<1>1. PICK g : g = [body |-> s, list |-> m]
  OBVIOUS
<1>2. g \in Rewrites /\ g.body = s /\ g.list = m
  BY <1>1 DEF Rewrites
<1>3. PICK t : t = f.body
  OBVIOUS
<1>4. PICK l : l = f.list
  OBVIOUS
<1>5. PICK e : e = Len(s)
  OBVIOUS
<1>6. /\ t \in Seq(Cells) /\ l \in Seq(Entries) /\ e \in Nat /\ Len(m) \in Nat
      /\ Len(t) = e + Length[r.id] /\ Len(l) = Len(m) + 1
      /\ \A k \in 1 .. e : t[k] = s[k]
      /\ \A k \in 1 .. Length[r.id] : t[e + k] = TextCell(r, k)
      /\ \A k \in 1 .. Len(m) : l[k] = m[k]
      /\ l[Len(m) + 1].pos = e
  <2>1. f = WithRecord(g, r)
    BY <1>1
  <2>2. /\ f \in Rewrites /\ Len(t) = e + Length[r.id] /\ Len(l) = Len(m) + 1
        /\ \A k \in 1 .. e : t[k] = s[k]
        /\ \A k \in 1 .. Length[r.id] : t[e + k] = TextCell(r, k)
        /\ \A k \in 1 .. Len(m) : l[k] = m[k]
        /\ l[Len(m) + 1] = [pos |-> e, len |-> Length[r.id]]
    <3>1. LET w == WithRecord(g, r)
          IN  /\ w \in Rewrites
              /\ Len(w.body) = Len(g.body) + Length[r.id] /\ Len(w.list) = Len(g.list) + 1
              /\ \A k \in 1 .. Len(g.body) : w.body[k] = g.body[k]
              /\ \A k \in 1 .. Length[r.id] : w.body[Len(g.body) + k] = TextCell(r, k)
              /\ \A k \in 1 .. Len(g.list) : w.list[k] = g.list[k]
              /\ w.list[Len(g.list) + 1] = [pos |-> Len(g.body), len |-> Length[r.id]]
      BY <1>2, WithRecordOK
    <3>2. /\ f \in Rewrites
          /\ Len(t) = Len(s) + Length[r.id] /\ Len(l) = Len(m) + 1
          /\ \A k \in 1 .. Len(s) : t[k] = s[k]
          /\ \A k \in 1 .. Length[r.id] : t[Len(s) + k] = TextCell(r, k)
          /\ \A k \in 1 .. Len(m) : l[k] = m[k]
          /\ l[Len(m) + 1] = [pos |-> Len(s), len |-> Length[r.id]]
      BY <1>2, <1>3, <1>4, <2>1, <3>1
    <3> QED
      BY <1>5, <3>2
  <2>3. t \in Seq(Cells) /\ l \in Seq(Entries)
    BY <2>2, <1>3, <1>4 DEF Rewrites
  <2> QED
    BY <1>5, <2>2, <2>3
<1>7. /\ r.id \in IDs /\ Length[r.id] \in Nat /\ Length[r.id] > 0
  BY RecOK, LengthOK
<1>8. LineAt(t, e + 1) /\ t[e + 1].id = r.id /\ t[e + 1].bytes = r.bytes
  <2>1. e + Length[r.id] <= Len(t)
    BY <1>6, <1>7
  <2> QED
    BY <1>6, <2>1, LineOfText
<1>9. e + 1 \in 1 .. Len(t) /\ t[e + 1].kind = "text" /\ t[e + 1].at = 1
  BY <1>6, <1>8, LineOK
<1>10. PICK n : n = Len(m) + 1
  OBVIOUS
<1>11. n \in 1 .. Len(l) /\ Reads(t, l, n).id = r.id /\ Reads(t, l, n).bytes = r.bytes
  <2>1. ReadAt(t, e).id = r.id /\ ReadAt(t, e).bytes = r.bytes
    BY <1>6, <1>8, ReadHere
  <2> QED
    BY <1>6, <1>10, <2>1 DEF Reads
<1>12. ASSUME NEW j \in 1 .. n, Reads(t, l, j).id = r.id PROVE Reads(t, l, j).bytes = r.bytes
  <2>1. CASE j = n
    BY <1>11, <2>1
  <2>2. CASE j # n
    <3>1. j \in 1 .. Len(m)
      BY <1>6, <1>10, <2>2
    <3>2. PICK pos : pos = m[j].pos
      OBVIOUS
    <3>3. pos \in Nat /\ l[j].pos = pos
      BY <1>6, <3>1, <3>2, EntryOK
    <3>4. ReadAt(t, pos).id = r.id /\ ReadAt(s, pos).id # r.id
      BY <1>12, <3>1, <3>2, <3>3 DEF FindsNone, Reads
    <3>5. PICK k : k \in Starts(t, pos)
      <4>1. ReadAt(t, pos) # None
        BY <1>7, <3>4, NoneOK, LengthOK
      <4> QED
        BY <1>6, <3>3, <4>1, ReadOK
    <3>6. CASE pos <= e
      <4>1. \A c \in pos + 1 .. e : t[c] = s[c]
        <5>1. \A c \in pos + 1 .. e : c \in 1 .. e
          BY <1>6, <3>3
        <5> QED
          BY <1>6, <5>1
      <4>2. ReadAt(t, pos).bytes = t[e + 1].bytes \/ ReadAt(t, pos).id = ReadAt(s, pos).id
        <5>1. e <= Len(s) /\ e + 1 <= Len(t)
          BY <1>5, <1>6, <1>9
        <5>2. Covers(t, e, s, pos)
          BY <1>9, <3>6, <4>1, <5>1 DEF Covers
        <5> QED
          BY <1>6, <3>3, <3>5, <5>2, ReadOver
      <4>3. ReadAt(t, pos).bytes = r.bytes
        BY <1>8, <3>4, <4>2
      <4> QED
        BY <3>3, <4>3 DEF Reads
    <3>7. CASE pos > e
      <4>1. k \in pos + 1 .. Len(t) /\ LineAt(t, k)
        BY <3>5 DEF Starts
      <4>2. t[k].at = 1
        BY <1>6, <4>1, LineOK
      <4>3. k - e \in 1 .. Length[r.id] /\ e + (k - e) = k /\ k - e # 1
        <5>1. PICK c : c = Length[r.id]
          OBVIOUS
        <5>2. c \in Nat /\ e \in Nat /\ pos \in Nat /\ pos > e /\ k \in pos + 1 .. e + c
          BY <1>6, <1>7, <3>3, <3>7, <4>1, <5>1
        <5>3. k - e \in 1 .. c /\ e + (k - e) = k /\ k - e # 1
          BY ONLY <5>2
        <5> QED
          BY <5>1, <5>3
      <4>4. t[k] = TextCell(r, k - e)
        BY <1>6, <4>3
      <4> QED
        BY <4>2, <4>3, <4>4 DEF TextCell
    <3> QED
      BY <1>6, <3>3, <3>6, <3>7
  <2> QED
    BY <2>1, <2>2
<1> QED
  <2>1. PICK i \in IDs : i = r.id
    BY <1>7
  <2>2. PICK b : b = r.bytes
    OBVIOUS
  <2>3. FoundAs(t, l, i, b, n)
    BY <1>11, <1>12, <2>1, <2>2 DEF FoundAs
  <2>4. RecordedIn(t, l)[i] = b
    BY <1>6, <2>3, RecordedIs
  <2> QED
    BY <1>3, <1>4, <2>1, <2>2, <2>4

\* A record that is laid over the one that was found first is found, if the
\* entries are in order.
LEMMA LaidBack ==
  ASSUME NEW s \in Seq(Cells), NEW m \in Seq(Entries), NEW r \in Rec,
         NEW n, Finds(s, m, r.id, n), m[n].len >= Length[r.id],
         \A j, k \in 1 .. Len(m) : j < k => m[j].pos <= m[k].pos,
         NEW v, v = Overlay(s, m[n].pos, Text(r, m[n].len))
  PROVE  RecordedIn(v, m)[r.id] = r.bytes
<1>0. PICK e : e = m[n].pos
  OBVIOUS
<1>1. PICK t : t = Text(r, m[n].len)
  OBVIOUS
<1>2. /\ n \in 1 .. Len(m) /\ ReadAt(s, e).id = r.id
      /\ \A j \in 1 .. Len(m) : j < n => ReadAt(s, m[j].pos).id # r.id
  BY <1>0 DEF Finds, Reads
<1>3. /\ e \in Nat /\ m[n].len \in Nat /\ Len(m) \in Nat /\ n \in Nat
      /\ r.id \in IDs /\ Length[r.id] \in Nat /\ Length[r.id] > 0
  BY <1>0, <1>2, EntryOK, RecOK, LengthOK
<1>4. /\ t \in Seq(Cells) /\ Len(t) = m[n].len
      /\ \A k \in 1 .. Len(t) : t[k] = IF k <= Length[r.id] THEN TextCell(r, k) ELSE Pad
  <2>1. /\ t \in Seq(Cells)
        /\ Len(t) = (IF Length[r.id] >= m[n].len THEN Length[r.id] ELSE m[n].len)
        /\ \A k \in 1 .. Len(t) : t[k] = IF k <= Length[r.id] THEN TextCell(r, k) ELSE Pad
    BY <1>1, <1>3, TextOK
  <2>2. Len(t) = m[n].len
    BY <1>3, <2>1
  <2> QED
    BY <2>1, <2>2
<1>5. /\ v \in Seq(Cells)
      /\ Len(v) = IF Len(s) >= e + Len(t) THEN Len(s) ELSE e + Len(t)
      /\ \A k \in 1 .. Len(v) : v[k] = IF k \in e + 1 .. e + Len(t) THEN t[k - e]
                                       ELSE IF k <= Len(s) THEN s[k] ELSE Hole
  <2>1. v = Overlay(s, e, t)
    BY <1>0, <1>1
  <2>2. /\ Overlay(s, e, t) \in Seq(Cells)
        /\ Len(Overlay(s, e, t)) = IF Len(s) >= e + Len(t) THEN Len(s) ELSE e + Len(t)
        /\ \A k \in 1 .. Len(Overlay(s, e, t)) :
             Overlay(s, e, t)[k] = IF k \in e + 1 .. e + Len(t) THEN t[k - e]
                                   ELSE IF k <= Len(s) THEN s[k] ELSE Hole
    BY <1>3, <1>4, OverlayOK
  <2> QED
    BY <2>1, <2>2
<1>6. e < Len(s) /\ Len(s) \in Nat
  <2>1. ReadAt(s, e) # None
    BY <1>2, <1>3, NoneOK, LengthOK
  <2>2. PICK k : k \in Starts(s, e)
    BY <1>3, <2>1, ReadOK
  <2>3. k \in e + 1 .. Len(s)
    BY <2>2 DEF Starts
  <2> QED
    BY <1>3, <2>3
<1>7. e + Length[r.id] <= Len(v) /\ e <= Len(v) /\ Len(v) \in Nat
  <2>1. PICK c, a, b : c = Length[r.id] /\ a = Len(t) /\ b = Len(v)
    OBVIOUS
  <2>2. /\ c \in Nat /\ a \in Nat /\ c <= a /\ b = (IF Len(s) >= e + a THEN Len(s) ELSE e + a)
        /\ e \in Nat /\ Len(s) \in Nat
    BY <1>3, <1>4, <1>5, <1>6, <2>1
  <2>3. e + c <= b /\ e <= b /\ b \in Nat
    BY ONLY <2>2
  <2> QED
    BY <2>1, <2>3
<1>8. \A j \in 1 .. Length[r.id] : v[e + j] = TextCell(r, j)
  <2> SUFFICES ASSUME NEW j \in 1 .. Length[r.id] PROVE v[e + j] = TextCell(r, j)
    OBVIOUS
  <2>1. /\ e + j \in 1 .. Len(v) /\ e + j \in e + 1 .. e + Len(t) /\ (e + j) - e = j
        /\ j \in 1 .. Len(t) /\ j <= Length[r.id]
    <3>1. PICK c, a, b : c = Length[r.id] /\ a = Len(t) /\ b = Len(v)
      OBVIOUS
    <3>2. c \in Nat /\ a \in Nat /\ b \in Nat /\ c <= a /\ e + c <= b
      BY <1>3, <1>4, <1>7, <3>1
    <3>3. j \in 1 .. c /\ e \in Nat
      BY <1>3, <3>1
    <3>4. e + j \in 1 .. b /\ e + j \in e + 1 .. e + a /\ (e + j) - e = j /\ j \in 1 .. a
      BY ONLY <3>2, <3>3
    <3> QED
      BY <3>1, <3>3, <3>4
  <2>2. v[e + j] = t[(e + j) - e]
    BY <1>5, <2>1
  <2> QED
    BY <1>4, <2>1, <2>2
<1>9. \A k \in 1 .. e : v[k] = s[k]
  <2> SUFFICES ASSUME NEW k \in 1 .. e PROVE v[k] = s[k]
    OBVIOUS
  <2>1. k \in 1 .. Len(v) /\ k \notin e + 1 .. e + Len(t) /\ k <= Len(s)
    BY <1>3, <1>4, <1>6, <1>7
  <2> QED
    BY <1>5, <2>1
<1>10. LineAt(v, e + 1) /\ v[e + 1].id = r.id /\ v[e + 1].bytes = r.bytes
  BY <1>3, <1>5, <1>7, <1>8, LineOfText
<1>11. e + 1 \in 1 .. Len(v) /\ v[e + 1].kind = "text" /\ v[e + 1].at = 1
  BY <1>5, <1>10, LineOK
<1>12. Reads(v, m, n).id = r.id /\ Reads(v, m, n).bytes = r.bytes
  BY <1>0, <1>3, <1>5, <1>10, ReadHere DEF Reads
<1>13. ASSUME NEW j \in 1 .. n, Reads(v, m, j).id = r.id PROVE Reads(v, m, j).bytes = r.bytes
  <2>1. CASE j = n
    BY <1>12, <2>1
  <2>2. CASE j # n
    <3>1. j \in 1 .. Len(m) /\ j < n
      BY <1>2, <1>3, <2>2
    <3>2. PICK pos : pos = m[j].pos
      OBVIOUS
    <3>3. pos \in Nat /\ pos <= e
      BY <1>0, <1>2, <3>1, <3>2, EntryOK
    <3>4. ReadAt(v, pos).id = r.id /\ ReadAt(s, pos).id # r.id
      BY <1>2, <1>13, <3>1, <3>2 DEF Reads
    <3>5. PICK k : k \in Starts(v, pos)
      <4>1. ReadAt(v, pos) # None
        BY <1>3, <3>4, NoneOK, LengthOK
      <4> QED
        BY <1>5, <3>3, <4>1, ReadOK
    <3>6. \A c \in pos + 1 .. e : v[c] = s[c]
      <4>1. \A c \in pos + 1 .. e : c \in 1 .. e
        BY <1>3, <3>3
      <4> QED
        BY <1>9, <4>1
    <3>7. ReadAt(v, pos).bytes = v[e + 1].bytes \/ ReadAt(v, pos).id = ReadAt(s, pos).id
      <4>1. e <= Len(s) /\ e + 1 <= Len(v)
        BY <1>3, <1>6, <1>7, <1>11
      <4>2. Covers(v, e, s, pos)
        BY <1>11, <3>3, <3>6, <4>1 DEF Covers
      <4> QED
        BY <1>3, <1>5, <3>3, <3>5, <4>2, ReadOver
    <3>8. ReadAt(v, pos).bytes = r.bytes
      BY <1>10, <3>4, <3>7
    <3> QED
      BY <3>2, <3>8 DEF Reads
  <2> QED
    BY <2>1, <2>2
<1> QED
  <2>1. PICK i \in IDs : i = r.id
    BY <1>3
  <2>2. PICK b : b = r.bytes
    OBVIOUS
  <2>3. FoundAs(v, m, i, b, n)
    BY <1>2, <1>12, <1>13, <2>1, <2>2 DEF FoundAs
  <2>4. RecordedIn(v, m)[i] = b
    BY <1>5, <2>3, RecordedIs
  <2> QED
    BY <2>1, <2>2, <2>4

\* What a process has written with success it reads back, damaged files or not.
THEOREM WritesAreReadBack == Spec => WriteReadsBack
<1> DEFINE Put(p, i) ==
      /\ res'[p] = "ok" /\ cur'[p].id = i /\ WriteRecord(p)
      /\ IF dat.state = "written" THEN InOrder ELSE list[p] = <<>>
<1>1. ASSUME Inv, NEW p \in Procs, NEW i \in IDs, Put(p, i) PROVE Recorded'[i] = cur'[p].bytes
  <2>1. PICK r \in NextWrites(p) : \E w \in Outcomes(p, r) :
           /\ Writes(p, r, w) /\ r \in Rec /\ w.result # "died" /\ res'[p] = w.result
           /\ dat' = w.dat /\ idx' = w.idx
           /\ \/ StaysEmpty(w, dat, idx, list[p], r) \/ IsTooOld(w, dat, idx, list[p], r)
              \/ StaysAsRead(w, dat, idx, r)
              \/ \E s \in Seq(Cells), m \in Seq(Entries), y \in IdxFiles :
                   IsAdded(w, dat, idx, list[p], r, s, m, y)
              \/ \E s \in Seq(Cells), m \in Seq(Entries), n \in Nat :
                   IsLaid(w, dat, idx, list[p], r, s, m, n)
              \/ \E n \in Nat : IsCleared(w, dat, idx, r, n)
    BY <1>1, Wrote
  <2>2. PICK w \in Outcomes(p, r) :
           /\ Writes(p, r, w) /\ r \in Rec /\ w.result = "ok"
           /\ dat' = w.dat /\ idx' = w.idx
           /\ \/ StaysEmpty(w, dat, idx, list[p], r) \/ IsTooOld(w, dat, idx, list[p], r)
              \/ StaysAsRead(w, dat, idx, r)
              \/ \E s \in Seq(Cells), m \in Seq(Entries), y \in IdxFiles :
                   IsAdded(w, dat, idx, list[p], r, s, m, y)
              \/ \E s \in Seq(Cells), m \in Seq(Entries), n \in Nat :
                   IsLaid(w, dat, idx, list[p], r, s, m, n)
              \/ \E n \in Nat : IsCleared(w, dat, idx, r, n)
    BY <1>1, <2>1
  <2>3. /\ dat \in DatFiles /\ idx \in IdxFiles /\ dat.body \in Seq(Cells) /\ idx.body \in Seq(Entries)
        /\ list[p] \in Seq(Entries)
    BY <1>1, Types DEF Inv
  <2>4. cur'[p] = IF r.done THEN None ELSE [r EXCEPT !.index = w.index]
    <3>1. cur' = [cur EXCEPT ![p] = IF r.done /\ ~(~again[p] /\ w.result \in {"locked", "no match"})
                                    THEN None ELSE [r EXCEPT !.index = w.index]]
      BY <2>2 DEF Writes
    <3>2. p \in DOMAIN cur
      BY <1>1 DEF Inv, TypeOK
    <3> QED
      BY <2>2, <3>1, <3>2
  <2>5. ~r.done /\ r.id = i /\ cur'[p].bytes = r.bytes
    <3>1. ~r.done
      BY <1>1, <2>4, NoneOK, LengthOK
    <3>2. cur'[p] = [r EXCEPT !.index = w.index]
      BY <2>4, <3>1
    <3>3. w.index \in 0 .. MaxEntries
      BY <1>1, <2>2, OutcomeShape DEF WriteShape, WriteSays
    <3>4. cur'[p].id = r.id /\ cur'[p].bytes = r.bytes
      BY <2>2, <3>2, <3>3, IndexedOK
    <3> QED
      BY <1>1, <3>1, <3>4
  <2>6. Recorded' = RecordedIn(dat'.body, idx'.body)
    BY DEF Recorded
  <2>7. ASSUME NEW s \in Seq(Cells), NEW m \in Seq(Entries), NEW y \in IdxFiles,
               IsAdded(w, dat, idx, list[p], r, s, m, y)
        PROVE  Recorded'[i] = r.bytes
    <3>1. PICK f : f = WithRecord([body |-> s, list |-> m], r)
      OBVIOUS
    <3>2. w.dat = Written(f.body) /\ w.idx = Written(f.list)
      BY <2>2, <2>7, <3>1, AppendedAs DEF IsAdded
    <3>3. FindsNone(s, m, r.id)
      <4>1. CASE dat.state # "written"
        <5>1. m = <<>>
          BY <1>1, <2>7, <4>1 DEF IsAdded
        <5> QED
          BY <5>1 DEF FindsNone
      <4>2. CASE dat.state = "written"
        <5>1. s = dat.body /\ m = idx.body /\ (r.index = 0 \/ FindsNone(s, m, r.id))
          BY <2>7, <4>2 DEF IsAdded
        <5>2. CASE r.index = 0
          <6>1. ~TextIn(s, r.id)
            BY <1>1, <2>5, <5>1, <5>2, NewUnheld
          <6>2. r.id \in IDs
            BY <2>5
          <6> QED
            BY <6>1, <6>2, ReadsText DEF FindsNone
        <5> QED
          BY <5>1, <5>2
      <4> QED
        BY <4>1, <4>2
    <3>4. RecordedIn(f.body, f.list)[r.id] = r.bytes
      BY <2>2, <3>1, <3>3, AddedBack
    <3>5. dat'.body = f.body /\ idx'.body = f.list
      BY <2>2, <3>2, FilesOK
    <3> QED
      BY <2>5, <2>6, <3>4, <3>5
  <2>8. ASSUME NEW s \in Seq(Cells), NEW m \in Seq(Entries), NEW n \in Nat,
               IsLaid(w, dat, idx, list[p], r, s, m, n)
        PROVE  Recorded'[i] = r.bytes
    <3>1. PICK v : v = Overlay(s, m[n].pos, Text(r, m[n].len))
      OBVIOUS
    <3>2. n \in 1 .. Len(m) /\ m[n].len >= Length[r.id] /\ w = Outcome(Written(v), idx, m, n, "ok")
      BY <2>8, <3>1 DEF IsLaid
    <3>3. w.dat = Written(v) /\ w.idx = idx
      BY <3>2 DEF Outcome
    <3>4. dat.state = "written"
      <4>1. dat.state # "written" => m = <<>>
        BY <1>1, <2>8 DEF IsLaid
      <4> QED
        BY <3>2, <4>1
    <3>5. s = dat.body /\ m = idx.body /\ Finds(s, m, r.id, n)
      BY <2>8, <3>4 DEF IsLaid
    <3>6. \A j, k \in 1 .. Len(m) : j < k => m[j].pos <= m[k].pos
      <4>1. InOrder /\ DOMAIN m = 1 .. Len(m)
        BY <1>1, <3>4, EntryOK
      <4> QED
        BY <3>5, <4>1 DEF InOrder
    <3>7. RecordedIn(v, m)[r.id] = r.bytes
      <4>1. r \in Rec
        BY <2>2
      <4>2. m[n].len >= Length[r.id] /\ Finds(s, m, r.id, n)
        BY <3>2, <3>5
      <4> QED
        BY <3>1, <3>6, <4>1, <4>2, LaidBack, SMTT(30)
    <3>8. dat'.body = v /\ idx'.body = m
      BY <2>2, <3>3, <3>5, FilesOK
    <3> QED
      BY <2>5, <2>6, <3>7, <3>8
  <2>9. \/ \E s \in Seq(Cells), m \in Seq(Entries), y \in IdxFiles :
             IsAdded(w, dat, idx, list[p], r, s, m, y)
        \/ \E s \in Seq(Cells), m \in Seq(Entries), n \in Nat :
             IsLaid(w, dat, idx, list[p], r, s, m, n)
    BY <2>2, <2>5 DEF StaysEmpty, IsTooOld, StaysAsRead, IsCleared
  <2> QED
    BY <2>5, <2>7, <2>8, <2>9
<1>2. Inv /\ [Next]_vars =>
        [\A p \in Procs, i \in IDs : Put(p, i) => Recorded'[i] = cur'[p].bytes]_vars
  <2> HIDE DEF Put
  <2> QED
    BY <1>1
<1> QED
  BY <1>2, InvAlways, PTL DEF Spec, WriteReadsBack

-----------------------------------------------------------------------------
(* The records, changed one at a time.                                     *)

\* A step from files that are consistent loses records, or changes one.
Loses(old, new) == \A i \in IDs : new[i] = old[i] \/ new[i] = NoFile
Puts(i, old, new) == new[i] # NoFile /\ \A j \in IDs : j # i => new[j] = old[j]
Removes(i, old, new) ==
  Loses(old, new) /\ \A j \in IDs : j # i /\ new[j] # old[j] => old[j] = Size

\* A text without records has none.
LEMMA RecordedNone ==
  ASSUME NEW s \in Seq(Cells), NEW l \in Seq(Entries), \A i : ~TextIn(s, i)
  PROVE  \A i \in IDs : RecordedIn(s, l)[i] = NoFile
<1> SUFFICES ASSUME NEW i \in IDs, RecordedIn(s, l)[i] # NoFile PROVE FALSE
  OBVIOUS
<1>1. PICK c \in 1 .. Len(s) : s[c].kind = "text" /\ s[c].id = i
  BY RecordedCell
<1> QED
  BY <1>1 DEF TextIn

LEMMA NoText == (\A i : ~TextIn(<<>>, i)) /\ (\A i : ~TextIn(Header, i))
BY CellsOK DEF TextIn

\* A record that is added changes no other.
LEMMA AddedPuts ==
  ASSUME NEW s \in Seq(Cells), NEW m \in Seq(Entries), Exact(s, m), NEW r \in Rec,
         \A k \in 1 .. Len(m) : First(s, m, k).id # r.id,
         NEW f, f = WithRecord([body |-> s, list |-> m], r)
  PROVE  Puts(r.id, RecordedIn(s, m), RecordedIn(f.body, f.list))
<1>0. PICK g : g = [body |-> s, list |-> m]
  OBVIOUS
<1>1. g \in Rewrites /\ g.body = s /\ g.list = m
  BY <1>0 DEF Rewrites
<1>2. PICK t : t = f.body
  OBVIOUS
<1>3. PICK l : l = f.list
  OBVIOUS
<1>4. /\ f \in Rewrites /\ Len(l) = Len(m) + 1
      /\ Exact(t, l) /\ \A k \in 1 .. Len(m) : First(t, l, k) = First(s, m, k)
      /\ First(t, l, Len(l)).id = r.id /\ First(t, l, Len(l)).bytes = r.bytes
  <2>1. LET w == WithRecord(g, r)
        IN  /\ w \in Rewrites /\ Len(w.list) = Len(g.list) + 1
    BY <1>1, WithRecordOK
  <2>2. LET w == WithRecord(g, r)
        IN  /\ Exact(w.body, w.list)
            /\ \A k \in 1 .. Len(g.list) : First(w.body, w.list, k) = First(g.body, g.list, k)
            /\ First(w.body, w.list, Len(w.list)).id = r.id
            /\ First(w.body, w.list, Len(w.list)).bytes = r.bytes
    <3>1. Exact(g.body, g.list) /\ \A k \in 1 .. Len(g.list) : First(g.body, g.list, k).id # r.id
      BY <1>1
    <3> QED
      BY <1>1, <3>1, ExactAppend
  <2>3. f = WithRecord(g, r)
    BY <1>0
  <2> QED
    BY <1>1, <1>2, <1>3, <2>1, <2>2, <2>3
<1>5. t \in Seq(Cells) /\ l \in Seq(Entries) /\ Len(m) \in Nat /\ r.id \in IDs
  BY <1>2, <1>3, <1>4, RecOK DEF Rewrites
<1>6. RecordedIn(t, l)[r.id] # NoFile
  <2>1. Len(l) \in 1 .. Len(l)
    BY <1>4, <1>5
  <2>2. RecordedIn(t, l)[r.id] = First(t, l, Len(l)).bytes
    BY <1>4, <1>5, <2>1, RecordedExact
  <2>3. First(t, l, Len(l)).bytes # NoFile
    BY <1>4, RecOK, StoreAssumption
  <2> QED
    BY <2>2, <2>3
<1>7. ASSUME NEW j \in IDs, j # r.id PROVE RecordedIn(t, l)[j] = RecordedIn(s, m)[j]
  <2>1. CASE \E k \in 1 .. Len(m) : First(s, m, k).id = j
    <3>1. PICK k \in 1 .. Len(m) : First(s, m, k).id = j
      BY <2>1
    <3>2. k \in 1 .. Len(l) /\ First(t, l, k) = First(s, m, k)
      BY <1>4, <1>5
    <3>3. RecordedIn(s, m)[j] = First(s, m, k).bytes
      BY <3>1, RecordedExact
    <3>4. RecordedIn(t, l)[j] = First(t, l, k).bytes
      BY <1>4, <1>5, <3>1, <3>2, RecordedExact
    <3> QED
      BY <3>2, <3>3, <3>4
  <2>2. CASE \A k \in 1 .. Len(m) : First(s, m, k).id # j
    <3>1. \A k \in 1 .. Len(l) : k \in 1 .. Len(m) \/ k = Len(l)
      BY <1>4, <1>5
    <3>2. \A k \in 1 .. Len(l) : First(t, l, k).id # j
      BY <1>4, <1>7, <2>2, <3>1
    <3>3. RecordedIn(s, m)[j] = NoFile
      BY <2>2, RecordedExact
    <3>4. RecordedIn(t, l)[j] = NoFile
      BY <1>4, <1>5, <3>2, RecordedExact
    <3> QED
      BY <3>3, <3>4
  <2> QED
    BY <2>1, <2>2
<1> QED
  BY <1>2, <1>3, <1>6, <1>7 DEF Puts

\* Nor does one that is laid over that of its file.
LEMMA LaidPuts ==
  ASSUME NEW s \in Seq(Cells), NEW m \in Seq(Entries), Exact(s, m), NEW r \in Rec,
         NEW n \in 1 .. Len(m), First(s, m, n).id = r.id,
         NEW v, v = Overlay(s, m[n].pos, Text(r, m[n].len))
  PROVE  Puts(r.id, RecordedIn(s, m), RecordedIn(v, m))
<1>1. /\ v \in Seq(Cells) /\ Exact(v, m)
      /\ First(v, m, n).id = r.id /\ First(v, m, n).bytes = r.bytes
      /\ \A k \in 1 .. Len(m) : k # n => First(v, m, k) = First(s, m, k)
  BY ExactOverlay
<1>2. r.id \in IDs /\ r.bytes # NoFile
  BY RecOK, StoreAssumption
<1>3. RecordedIn(v, m)[r.id] # NoFile
  BY <1>1, <1>2, RecordedExact
<1>4. ASSUME NEW j \in IDs, j # r.id PROVE RecordedIn(v, m)[j] = RecordedIn(s, m)[j]
  <2>1. CASE \E k \in 1 .. Len(m) : First(s, m, k).id = j
    <3>1. PICK k \in 1 .. Len(m) : First(s, m, k).id = j
      BY <2>1
    <3>2. First(v, m, k) = First(s, m, k)
      BY <1>1, <1>4, <3>1
    <3>3. RecordedIn(s, m)[j] = First(s, m, k).bytes
      BY <3>1, RecordedExact
    <3>4. RecordedIn(v, m)[j] = First(v, m, k).bytes
      BY <1>1, <3>1, <3>2, RecordedExact
    <3> QED
      BY <3>2, <3>3, <3>4
  <2>2. CASE \A k \in 1 .. Len(m) : First(s, m, k).id # j
    <3>1. \A k \in 1 .. Len(m) : First(v, m, k).id # j
      BY <1>1, <1>4, <2>2
    <3>2. RecordedIn(s, m)[j] = NoFile
      BY <2>2, RecordedExact
    <3>3. RecordedIn(v, m)[j] = NoFile
      BY <1>1, <3>1, RecordedExact
    <3> QED
      BY <3>2, <3>3
  <2> QED
    BY <2>1, <2>2
<1> QED
  BY <1>3, <1>4 DEF Puts

\* A text of records that were kept has no other.
LEMMA KeptLoses ==
  ASSUME NEW d \in DatFiles, NEW x \in IdxFiles, Len(x.body) <= MaxEntries, Exact(d.body, x.body),
         NEW n, NEW kept, kept = KeptBy(d, x, n),
         NEW t \in Seq(Cells), TextOf(t, kept), NEW l \in Seq(Entries)
  PROVE  Loses(RecordedIn(d.body, x.body), RecordedIn(t, l))
<1> SUFFICES ASSUME NEW i \in IDs, RecordedIn(t, l)[i] # NoFile
             PROVE  RecordedIn(t, l)[i] = RecordedIn(d.body, x.body)[i]
  BY DEF Loses
<1>1. d.body \in Seq(Cells) /\ x.body \in Seq(Entries)
  BY FileOK
<1>2. PICK c \in 1 .. Len(t) : t[c].kind = "text" /\ t[c].id = i /\ t[c].bytes = RecordedIn(t, l)[i]
  BY RecordedCell
<1>3. PICK k \in DOMAIN kept : i = kept[k].id /\ kept[k].bytes = RecordedIn(t, l)[i]
  BY <1>2 DEF TextOf
<1>4. /\ k \in 1 .. Len(x.body)
      /\ Reads(d.body, x.body, k).id = i /\ Reads(d.body, x.body, k).bytes = RecordedIn(t, l)[i]
  BY <1>3, KeptByOK
<1>5. First(d.body, x.body, k).id = i /\ First(d.body, x.body, k).bytes = RecordedIn(t, l)[i]
  BY <1>1, <1>4, ExactEntry DEF Reads
<1> QED
  BY <1>1, <1>4, <1>5, RecordedExact

\* A removal removes the record of the file, and those that are complete.
LEMMA ClearedRemoves ==
  ASSUME NEW d \in DatFiles, NEW x \in IdxFiles, Len(x.body) <= MaxEntries, Exact(d.body, x.body),
         NEW i \in IDs, NEW n, Finds(d.body, x.body, i, n),
         NEW f, f = Rewritten(KeptBy(d, x, n), Len(x.body))[Len(x.body)]
  PROVE  Removes(i, RecordedIn(d.body, x.body), RecordedIn(f.body, f.list))
<1>0. PICK kept : kept = KeptBy(d, x, n)
  OBVIOUS
<1>1. d.body \in Seq(Cells) /\ x.body \in Seq(Entries) /\ Len(x.body) \in Nat
  BY FileOK
<1>2. /\ f.body \in Seq(Cells) /\ f.list \in Seq(Entries) /\ Exact(f.body, f.list)
      /\ \A e \in 1 .. Len(f.list) : \E k \in DOMAIN kept : Same(First(f.body, f.list, e), kept[k])
      /\ \A k \in DOMAIN kept : \E e \in 1 .. Len(f.list) : Same(First(f.body, f.list, e), kept[k])
  BY <1>0, ClearedExact
<1>3. /\ DOMAIN kept \subseteq 1 .. Len(x.body)
      /\ \A k \in DOMAIN kept : /\ kept[k] \in Rec
                                /\ kept[k].id = Reads(d.body, x.body, k).id
                                /\ kept[k].bytes = Reads(d.body, x.body, k).bytes
      /\ \A k \in 1 .. Len(x.body) :
           /\ Reads(d.body, x.body, k).id \in IDs /\ Reads(d.body, x.body, k).bytes # Size
           /\ x.body[k] # x.body[n]
           => k \in DOMAIN kept
  BY <1>0, KeptByOK
<1>4. TextOf(f.body, kept)
  <2>1. PICK m : m = Len(x.body)
    OBVIOUS
  <2>2. /\ m \in Nat /\ DOMAIN kept \subseteq 1 .. m /\ m \in 0 .. m
        /\ \A k \in DOMAIN kept : kept[k] \in Rec
    BY <1>1, <1>3, <2>1
  <2>3. TextOf(Rewritten(kept, m)[m].body, kept)
    BY ONLY <2>2, RewrittenCells
  <2> QED
    BY <1>0, <2>1, <2>3
<1>5. Loses(RecordedIn(d.body, x.body), RecordedIn(f.body, f.list))
  BY <1>0, <1>2, <1>4, KeptLoses
<1>6. ASSUME NEW j \in IDs, j # i, RecordedIn(f.body, f.list)[j] # RecordedIn(d.body, x.body)[j],
             RecordedIn(d.body, x.body)[j] # Size
      PROVE  FALSE
  <2>1. RecordedIn(f.body, f.list)[j] = NoFile /\ RecordedIn(d.body, x.body)[j] # NoFile
    BY <1>5, <1>6 DEF Loses
  <2>2. PICK k \in 1 .. Len(x.body) : /\ Reads(d.body, x.body, k).id = j
                                      /\ RecordedIn(d.body, x.body)[j] = Reads(d.body, x.body, k).bytes
    BY <1>1, <2>1, RecordedFirst
  <2>3. x.body[k] # x.body[n]
    BY <1>6, <2>2 DEF Finds, Reads
  <2>4. k \in DOMAIN kept
    BY <1>3, <1>6, <2>2, <2>3
  <2>5. PICK e \in 1 .. Len(f.list) : Same(First(f.body, f.list, e), kept[k])
    BY <1>2, <2>4
  <2>6. First(f.body, f.list, e).id = j /\ First(f.body, f.list, e).bytes # NoFile
    <3>1. kept[k].id = j /\ kept[k].bytes \in 0 .. Size
      BY <1>3, <2>2, <2>4, RecOK
    <3> QED
      BY <2>5, <3>1, StoreAssumption DEF Same
  <2>7. RecordedIn(f.body, f.list)[j] # NoFile
    BY <1>2, <2>6, RecordedExact
  <2> QED
    BY <2>1, <2>7
<1> QED
  BY <1>5, <1>6 DEF Removes

\* The files an added record leaves when its process dies.
LEMMA AddedDies ==
  ASSUME NEW s \in Seq(Cells), NEW m \in Seq(Entries), NEW e \in Entries, e.pos >= Len(s)
  PROVE  \A i \in IDs : RecordedIn(s, Append(m, e))[i] = RecordedIn(s, m)[i]
<1>0. PICK l : l = Append(m, e)
  OBVIOUS
<1>1. /\ l \in Seq(Entries) /\ Len(l) = Len(m) + 1 /\ Len(m) \in Nat
      /\ \A k \in 1 .. Len(m) : l[k] = m[k]
      /\ l[Len(m) + 1] = e
  BY <1>0, AppendOK
<1>2. \A k \in 1 .. Len(m) : k \in 1 .. Len(l) /\ Reads(s, l, k) = Reads(s, m, k)
  BY <1>1 DEF Reads
<1>3. Reads(s, l, Len(l)) = None
  <2>1. e.pos \in Nat /\ Len(s) \in Nat
    BY DEF Entries
  <2>2. Starts(s, e.pos) = {}
    BY <2>1 DEF Starts
  <2> QED
    BY <1>1, <2>2, ReadNothing DEF Reads
<1> SUFFICES ASSUME NEW i \in IDs PROVE RecordedIn(s, l)[i] = RecordedIn(s, m)[i]
  BY <1>0
<1>4. \A k \in 1 .. Len(l) : Reads(s, l, k).id = i => k \in 1 .. Len(m)
  <2>1. \A k \in 1 .. Len(l) : k \in 1 .. Len(m) \/ k = Len(l)
    BY <1>1
  <2> QED
    BY <1>3, <2>1, NoneOK, LengthOK
<1>5. CASE FindsNone(s, m, i)
  <2>1. \A k \in 1 .. Len(l) : Reads(s, l, k).id # i
    BY <1>2, <1>4, <1>5 DEF FindsNone
  <2>2. RecordedIn(s, l)[i] = NoFile
    BY <1>1, <2>1, RecordedFirst
  <2>3. RecordedIn(s, m)[i] = NoFile
    BY <1>5, RecordedFirst DEF FindsNone
  <2> QED
    BY <2>2, <2>3
<1>6. CASE ~FindsNone(s, m, i)
  <2>1. PICK k \in 1 .. Len(m) : /\ Reads(s, m, k).id = i
                                 /\ RecordedIn(s, m)[i] = Reads(s, m, k).bytes
                                 /\ \A j \in 1 .. Len(m) : j < k => Reads(s, m, j).id # i
    BY <1>6, RecordedFirst DEF FindsNone
  <2>2. PICK b : b = Reads(s, m, k).bytes
    OBVIOUS
  <2>3. k \in 1 .. Len(l) /\ Reads(s, l, k) = Reads(s, m, k)
    BY <1>2
  <2>4. \A j \in 1 .. k : Reads(s, l, j).id = i => Reads(s, l, j).bytes = b
    <3>1. \A j \in 1 .. k : j \in 1 .. Len(m) /\ (j < k \/ j = k)
      BY <1>1
    <3> QED
      BY <1>2, <2>1, <2>2, <3>1
  <2>5. FoundAs(s, l, i, b, k)
    BY <2>1, <2>2, <2>3, <2>4 DEF FoundAs
  <2>6. RecordedIn(s, l)[i] = b
    BY <1>1, <2>5, RecordedIs
  <2> QED
    BY <2>1, <2>2, <2>6
<1> QED
  BY <1>5, <1>6

LEMMA EmptyOK == <<>> \in Seq(Cells) /\ <<>> \in Seq(Entries) /\ 1 .. Len(<<>>) = {}
<1>1. <<>> \in Seq(Cells)
  OBVIOUS
<1>2. <<>> \in Seq(Entries)
  OBVIOUS
<1>3. 1 .. Len(<<>>) = {}
  OBVIOUS
<1> QED
  BY <1>1, <1>2, <1>3

\* Every record in the data file is one that was to be written.
Real == \A c : Says(dat.body, c) => c \in counted

\* What a step writes is counted.
LEMMA RealWritten ==
  ASSUME Inv, Real, NEW p \in Procs, NEW r \in NextWrites(p), NEW w \in Outcomes(p, r),
         dat' = w.dat, counted' = counted \cup {<<r.id, r.bytes>>}
  PROVE  Real'
<1>1. \A c : Says(dat'.body, c) => c = <<r.id, r.bytes>> \/ Says(dat.body, c)
  BY OutcomeShape DEF WriteShape, WriteSays
<1> SUFFICES ASSUME NEW c, Says(dat'.body, c) PROVE c \in counted'
  BY DEF Real, Says
<1> QED
  BY <1>1 DEF Real

\* Other steps leave the text as it is or delete it.
LEMMA RealKept ==
  ASSUME Real, dat'.body \in {dat.body, <<>>}, UNCHANGED counted
  PROVE  Real'
<1> SUFFICES ASSUME NEW c, Says(dat'.body, c) PROVE c \in counted'
  BY DEF Real, Says
<1>1. CASE dat'.body = dat.body
  BY <1>1 DEF Real, Says
<1>2. CASE dat'.body = <<>>
  BY <1>2, EmptyOK DEF Says
<1> QED
  BY <1>1, <1>2

LEMMA RealStep ==
  ASSUME Inv, Real, NEW p \in Procs,
         \/ StartUpload(p) \/ StartResume(p) \/ StartResumeOf(p) \/ ListRecords(p)
         \/ WriteRecord(p) \/ NextRecord(p) \/ GiveUp(p) \/ EndCommand(p)
         \/ ClearFiles(p) \/ Quit(p) \/ DieInWrite(p) \/ DieInClearFiles(p)
  PROVE  Real'
<1>1. /\ dat \in DatFiles /\ idx \in IdxFiles /\ list[p] \in Seq(Entries)
      /\ Missing.body = <<>> /\ Emptied.body = <<>>
  BY Types, FilesOK DEF Inv
<1>2. PICK o : o = OpenResumeData(dat, idx, list[p])
  OBVIOUS
<1>3. OpenShape(o, dat, idx, list[p])
  BY <1>1, <1>2, OpenType
<1>4. CASE StartUpload(p) \/ StartResumeOf(p)
  <2>1. dat' = o.dat /\ UNCHANGED counted
    BY <1>2, <1>4 DEF StartUpload, StartResumeOf
  <2>2. dat'.body \in {dat.body, <<>>}
    BY <1>1, <1>3, <2>1 DEF OpenShape
  <2> QED
    BY <2>1, <2>2, RealKept
<1>5. CASE StartResume(p)
  <2>1. PICK q : q = LoadResumeInfo(o.dat, o.idx, o.list)
    OBVIOUS
  <2>2. q.dat \in {Emptied, Missing, o.dat}
    BY <1>3, <2>1, OpensCons DEF OpenShape, OpenCons
  <2>3. dat' = q.dat /\ UNCHANGED counted
    BY <1>2, <1>5, <2>1 DEF StartResume, Load
  <2>4. dat'.body \in {dat.body, <<>>}
    BY <1>1, <1>3, <2>2, <2>3 DEF OpenShape
  <2> QED
    BY <2>3, <2>4, RealKept
<1>6. CASE ListRecords(p)
  <2>1. PICK q : q = LoadResumeInfo(dat, idx, list[p])
    OBVIOUS
  <2>2. q.dat \in {Emptied, Missing, dat}
    BY <1>1, <2>1, OpensCons DEF OpenCons
  <2>3. dat' = q.dat /\ UNCHANGED counted
    BY <1>6, <2>1 DEF ListRecords, Load
  <2>4. dat'.body \in {dat.body, <<>>}
    BY <1>1, <2>2, <2>3
  <2> QED
    BY <2>3, <2>4, RealKept
<1>7. CASE NextRecord(p) \/ GiveUp(p) \/ EndCommand(p) \/ Quit(p)
  <2>1. UNCHANGED <<dat, counted>>
    BY <1>7 DEF NextRecord, GiveUp, EndCommand, Quit
  <2> QED
    BY <2>1, RealKept
<1>8. CASE ClearFiles(p) \/ DieInClearFiles(p)
  <2>1. dat' = Missing /\ UNCHANGED counted
    BY <1>8 DEF ClearFiles, DieInClearFiles
  <2> QED
    BY <1>1, <2>1, RealKept
<1>9. CASE WriteRecord(p)
  BY <1>9, RealWritten DEF WriteRecord
<1>10. CASE DieInWrite(p)
  BY <1>10, RealWritten DEF DieInWrite
<1> QED
  BY <1>4, <1>5, <1>6, <1>7, <1>8, <1>9, <1>10

LEMMA RealInit == Init => Real
<1> SUFFICES ASSUME Init PROVE Real
  OBVIOUS
<1>1. dat.body = <<>>
  BY FilesOK DEF Init
<1> QED
  BY <1>1, EmptyOK DEF Real, Says

LEMMA RealAlways == Spec => []Real
<1>1. Inv /\ Real /\ [Next]_vars => Real'
  <2>1. ASSUME Real, UNCHANGED vars PROVE Real'
    <3>1. UNCHANGED <<dat, counted>>
      BY <2>1 DEF vars
    <3> QED
      BY <2>1, <3>1, RealKept
  <2> QED
    BY <2>1, RealStep DEF Next
<1> QED
  BY <1>1, RealInit, InvAlways, PTL DEF Spec

\* What a process does that does not damage the files.
Alike(old, new) == \A i \in IDs : new[i] = old[i]
Benign ==
  \/ Alike(Recorded, Recorded')
  \/ \E i \in IDs : \/ Puts(i, Recorded, Recorded')
                    \/ Removes(i, Recorded, Recorded') /\ <<i, Size>> \in counted'
  \/ dat'.state # "written" /\ \A i \in IDs : Recorded'[i] = NoFile

\* Such a step, or that of a process that dies, is one of the abstract specification.
LEMMA AbstractStep ==
  ASSUME Inv, Inv', Real', NEW new, new = {} \/ \E k : new = {k},
         counted' = counted \cup new,
         \/ ~Consistent
         \/ Consistent' /\ Benign
         \/ ~Consistent' /\ Loses(Recorded, Recorded')
  PROVE  Abstract!Next
<1>1. PICK a : a = Recorded
  OBVIOUS
<1>2. PICK b : b = Recorded'
  OBVIOUS
<1>3. b = RecordedIn(dat'.body, idx'.body) /\ a = RecordedIn(dat.body, idx.body)
  BY <1>1, <1>2 DEF Recorded
<1>4. /\ dat'.body \in Seq(Cells) /\ idx'.body \in Seq(Entries)
      /\ dat.body \in Seq(Cells) /\ idx.body \in Seq(Entries)
  BY FileOK DEF Inv, TypeOK, DatFiles, IdxFiles
<1>5. /\ b \in [IDs -> (0 .. Size) \cup {NoFile}] /\ a \in [IDs -> (0 .. Size) \cup {NoFile}]
  BY <1>3, <1>4, RecordedType
<1>6. \A i \in IDs : b[i] # NoFile => <<i, b[i]>> \in counted'
  <2> SUFFICES ASSUME NEW i \in IDs, b[i] # NoFile PROVE <<i, b[i]>> \in counted'
    OBVIOUS
  <2>1. PICK c \in 1 .. Len(dat'.body) :
           dat'.body[c].kind = "text" /\ dat'.body[c].id = i /\ dat'.body[c].bytes = b[i]
    BY <1>3, <1>4, RecordedCell
  <2>2. Says(dat'.body, <<i, b[i]>>)
    BY <2>1 DEF Says
  <2> QED
    BY <2>2 DEF Real
<1>7. counted \subseteq counted' /\ \A k \in counted' \ counted : counted' = counted \cup {k}
  OBVIOUS
<1>8. PICK over : over = {i \in IDs : <<i, Size>> \in counted'}
  OBVIOUS
<1>9. PICK goner \in BOOLEAN : goner <=> dat'.state # "written"
  OBVIOUS
<1>10. PICK hurts \in BOOLEAN : hurts <=> ~Consistent'
  OBVIOUS
<1>11. \/ ~Consistent
       \/ ~hurts /\ Abstract!Change(a, b, over, goner)
       \/ hurts /\ Abstract!Die(a, b)
  <2>1. CASE ~Consistent
    BY <2>1
  <2>2. CASE ~Consistent' /\ Loses(Recorded, Recorded')
    BY <1>1, <1>2, <1>10, <2>2 DEF Loses, Abstract!Die, Abstract!Changed, Abstract!Lost
  <2>3. ASSUME Benign PROVE Abstract!Change(a, b, over, goner)
    <3>1. CASE Alike(Recorded, Recorded')
      <4>1. b = a
        BY <1>1, <1>2, <1>5, <3>1 DEF Alike
      <4> QED
        BY <4>1 DEF Abstract!Change
    <3>2. ASSUME NEW i \in IDs, Puts(i, Recorded, Recorded') PROVE Abstract!Put(i, a, b)
      BY <1>1, <1>2, <3>2 DEF Puts, Abstract!Put, Abstract!Changed
    <3>3. ASSUME NEW i \in IDs, Removes(i, Recorded, Recorded'), <<i, Size>> \in counted'
          PROVE  Abstract!Remove(i, a, b, over)
      BY <1>1, <1>2, <1>8, <3>3
         DEF Removes, Loses, Abstract!Remove, Abstract!Changed, Abstract!Lost
    <3>4. CASE dat'.state # "written" /\ \A i \in IDs : Recorded'[i] = NoFile
      BY <1>2, <1>9, <3>4 DEF Abstract!Change, Abstract!Clear
    <3> QED
      BY <2>3, <3>1, <3>2, <3>3, <3>4 DEF Benign, Abstract!Change
  <2> QED
    BY <1>10, <2>1, <2>2, <2>3
<1>12. Abstract!Step(a, b, over, goner, hurts)
  <2>1. {i \in IDs : <<i, Size>> \in counted} \subseteq over
    BY <1>7, <1>8
  <2> QED
    BY <1>5, <1>6, <1>7, <1>11, <2>1 DEF Abstract!Step
<1>13. /\ over = {i \in IDs : <<i, Size>> \in counted}' /\ goner = (dat.state # "written")'
       /\ hurts = (~Consistent)'
  BY <1>8, <1>9, <1>10
<1> QED
  BY <1>1, <1>2, <1>12, <1>13 DEF Abstract!Next

\* Files that are left alone, opened or read tell the same, or nothing.
LEMMA SameBenign ==
  ASSUME UNCHANGED <<dat, idx>>
  PROVE  Benign
<1>1. Recorded' = Recorded
  BY DEF Recorded
<1> QED
  BY <1>1 DEF Benign, Alike

LEMMA GoneBenign ==
  ASSUME idx'.body \in Seq(Entries), dat' \in DatFiles, dat'.state # "written"
  PROVE  Benign /\ Loses(Recorded, Recorded')
<1>1. Recorded' = RecordedIn(dat'.body, idx'.body)
  BY DEF Recorded
<1>2. dat'.body \in Seq(Cells) /\ \A i : ~TextIn(dat'.body, i)
  BY FileOK, NoText
<1>3. \A i \in IDs : RecordedIn(dat'.body, idx'.body)[i] = NoFile
  BY <1>2, RecordedNone
<1> QED
  BY <1>1, <1>3 DEF Benign, Loses

LEMMA OpenBenign ==
  ASSUME Inv, NEW p \in Procs, NEW o, OpenCons(o, dat, idx, list[p]), dat' = o.dat, idx' = o.idx
  PROVE  Benign
<1>1. CASE /\ dat.state # "written" \/ idx.state = "old"
           /\ o.dat \in {Emptied, Missing} /\ o.idx \in {idx, Missing}
  <2>1. dat' \in DatFiles /\ dat'.state # "written"
    BY <1>1, FilesOK
  <2>2. idx'.body \in Seq(Entries)
    BY <1>1, FilesOK, FileOK, Types DEF Inv
  <2> QED
    BY <2>1, <2>2, GoneBenign
<1>2. CASE o.dat = dat /\ o.idx.body = idx.body
  <2>1. Recorded' = Recorded
    BY <1>2 DEF Recorded
  <2> QED
    BY <2>1 DEF Benign, Alike
<1> QED
  BY <1>1, <1>2 DEF OpenCons

\* A record that is to be removed has all the bytes of its file.
Whole == \A p \in Procs : cur[p].done => cur[p].bytes = Size

LEMMA WholeNext ==
  ASSUME Inv, Whole, NEW p \in Procs, NEW r \in NextWrites(p), r.done
  PROVE  r.bytes = Size
<1>1. cur[p] \in Info
  BY Types DEF Inv
<1>2. CASE again[p]
  BY <1>2 DEF NextWrites, Whole
<1>3. CASE ~again[p] /\ cur[p] # None
  <2>1. /\ cur[p] \in [id : IDs, bytes : 0 .. Size, index : 0 .. MaxEntries, done : BOOLEAN]
        /\ Size \in Nat
    BY <1>1, <1>3, StoreAssumption DEF Info
  <2>2. r = IF cur[p].bytes < Size THEN [cur[p] EXCEPT !.bytes = @ + 1]
                                   ELSE [cur[p] EXCEPT !.done = TRUE]
    BY <1>3 DEF NextWrites
  <2>3. CASE cur[p].bytes < Size
    <3>1. r.done = cur[p].done
      BY <2>1, <2>2, <2>3
    <3> QED
      BY <2>1, <2>3, <3>1 DEF Whole
  <2>4. CASE ~(cur[p].bytes < Size)
    <3>1. r.bytes = cur[p].bytes
      BY <2>1, <2>2, <2>4
    <3> QED
      BY <2>1, <2>4, <3>1
  <2> QED
    BY <2>3, <2>4
<1>4. CASE ~again[p] /\ cur[p] = None
  BY <1>4, NextRec
<1> QED
  BY <1>2, <1>3, <1>4

LEMMA WholeStep ==
  ASSUME Inv, Whole, NEW p \in Procs,
         \/ StartUpload(p) \/ StartResume(p) \/ StartResumeOf(p) \/ ListRecords(p)
         \/ WriteRecord(p) \/ NextRecord(p) \/ GiveUp(p) \/ EndCommand(p)
         \/ ClearFiles(p) \/ Quit(p) \/ DieInWrite(p) \/ DieInClearFiles(p)
  PROVE  Whole'
<1>1. cur \in [Procs -> Info]
  BY DEF Inv, TypeOK
<1>2. ASSUME NEW c, cur' = [cur EXCEPT ![p] = c], c.done => c.bytes = Size
      PROVE  Whole'
  <2>1. \A q \in Procs : cur'[q] = IF q = p THEN c ELSE cur[q]
    BY <1>1, <1>2
  <2> QED
    BY <1>2, <2>1 DEF Whole
<1>3. CASE GiveUp(p) \/ Quit(p) \/ DieInWrite(p) \/ DieInClearFiles(p)
  <2>1. cur' = [cur EXCEPT ![p] = None] /\ ~None.done
    BY <1>3, NoneOK DEF GiveUp, Quit, DieInWrite, DieInClearFiles, Restarted
  <2> QED
    BY <1>2, <2>1
<1>4. CASE StartUpload(p) \/ StartResume(p) \/ StartResumeOf(p) \/ ListRecords(p)
           \/ EndCommand(p) \/ ClearFiles(p)
  <2>1. cur' = cur
    BY <1>4 DEF StartUpload, StartResume, StartResumeOf, ListRecords, EndCommand, ClearFiles
  <2> QED
    BY <2>1 DEF Whole
<1>5. CASE NextRecord(p)
  <2>1. PICK k : k = Min(DOMAIN pend[p])
    OBVIOUS
  <2>2. DOMAIN pend[p] # {} /\ cur' = [cur EXCEPT ![p] = pend[p][k]]
    BY <1>5, <2>1 DEF NextRecord
  <2>3. DOMAIN pend[p] \subseteq Nat
    BY StoreAssumption DEF Inv, TypeOK, Infos
  <2>4. k \in DOMAIN pend[p]
    BY <2>1, <2>2, <2>3, LeastOf
  <2>5. ~pend[p][k].done
    BY <2>4 DEF Inv, Known
  <2> QED
    BY <1>2, <2>2, <2>5
<1>6. CASE WriteRecord(p)
  <2>1. PICK r \in NextWrites(p) : \E w \in Outcomes(p, r) : Writes(p, r, w)
    BY <1>6, WritesOne
  <2>2. PICK w \in Outcomes(p, r) : Writes(p, r, w)
    BY <2>1
  <2>3. r \in Rec /\ w.index \in 0 .. MaxEntries /\ (r.done => r.bytes = Size)
    BY OutcomeShape, WholeNext DEF WriteShape, WriteSays
  <2>4. PICK c : c = [r EXCEPT !.index = w.index]
    OBVIOUS
  <2>5. c.done => c.bytes = Size
    BY <2>3, <2>4, IndexedOK
  <2>6. cur' = [cur EXCEPT ![p] = None] \/ cur' = [cur EXCEPT ![p] = c]
    BY <2>2, <2>4 DEF Writes
  <2>7. ~None.done
    BY NoneOK
  <2> QED
    BY <1>2, <2>5, <2>6, <2>7
<1> QED
  BY <1>3, <1>4, <1>5, <1>6

LEMMA WholeAlways == Spec => []Whole
<1>1. Init => Whole
  BY NoneOK DEF Init, Whole
<1>2. Inv /\ Whole /\ [Next]_vars => Whole'
  <2>1. ASSUME Whole, UNCHANGED vars PROVE Whole'
    BY <2>1 DEF Whole, vars
  <2> QED
    BY <2>1, WholeStep DEF Next
<1> QED
  BY <1>1, <1>2, InvAlways, PTL DEF Spec

LEMMA DeadLoses ==
  ASSUME Inv, Consistent, NEW p \in Procs, NEW r \in NextWrites(p), NEW w \in Outcomes(p, r),
         w.result = "died", dat' = w.dat, idx' = w.idx
  PROVE  Loses(Recorded, Recorded')
<1>1. /\ dat \in DatFiles /\ idx \in IdxFiles /\ Len(idx.body) <= MaxEntries
      /\ list[p] \in Seq(Entries) /\ dat.body \in Seq(Cells) /\ idx.body \in Seq(Entries)
      /\ r \in Rec /\ w \in WriteResumeUploadData(dat, idx, list[p], r)
      /\ w.dat \in DatFiles /\ w.idx \in IdxFiles
  BY Types, OutcomeShape DEF Inv, WriteShape, WriteSays
<1>2. dat'.body \in Seq(Cells) /\ idx'.body \in Seq(Entries)
  BY <1>1, FileOK
<1>3. Recorded' = RecordedIn(dat'.body, idx'.body) /\ Recorded = RecordedIn(dat.body, idx.body)
  BY DEF Recorded
<1>4. \/ \E s \in Seq(Cells), m \in Seq(Entries), y \in IdxFiles :
            IsAdded(w, dat, idx, list[p], r, s, m, y)
      \/ \E n \in Nat : IsCleared(w, dat, idx, r, n)
  <2>1. \/ StaysEmpty(w, dat, idx, list[p], r) \/ IsTooOld(w, dat, idx, list[p], r)
        \/ StaysAsRead(w, dat, idx, r)
        \/ \E s \in Seq(Cells), m \in Seq(Entries), y \in IdxFiles :
             IsAdded(w, dat, idx, list[p], r, s, m, y)
        \/ \E s \in Seq(Cells), m \in Seq(Entries), n \in Nat :
             IsLaid(w, dat, idx, list[p], r, s, m, n)
        \/ \E n \in Nat : IsCleared(w, dat, idx, r, n)
    BY <1>1, Writing
  <2> QED
    BY <2>1 DEF StaysEmpty, IsTooOld, StaysAsRead, IsLaid, Outcome, Results
<1>5. ASSUME NEW s \in Seq(Cells), NEW m \in Seq(Entries), NEW y \in IdxFiles,
             IsAdded(w, dat, idx, list[p], r, s, m, y)
      PROVE  Loses(Recorded, Recorded')
  <2>1. PICK f : f = WithRecord([body |-> s, list |-> m], r)
    OBVIOUS
  <2>2. w.dat = Written(s) /\ w.idx \in {y, Emptied, Written(f.list)}
    BY <1>1, <1>5, <2>1, AppendedAs DEF IsAdded
  <2>3. dat'.body = s
    BY <2>2, FilesOK
  <2>4. CASE dat.state # "written"
    <3>1. s = Header
      BY <1>5, <2>4 DEF IsAdded
    <3> QED
      BY <1>2, <1>3, <2>3, <3>1, NoText, RecordedNone DEF Loses
  <2>5. CASE dat.state = "written"
    <3>1. s = dat.body /\ m = idx.body /\ y.body \in {idx.body, <<>>}
      BY <1>5, <2>5, FilesOK DEF IsAdded
    <3>2. PICK e : e = [pos |-> Len(s), len |-> Length[r.id]]
      OBVIOUS
    <3>3. e \in Entries /\ e.pos >= Len(s)
      BY <1>1, <3>2, RecOK, LengthOK DEF Entries
    <3>4. f.list = Append(m, e)
      BY <2>1, <3>2 DEF WithRecord
    <3>5. idx'.body \in {idx.body, <<>>, f.list}
      BY <2>2, <3>1, FilesOK
    <3>6. CASE idx'.body = idx.body
      BY <1>3, <2>3, <3>1, <3>6 DEF Loses
    <3>7. CASE idx'.body = <<>>
      <4>1. \A i \in IDs : RecordedIn(s, <<>>)[i] = NoFile
        <5>1. PICK z \in Seq(Entries) : z = <<>> /\ 1 .. Len(z) = {}
          BY EmptyOK
        <5>2. \A i \in IDs : RecordedIn(s, z)[i] = NoFile
          <6> SUFFICES ASSUME NEW i \in IDs PROVE RecordedIn(s, z)[i] = NoFile
            OBVIOUS
          <6> QED
            BY <5>1, RecordedFirst
        <5> QED
          BY <5>1, <5>2
      <4> QED
        BY <1>3, <2>3, <3>7, <4>1 DEF Loses
    <3>8. CASE idx'.body = f.list
      <4>1. \A i \in IDs : RecordedIn(s, Append(m, e))[i] = RecordedIn(s, m)[i]
        BY <3>3, AddedDies
      <4> QED
        BY <1>3, <2>3, <3>1, <3>4, <3>8, <4>1 DEF Loses
    <3> QED
      BY <3>5, <3>6, <3>7, <3>8
  <2> QED
    BY <2>4, <2>5
<1>6. ASSUME NEW n \in Nat, IsCleared(w, dat, idx, r, n)
      PROVE  Loses(Recorded, Recorded')
  <2>1. PICK kept : kept = KeptBy(dat, idx, n)
    OBVIOUS
  <2>2. PICK m : m = Len(idx.body)
    OBVIOUS
  <2>3. PICK file : file = Rewritten(kept, m)
    OBVIOUS
  <2>4. Exact(dat.body, idx.body)
    BY <1>6 DEF IsCleared, Consistent, IndexExact
  <2>5. /\ m \in Nat /\ DOMAIN kept \subseteq 1 .. m /\ \A k \in DOMAIN kept : kept[k] \in Rec
    BY <1>1, <2>1, <2>2, KeptByOK
  <2>6. w \in Saved(idx, file, kept, m, n)
    BY <1>6, <2>1, <2>2, <2>3 DEF IsCleared
  <2>7. w.dat = Emptied \/ \E k \in 0 .. m : w.dat = Written(file[k].body)
    <3>1. {0} \cup DOMAIN kept \subseteq 0 .. m /\ m \in 0 .. m
      BY <2>5
    <3> QED
      BY <2>6, <3>1, SavedAs
  <2>8. CASE w.dat = Emptied
    <3>1. dat' \in DatFiles /\ dat'.state # "written"
      BY <2>8, FilesOK
    <3> QED
      BY <1>2, <3>1, GoneBenign
  <2>9. ASSUME NEW k \in 0 .. m, w.dat = Written(file[k].body) PROVE Loses(Recorded, Recorded')
    <3>1. dat'.body = Rewritten(kept, m)[k].body
      BY <2>3, <2>9, FilesOK
    <3>2. \A j \in 0 .. m : TextOf(Rewritten(kept, m)[j].body, kept)
      BY ONLY <2>5, RewrittenCells
    <3>3. TextOf(dat'.body, kept)
      BY <3>1, <3>2
    <3>4. Loses(RecordedIn(dat.body, idx.body), RecordedIn(dat'.body, idx'.body))
      BY <1>1, <1>2, <2>1, <2>4, <3>3, KeptLoses
    <3> QED
      BY <1>3, <3>4
  <2> QED
    BY <2>7, <2>8, <2>9
<1> QED
  BY <1>4, <1>5, <1>6

\* A file that is written anew is shorter than the old one, whose index does not fit it.
LEMMA Shorter ==
  ASSUME NEW d \in DatFiles, NEW x \in IdxFiles, Len(x.body) <= MaxEntries, Exact(d.body, x.body),
         NEW n \in 1 .. Len(x.body), NEW k \in 0 .. Len(x.body)
  PROVE  ~Exact(Rewritten(KeptBy(d, x, n), Len(x.body))[k].body, x.body)
<1>1. PICK kept, m, l, s : /\ kept = KeptBy(d, x, n) /\ m = Len(x.body)
                           /\ l = x.body /\ s = d.body
  OBVIOUS
<1>2. PICK file : file = Rewritten(kept, m)
  OBVIOUS
<1>3. s \in Seq(Cells) /\ l \in Seq(Entries) /\ m \in Nat /\ m = Len(l) /\ n \in 1 .. m
  BY <1>1, FileOK
<1>4. /\ DOMAIN kept \subseteq 1 .. m /\ n \notin DOMAIN kept
      /\ \A j \in DOMAIN kept : kept[j] \in Rec /\ kept[j].id = Reads(s, l, j).id
  BY <1>1, KeptByOK
<1>5. /\ \A j \in 0 .. m : file[j] \in Rewrites
      /\ file[0] = [body |-> Header, list |-> <<>>]
      /\ \A j \in 1 .. m : file[j] = IF j \in DOMAIN kept THEN WithRecord(file[j - 1], kept[j])
                                                          ELSE file[j - 1]
  BY ONLY <1>2, <1>3, <1>4, RewrittenOK
<1>6. \A j \in 1 .. m : /\ l[j].pos \in Nat /\ l[j].len \in Nat /\ l[j].len > 0
                        /\ l[j].len = Length[First(s, l, j).id]
                        /\ Reads(s, l, j).id = First(s, l, j).id
                        /\ EndOf(l, j) = EndOf(l, j - 1) + l[j].len
                        /\ EndOf(l, j) \in Nat
  <2> SUFFICES ASSUME NEW j \in 1 .. m
               PROVE  /\ l[j].pos \in Nat /\ l[j].len \in Nat /\ l[j].len > 0
                      /\ l[j].len = Length[First(s, l, j).id]
                      /\ Reads(s, l, j).id = First(s, l, j).id
                      /\ EndOf(l, j) = EndOf(l, j - 1) + l[j].len
                      /\ EndOf(l, j) \in Nat
    OBVIOUS
  <2>1. /\ l[j].pos \in Nat /\ l[j].len = Length[First(s, l, j).id] /\ First(s, l, j).id \in IDs
        /\ Reads(s, l, j).id = First(s, l, j).id
    BY <1>1, <1>3, ExactEntry DEF Reads
  <2>2. l[j].len \in Nat /\ l[j].len > 0
    BY <2>1, LengthOK
  <2>3. l[j].pos = EndOf(l, j - 1)
    BY <1>1, <1>3, ExactOK
  <2>4. EndOf(l, j) = l[j].pos + l[j].len
    BY DEF EndOf
  <2> QED
    BY <2>1, <2>2, <2>3, <2>4
<1>7. EndOf(l, 0) = 1 /\ Len(Header) = 1
  BY CellsOK DEF EndOf
<1> DEFINE G == {j \in 0 .. m : /\ Len(file[j].body) <= EndOf(l, j)
                                /\ j >= n => Len(file[j].body) < EndOf(l, j)}
<1>8. 0 \in G
  <2>1. file[0].body = Header /\ ~(0 >= n) /\ 0 \in 0 .. m
    BY <1>3, <1>5
  <2>2. Len(file[0].body) = 1
    BY <1>7, <2>1
  <2>3. Len(file[0].body) <= EndOf(l, 0)
    BY <1>7, <2>2
  <2> QED
    BY <2>1, <2>3
<1>9. ASSUME NEW j \in 1 .. m, j - 1 \in G PROVE j \in G
  <2>1. j - 1 \in 0 .. m /\ j \in 0 .. m /\ EndOf(l, j - 1) \in Nat
    <3>1. j = 1 \/ j - 1 \in 1 .. m
      BY <1>3
    <3> QED
      BY <1>3, <1>6, <1>7, <3>1
  <2>2. PICK a, b : a = Len(file[j - 1].body) /\ b = Len(file[j].body)
    OBVIOUS
  <2>3. /\ file[j - 1] \in Rewrites /\ file[j - 1].body \in Seq(Cells) /\ a \in Nat
        /\ a <= EndOf(l, j - 1) /\ (j - 1 >= n => a < EndOf(l, j - 1))
    BY <1>5, <1>9, <2>1, <2>2 DEF Rewrites
  <2>4. (b = a \/ (b = a + l[j].len /\ j # n)) => j \in G
    <3>1. PICK u, v, c : u = EndOf(l, j - 1) /\ v = EndOf(l, j) /\ c = l[j].len
      OBVIOUS
    <3>2. u \in Nat /\ c \in Nat /\ c > 0 /\ v = u + c /\ a \in Nat
      BY <1>6, <2>1, <2>3, <3>1
    <3>3. a <= u /\ (j - 1 >= n => a < u)
      BY <2>3, <3>1
    <3>4. ASSUME b = a \/ (b = a + c /\ j # n) PROVE b <= v /\ (j >= n => b < v)
      BY <1>3, <3>2, <3>3, <3>4
    <3> QED
      BY <2>1, <2>2, <3>1, <3>4
  <2>5. CASE j \in DOMAIN kept
    <3>1. kept[j] \in Rec /\ kept[j].id = First(s, l, j).id /\ j # n
      BY <1>4, <1>6, <2>5
    <3>2. file[j] = WithRecord(file[j - 1], kept[j])
      BY <1>5, <2>5
    <3>3. PICK f, g : f = file[j - 1] /\ g = WithRecord(f, kept[j])
      OBVIOUS
    <3>4. Len(g.body) = Len(f.body) + Length[kept[j].id]
      BY <2>3, <3>1, <3>3, WithRecordOK
    <3>5. b = a + l[j].len
      BY <1>6, <2>2, <3>1, <3>2, <3>3, <3>4
    <3> QED
      BY <2>4, <3>1, <3>5
  <2>6. CASE j \notin DOMAIN kept
    <3>1. b = a
      BY <1>5, <2>2, <2>6
    <3> QED
      BY <2>4, <3>1
  <2> QED
    BY <2>5, <2>6
<1>10. \A j \in 0 .. m : j \in G
  <2> HIDE DEF G
  <2> QED  BY <1>3, <1>8, <1>9, UpTo
<1>11. Len(file[k].body) < EndOf(l, m)
  <2>1. k \in 0 .. m /\ Len(file[k].body) <= EndOf(l, k) /\ (k >= n => Len(file[k].body) < EndOf(l, k))
    BY <1>1, <1>10
  <2>2. file[k].body \in Seq(Cells) /\ Len(file[k].body) \in Nat
    BY <1>5, <2>1 DEF Rewrites
  <2>3. CASE k = m
    BY <1>3, <2>1, <2>3
  <2>4. CASE k \in 1 .. m - 1
    <3>1. k \in 1 .. m /\ m \in 1 .. m /\ k < m
      BY <1>3, <2>4
    <3>2. l[k].pos + l[k].len <= l[m].pos
      BY <1>1, <1>3, <3>1, ExactApart
    <3>3. EndOf(l, k) = l[k].pos + l[k].len /\ EndOf(l, m) = l[m].pos + l[m].len
      BY <3>1 DEF EndOf
    <3>4. /\ l[k].pos \in Nat /\ l[k].len \in Nat
          /\ l[m].pos \in Nat /\ l[m].len \in Nat /\ l[m].len > 0
      BY <1>6, <3>1
    <3>5. PICK a, u, v : a = Len(file[k].body) /\ u = EndOf(l, k) /\ v = EndOf(l, m)
      OBVIOUS
    <3>6. a \in Nat /\ u \in Nat /\ v \in Nat /\ u < v
      <4>1. PICK b, c, e, f : b = l[k].pos /\ c = l[k].len /\ e = l[m].pos /\ f = l[m].len
        OBVIOUS
      <4>2. /\ b \in Nat /\ c \in Nat /\ e \in Nat /\ f \in Nat /\ f > 0
            /\ b + c <= e /\ u = b + c /\ v = e + f
        BY <3>2, <3>3, <3>4, <3>5, <4>1
      <4>3. a \in Nat
        BY <2>2, <3>5
      <4> QED
        BY ONLY <4>2, <4>3
    <3>7. a <= u
      BY <2>1, <3>5
    <3>8. a < v
      BY ONLY <3>6, <3>7
    <3> QED
      BY <3>5, <3>8
  <2>5. CASE k = 0 /\ m # 0
    <3>1. m \in 1 .. m /\ Len(file[k].body) = 1
      BY <1>3, <1>5, <1>7, <2>5
    <3>2. m = 1 \/ m - 1 \in 1 .. m
      BY <1>3
    <3>3. EndOf(l, m) = EndOf(l, m - 1) + l[m].len
      BY <1>6, <3>1
    <3>4. EndOf(l, m - 1) \in Nat /\ EndOf(l, m - 1) >= 1
      <4>1. CASE m = 1
        BY <1>7, <4>1
      <4>2. CASE m - 1 \in 1 .. m
        BY <1>6, <1>7, <4>2 DEF EndOf
      <4> QED
        BY <3>2, <4>1, <4>2
    <3>5. l[m].len \in Nat /\ l[m].len > 0
      BY <1>6, <3>1
    <3>6. EndOf(l, m) > 1
      BY ONLY <3>3, <3>4, <3>5
    <3> QED
      BY <3>1, <3>6
  <2> QED
    BY <1>3, <2>1, <2>3, <2>4, <2>5
<1>12. file[k].body \in Seq(Cells) /\ Len(file[k].body) \in Nat
  BY <1>1, <1>5 DEF Rewrites
<1>13. ~Exact(file[k].body, l)
  <2>1. m # 0 /\ m \in 1 .. m
    BY <1>3
  <2> QED
    BY <1>3, <1>6, <1>11, <1>12, <2>1, ExactOK
<1> QED
  BY <1>1, <1>2, <1>13

\* An exact index without entries leaves room for no record.
LEMMA NoneExact ==
  ASSUME NEW s \in Seq(Cells), NEW l \in Seq(Entries), Exact(s, l), Exact(s, <<>>)
  PROVE  l = <<>>
<1>1. PICK z : z = <<>>
  OBVIOUS
<1>2. Len(s) = 1
  <2>1. z \in Seq(Entries) /\ Exact(s, z)
    BY <1>1, EmptyOK
  <2>2. Len(z) = 0
    BY <1>1
  <2>3. Len(s) = EndOf(z, Len(z))
    BY <2>1, ExactOK
  <2> QED
    BY <2>2, <2>3 DEF EndOf
<1>3. ASSUME 1 \in 1 .. Len(l) PROVE FALSE
  <2>1. l[1].pos = EndOf(l, 1 - 1) /\ LineAt(s, l[1].pos + 1)
    BY <1>3, ExactOK
  <2>2. l[1].pos = 1
    BY <2>1 DEF EndOf
  <2>3. LineAt(s, 2)
    BY <2>1, <2>2
  <2> QED
    BY <1>2, <2>3 DEF LineAt
<1> QED
  BY <1>3

\* A process that dies and does not damage the files has written nothing, or all.
LEMMA DeadBenign ==
  ASSUME Inv, Whole, Consistent, Consistent', NEW p \in Procs, NEW r \in NextWrites(p),
         NEW w \in Outcomes(p, r), w.result = "died", dat' = w.dat, idx' = w.idx,
         counted' = counted \cup {<<r.id, r.bytes>>}
  PROVE  Benign
<1>1. /\ dat \in DatFiles /\ idx \in IdxFiles /\ Len(idx.body) <= MaxEntries
      /\ list[p] \in Seq(Entries) /\ dat.body \in Seq(Cells) /\ idx.body \in Seq(Entries)
      /\ r \in Rec /\ w \in WriteResumeUploadData(dat, idx, list[p], r)
      /\ w.dat \in DatFiles /\ w.idx \in IdxFiles
  BY Types, OutcomeShape DEF Inv, WriteShape, WriteSays
<1>2. dat'.body \in Seq(Cells) /\ idx'.body \in Seq(Entries)
  BY <1>1, FileOK
<1>3. Recorded' = RecordedIn(dat'.body, idx'.body) /\ Recorded = RecordedIn(dat.body, idx.body)
  BY DEF Recorded
<1>4. \/ \E s \in Seq(Cells), m \in Seq(Entries), y \in IdxFiles :
            IsAdded(w, dat, idx, list[p], r, s, m, y)
      \/ \E n \in Nat : IsCleared(w, dat, idx, r, n)
  <2>1. \/ StaysEmpty(w, dat, idx, list[p], r) \/ IsTooOld(w, dat, idx, list[p], r)
        \/ StaysAsRead(w, dat, idx, r)
        \/ \E s \in Seq(Cells), m \in Seq(Entries), y \in IdxFiles :
             IsAdded(w, dat, idx, list[p], r, s, m, y)
        \/ \E s \in Seq(Cells), m \in Seq(Entries), n \in Nat :
             IsLaid(w, dat, idx, list[p], r, s, m, n)
        \/ \E n \in Nat : IsCleared(w, dat, idx, r, n)
    BY <1>1, Writing
  <2> QED
    BY <2>1 DEF StaysEmpty, IsTooOld, StaysAsRead, IsLaid, Outcome, Results
<1>5. dat'.state = "written" => Exact(dat'.body, idx'.body)
  BY DEF Consistent, IndexExact
<1>6. ASSUME NEW s \in Seq(Cells), NEW m \in Seq(Entries), NEW y \in IdxFiles,
             IsAdded(w, dat, idx, list[p], r, s, m, y)
      PROVE  Benign
  <2>1. PICK f : f = WithRecord([body |-> s, list |-> m], r)
    OBVIOUS
  <2>2. w.dat = Written(s) /\ w.idx \in {y, Emptied, Written(f.list)}
    BY <1>1, <1>6, <2>1, AppendedAs DEF IsAdded
  <2>3. dat'.body = s /\ dat'.state = "written"
    BY <2>2, FilesOK
  <2>4. CASE dat.state # "written"
    <3>1. s = Header /\ dat.body = <<>>
      BY <1>1, <1>6, <2>4, FileOK DEF IsAdded
    <3>2. (\A i : ~TextIn(dat.body, i)) /\ \A i : ~TextIn(dat'.body, i)
      BY <2>3, <3>1, NoText
    <3>3. \A i \in IDs : Recorded[i] = NoFile /\ Recorded'[i] = NoFile
      BY <1>1, <1>2, <1>3, <3>2, RecordedNone
    <3> QED
      BY <3>3 DEF Benign, Alike
  <2>5. CASE dat.state = "written"
    <3>1. s = dat.body /\ m = idx.body /\ y.body \in {idx.body, <<>>}
      BY <1>6, <2>5, FilesOK DEF IsAdded
    <3>2. PICK e : e = [pos |-> Len(s), len |-> Length[r.id]]
      OBVIOUS
    <3>3. e \in Entries /\ e.pos >= Len(s)
      BY <1>1, <3>2, RecOK, LengthOK DEF Entries
    <3>4. f.list = Append(m, e)
      BY <2>1, <3>2 DEF WithRecord
    <3>5. idx'.body \in {idx.body, <<>>, f.list}
      BY <2>2, <3>1, FilesOK
    <3>6. idx'.body = <<>> => idx.body = <<>>
      <4>1. Exact(s, m)
        BY <2>5, <3>1 DEF Consistent, IndexExact
      <4> QED
        BY <1>5, <2>3, <3>1, <4>1, NoneExact
    <3>7. CASE idx'.body = idx.body
      BY <1>3, <2>3, <3>1, <3>7 DEF Benign, Alike
    <3>8. CASE idx'.body = f.list
      <4>1. \A i \in IDs : RecordedIn(s, Append(m, e))[i] = RecordedIn(s, m)[i]
        BY <3>3, AddedDies
      <4> QED
        BY <1>3, <2>3, <3>1, <3>4, <3>8, <4>1 DEF Benign, Alike
    <3> QED
      BY <3>5, <3>6, <3>7, <3>8
  <2> QED
    BY <2>4, <2>5
<1>7. ASSUME NEW n \in Nat, IsCleared(w, dat, idx, r, n)
      PROVE  Benign
  <2>1. PICK kept, m, file : /\ kept = KeptBy(dat, idx, n) /\ m = Len(idx.body)
                             /\ file = Rewritten(kept, m)
    OBVIOUS
  <2>2. /\ Exact(dat.body, idx.body) /\ Finds(dat.body, idx.body, r.id, n)
        /\ n \in 1 .. m /\ m \in Nat
    BY <1>1, <1>7, <2>1 DEF IsCleared, Consistent, IndexExact, Finds
  <2>3. DOMAIN kept \subseteq 1 .. m
    BY <1>1, <2>1, KeptByOK
  <2>4. w \in Saved(idx, file, kept, m, n)
    BY <1>7, <2>1 DEF IsCleared
  <2>5. \/ w.dat = Emptied
        \/ w.idx = idx /\ \E k \in 0 .. m : w.dat = Written(file[k].body)
        \/ w.idx \in {Emptied, Written(file[m].list)} /\ w.dat = Written(file[m].body)
    <3>1. {0} \cup DOMAIN kept \subseteq 0 .. m
      BY <2>2, <2>3
    <3> QED
      BY <2>4, <3>1, SavedAs
  <2>6. CASE w.dat = Emptied
    <3>1. dat' \in DatFiles /\ dat'.state # "written"
      BY <2>6, FilesOK
    <3> QED
      BY <1>2, <3>1, GoneBenign
  <2>7. ASSUME w.idx = idx, NEW k \in 0 .. m, w.dat = Written(file[k].body) PROVE FALSE
    <3>1. dat'.state = "written" /\ dat'.body = file[k].body /\ idx' = idx
      BY <2>7, FilesOK
    <3>2. Exact(file[k].body, idx.body)
      BY <1>5, <3>1
    <3> QED
      BY <1>1, <2>1, <2>2, <3>2, Shorter
  <2>8. CASE w.idx \in {Emptied, Written(file[m].list)} /\ w.dat = Written(file[m].body)
    <3>1. PICK f : f = file[m]
      OBVIOUS
    <3>2. f.body \in Seq(Cells) /\ f.list \in Seq(Entries) /\ Exact(f.body, f.list)
      BY <1>1, <2>1, <2>2, <3>1, ClearedExact
    <3>3. dat'.state = "written" /\ dat'.body = f.body /\ idx'.body \in {<<>>, f.list}
      BY <2>8, <3>1, FilesOK
    <3>4. idx'.body = <<>> => f.list = <<>>
      BY <1>5, <3>2, <3>3, NoneExact
    <3>5. idx'.body = f.list
      BY <3>3, <3>4
    <3>6. r.id \in IDs /\ f = Rewritten(KeptBy(dat, idx, n), Len(idx.body))[Len(idx.body)]
      BY <1>1, <2>1, <3>1, RecOK
    <3>7. Removes(r.id, RecordedIn(dat.body, idx.body), RecordedIn(f.body, f.list))
      BY <1>1, <2>2, <3>6, ClearedRemoves
    <3>8. r.bytes = Size
      BY <1>7, WholeNext DEF IsCleared
    <3> QED
      BY <1>3, <3>3, <3>5, <3>6, <3>7, <3>8 DEF Benign
  <2> QED
    BY <2>5, <2>6, <2>7, <2>8
<1> QED
  BY <1>4, <1>6, <1>7

\* A write changes one record, or removes it.
LEMMA WriteChanges ==
  ASSUME Inv, Whole, Consistent, NEW p \in Procs, WriteRecord(p)
  PROVE  Benign /\ \E k : counted' = counted \cup {k}
<1>1. PICK r \in NextWrites(p) : \E w \in Outcomes(p, r) :
         /\ Writes(p, r, w) /\ r \in Rec /\ w.result # "died" /\ res'[p] = w.result
         /\ dat' = w.dat /\ idx' = w.idx
         /\ \/ StaysEmpty(w, dat, idx, list[p], r) \/ IsTooOld(w, dat, idx, list[p], r)
            \/ StaysAsRead(w, dat, idx, r)
            \/ \E s \in Seq(Cells), m \in Seq(Entries), y \in IdxFiles :
                 IsAdded(w, dat, idx, list[p], r, s, m, y)
            \/ \E s \in Seq(Cells), m \in Seq(Entries), n \in Nat :
                 IsLaid(w, dat, idx, list[p], r, s, m, n)
            \/ \E n \in Nat : IsCleared(w, dat, idx, r, n)
  BY Wrote
<1>2. PICK w \in Outcomes(p, r) :
         /\ Writes(p, r, w) /\ r \in Rec /\ w.result # "died"
         /\ dat' = w.dat /\ idx' = w.idx
         /\ \/ StaysEmpty(w, dat, idx, list[p], r) \/ IsTooOld(w, dat, idx, list[p], r)
            \/ StaysAsRead(w, dat, idx, r)
            \/ \E s \in Seq(Cells), m \in Seq(Entries), y \in IdxFiles :
                 IsAdded(w, dat, idx, list[p], r, s, m, y)
            \/ \E s \in Seq(Cells), m \in Seq(Entries), n \in Nat :
                 IsLaid(w, dat, idx, list[p], r, s, m, n)
            \/ \E n \in Nat : IsCleared(w, dat, idx, r, n)
  BY <1>1
<1>3. counted' = counted \cup {<<r.id, r.bytes>>} /\ r.id \in IDs /\ r \in Rec
  BY <1>2, RecOK DEF Writes
<1>4. /\ dat \in DatFiles /\ idx \in IdxFiles /\ Len(idx.body) <= MaxEntries
      /\ dat.body \in Seq(Cells) /\ idx.body \in Seq(Entries)
      /\ dat'.body \in Seq(Cells) /\ idx'.body \in Seq(Entries)
  BY <1>2, Types, OutcomeShape, FileOK DEF Inv, WriteShape, WriteSays
<1>5. Recorded' = RecordedIn(dat'.body, idx'.body) /\ Recorded = RecordedIn(dat.body, idx.body)
  BY DEF Recorded
<1>6. CASE StaysEmpty(w, dat, idx, list[p], r)
  <2>1. dat.body = <<>> /\ dat'.body \in {<<>>, Header}
    BY <1>2, <1>4, <1>6, FilesOK, FileOK DEF StaysEmpty
  <2>2. (\A i : ~TextIn(dat.body, i)) /\ \A i : ~TextIn(dat'.body, i)
    BY <2>1, NoText
  <2>3. \A i \in IDs : Recorded[i] = NoFile /\ Recorded'[i] = NoFile
    BY <1>4, <1>5, <2>2, RecordedNone
  <2> QED
    BY <1>3, <2>3 DEF Benign, Alike
<1>7. CASE IsTooOld(w, dat, idx, list[p], r)
  <2>1. OpenCons(w, dat, idx, list[p])
    BY <1>7 DEF IsTooOld, OpenCons
  <2> QED
    BY <1>2, <1>3, <2>1, OpenBenign
<1>8. CASE StaysAsRead(w, dat, idx, r)
  <2>1. OpenCons(w, dat, idx, list[p])
    BY <1>4, <1>8, FilesOK, FileOK DEF StaysAsRead, OpenCons
  <2> QED
    BY <1>2, <1>3, <2>1, OpenBenign
<1>9. ASSUME NEW s \in Seq(Cells), NEW m \in Seq(Entries), NEW y \in IdxFiles,
             IsAdded(w, dat, idx, list[p], r, s, m, y)
      PROVE  Puts(r.id, Recorded, Recorded')
  <2>1. PICK f : f = WithRecord([body |-> s, list |-> m], r)
    OBVIOUS
  <2>2. w.dat = Written(f.body) /\ w.idx = Written(f.list)
    BY <1>2, <1>9, <2>1, AppendedAs DEF IsAdded
  <2>3. dat'.body = f.body /\ idx'.body = f.list
    BY <1>2, <2>2, FilesOK
  <2>4. /\ Exact(s, m) /\ \A k \in 1 .. Len(m) : First(s, m, k).id # r.id
        /\ dat.state = "written" => s = dat.body /\ m = idx.body
        /\ dat.state # "written" => s = Header /\ m = <<>>
    BY <1>9, AddedExact
  <2>5. Puts(r.id, RecordedIn(s, m), RecordedIn(f.body, f.list))
    BY <1>2, <2>1, <2>4, AddedPuts
  <2>6. \A i \in IDs : RecordedIn(s, m)[i] = Recorded[i]
    <3>1. CASE dat.state = "written"
      BY <1>5, <2>4, <3>1
    <3>2. CASE dat.state # "written"
      <4>1. s = Header /\ dat.body = <<>>
        BY <1>4, <2>4, <3>2, FileOK
      <4>2. (\A i : ~TextIn(s, i)) /\ (\A i : ~TextIn(dat.body, i))
        BY <4>1, NoText
      <4>3. /\ \A i \in IDs : RecordedIn(s, m)[i] = NoFile
            /\ \A i \in IDs : RecordedIn(dat.body, idx.body)[i] = NoFile
        BY <1>4, <4>2, RecordedNone
      <4> QED
        BY <1>5, <4>3
    <3> QED
      BY <3>1, <3>2
  <2> QED
    BY <1>5, <2>3, <2>5, <2>6 DEF Puts
<1>10. ASSUME NEW s \in Seq(Cells), NEW m \in Seq(Entries), NEW n \in Nat,
              IsLaid(w, dat, idx, list[p], r, s, m, n)
       PROVE  Puts(r.id, Recorded, Recorded')
  <2>1. PICK v : v = Overlay(s, m[n].pos, Text(r, m[n].len))
    OBVIOUS
  <2>2. LaidOn(r, s, m, n)
    BY <1>10, LaidExact
  <2>3. /\ s = dat.body /\ m = idx.body /\ Exact(s, m) /\ n \in 1 .. Len(m)
        /\ First(s, m, n).id = r.id
    BY <2>2 DEF LaidOn
  <2>4. w = Outcome(Written(v), idx, m, n, "ok")
    BY <1>10, <2>1 DEF IsLaid
  <2>5. dat'.body = v /\ idx'.body = m
    BY <1>2, <2>3, <2>4, FilesOK DEF Outcome
  <2>6. Puts(r.id, RecordedIn(s, m), RecordedIn(v, m))
    BY <1>2, <2>1, <2>3, LaidPuts
  <2> QED
    BY <1>5, <2>3, <2>5, <2>6
<1>11. ASSUME NEW n \in Nat, IsCleared(w, dat, idx, r, n)
       PROVE  Removes(r.id, Recorded, Recorded') /\ <<r.id, Size>> \in counted'
  <2>1. PICK f : f = Rewritten(KeptBy(dat, idx, n), Len(idx.body))[Len(idx.body)]
    OBVIOUS
  <2>2. Exact(dat.body, idx.body) /\ Finds(dat.body, idx.body, r.id, n)
    BY <1>11 DEF IsCleared, Consistent, IndexExact
  <2>3. w.dat = Written(f.body) /\ w.idx = Written(f.list)
    BY <1>2, <1>11, <2>1, SavedAs DEF IsCleared
  <2>4. dat'.body = f.body /\ idx'.body = f.list
    BY <1>2, <2>3, FilesOK
  <2>5. Removes(r.id, RecordedIn(dat.body, idx.body), RecordedIn(f.body, f.list))
    BY <1>3, <1>4, <2>1, <2>2, ClearedRemoves
  <2>6. r.bytes = Size
    BY <1>11, WholeNext DEF IsCleared
  <2> QED
    BY <1>3, <1>5, <2>4, <2>5, <2>6
<1>12. Benign
  BY <1>2, <1>3, <1>6, <1>7, <1>8, <1>9, <1>10, <1>11 DEF Benign
<1> QED
  BY <1>3, <1>12

\* The steps that open or read the files leave them consistent.
LEMMA ReadsBenign ==
  ASSUME Inv, NEW p \in Procs,
         StartUpload(p) \/ StartResume(p) \/ StartResumeOf(p) \/ ListRecords(p)
  PROVE  Benign /\ counted' = counted /\ (Consistent => Consistent')
<1>1. /\ dat \in DatFiles /\ idx \in IdxFiles /\ list[p] \in Seq(Entries)
  BY Types DEF Inv
<1>2. PICK o : o = OpenResumeData(dat, idx, list[p])
  OBVIOUS
<1>3. OpenCons(o, dat, idx, list[p]) /\ OpenShape(o, dat, idx, list[p])
  BY <1>1, <1>2, OpensCons, OpenType
<1>4. ASSUME NEW q, OpenCons(q, dat, idx, list[p]), dat' = q.dat, idx' = q.idx,
             NEW nl \in {q.list, <<>>}, list' = [list EXCEPT ![p] = nl]
      PROVE  Benign /\ (Consistent => Consistent')
  BY <1>4, OpenBenign, ConsRead
<1>5. CASE StartUpload(p) \/ StartResumeOf(p)
  <2>1. /\ dat' = o.dat /\ idx' = o.idx /\ counted' = counted
        /\ list' = [list EXCEPT ![p] = o.list]
    BY <1>2, <1>5 DEF StartUpload, StartResumeOf
  <2> QED
    BY <1>3, <1>4, <2>1
<1>6. CASE StartResume(p)
  <2>1. PICK q : q = LoadResumeInfo(o.dat, o.idx, o.list)
    OBVIOUS
  <2>2. OpenCons(q, o.dat, o.idx, o.list)
    BY <1>3, <2>1, OpensCons DEF OpenShape
  <2>3. OpenCons(q, dat, idx, list[p])
    BY <1>3, <2>2, ConsTwice
  <2>4. /\ dat' = q.dat /\ idx' = q.idx /\ counted' = counted
        /\ \E nl \in {q.list, <<>>} : list' = [list EXCEPT ![p] = nl]
    BY <1>2, <1>6, <2>1 DEF StartResume, Load
  <2> QED
    BY <1>4, <2>3, <2>4
<1>7. CASE ListRecords(p)
  <2>1. PICK q : q = LoadResumeInfo(dat, idx, list[p])
    OBVIOUS
  <2>2. OpenCons(q, dat, idx, list[p])
    BY <1>1, <2>1, OpensCons
  <2>3. /\ dat' = q.dat /\ idx' = q.idx /\ counted' = counted
        /\ \E nl \in {q.list, <<>>} : list' = [list EXCEPT ![p] = nl]
    BY <1>7, <2>1 DEF ListRecords, Load
  <2> QED
    BY <1>4, <2>2, <2>3
<1> QED
  BY <1>5, <1>6, <1>7

\* Each step of the files is one of the records, or none.
LEMMA RefinesStep ==
  ASSUME Inv, Inv', Real', Whole, NEW p \in Procs,
         \/ StartUpload(p) \/ StartResume(p) \/ StartResumeOf(p) \/ ListRecords(p)
         \/ WriteRecord(p) \/ NextRecord(p) \/ GiveUp(p) \/ EndCommand(p)
         \/ ClearFiles(p) \/ Quit(p) \/ DieInWrite(p) \/ DieInClearFiles(p)
  PROVE  Abstract!Next
<1>1. ASSUME counted' = counted, ~Consistent \/ Consistent' \/ Loses(Recorded, Recorded'), Benign
      PROVE  Abstract!Next
  <2>1. PICK new : new = {}
    OBVIOUS
  <2>2. counted' = counted \cup new
    BY <1>1, <2>1
  <2> QED
    BY <1>1, <2>1, <2>2, AbstractStep
<1>2. CASE StartUpload(p) \/ StartResume(p) \/ StartResumeOf(p) \/ ListRecords(p)
  BY <1>1, <1>2, ReadsBenign
<1>3. CASE NextRecord(p) \/ GiveUp(p) \/ EndCommand(p) \/ Quit(p)
  <2>1. UNCHANGED <<dat, idx, counted>>
    BY <1>3 DEF NextRecord, GiveUp, EndCommand, Quit
  <2>2. Consistent => Consistent'
    BY <1>3, ConsSame DEF NextRecord, GiveUp, EndCommand, Quit, Restarted
  <2> QED
    BY <1>1, <2>1, <2>2, SameBenign
<1>4. CASE ClearFiles(p) \/ DieInClearFiles(p)
  <2>1. dat' = Missing /\ idx' \in {idx, Missing} /\ counted' = counted
    BY <1>4 DEF ClearFiles, DieInClearFiles
  <2>2. dat' \in DatFiles /\ idx'.body \in Seq(Entries) /\ dat'.state # "written"
    BY <2>1, FilesOK, EmptyOK, Types DEF Inv
  <2> QED
    BY <1>1, <2>1, <2>2, GoneBenign
<1>5. CASE DieInWrite(p)
  <2>1. PICK r \in NextWrites(p) : \E w \in Outcomes(p, r) :
           /\ w.result = "died" /\ dat' = w.dat /\ idx' = w.idx /\ counted' = counted \cup {<<r.id, r.bytes>>}
    BY <1>5 DEF DieInWrite
  <2>2. PICK w \in Outcomes(p, r) :
           /\ w.result = "died" /\ dat' = w.dat /\ idx' = w.idx /\ counted' = counted \cup {<<r.id, r.bytes>>}
    BY <2>1
  <2>3. PICK new : new = {<<r.id, r.bytes>>}
    OBVIOUS
  <2>4. CASE ~Consistent
    BY <2>2, <2>3, <2>4, AbstractStep
  <2>5. CASE Consistent /\ Consistent'
    <3>1. Benign
      BY <2>2, <2>5, DeadBenign
    <3> QED
      BY <2>2, <2>3, <2>5, <3>1, AbstractStep
  <2>6. CASE Consistent /\ ~Consistent'
    <3>1. Loses(Recorded, Recorded')
      BY <2>2, <2>6, DeadLoses
    <3> QED
      BY <2>2, <2>3, <2>6, <3>1, AbstractStep
  <2> QED
    BY <2>4, <2>5, <2>6
<1>6. CASE WriteRecord(p)
  <2>1. CASE ~Consistent
    <3>1. PICK r \in NextWrites(p) : \E w \in Outcomes(p, r) : Writes(p, r, w)
      BY <1>6, WritesOne
    <3>2. counted' = counted \cup {<<r.id, r.bytes>>}
      BY <3>1 DEF Writes
    <3>3. PICK new : new = {<<r.id, r.bytes>>}
      OBVIOUS
    <3> QED
      BY <2>1, <3>2, <3>3, AbstractStep
  <2>2. CASE Consistent
    <3>1. Benign /\ \E k : counted' = counted \cup {k}
      BY <1>6, <2>2, WriteChanges
    <3>2. PICK new : \E k : new = {k} /\ counted' = counted \cup new
      BY <3>1
    <3>3. Consistent'
      BY <1>6, <2>2, ConsWriteRecord
    <3> QED
      BY <3>1, <3>2, <3>3, AbstractStep
  <2> QED
    BY <2>1, <2>2
<1> QED
  BY <1>2, <1>3, <1>4, <1>5, <1>6

\* The resume files implement the records of ResumeRecords: while they are not damaged a
\* step writes one record, removes that of a finished file with those of complete ones,
\* or removes all with the data file; other records are lost only by damage.
THEOREM FilesAreRecords == Spec => ImplementsRecords
<1>1. Init => Abstract!Init
  <2> SUFFICES ASSUME Init PROVE Abstract!Init
    OBVIOUS
  <2>1. /\ dat.state # "written" /\ idx.state # "written" /\ dat.body = <<>> /\ idx.body = <<>>
        /\ list = [p \in Procs |-> <<>>] /\ counted = {}
    BY FilesOK DEF Init
  <2>2. Consistent
    BY <2>1 DEF Consistent, IndexExact
  <2>3. Recorded = [i \in IDs |-> NoFile]
    <3>1. PICK a : a = RecordedIn(dat.body, idx.body)
      OBVIOUS
    <3>2. dat.body \in Seq(Cells) /\ idx.body \in Seq(Entries) /\ \A i : ~TextIn(dat.body, i)
      BY <2>1, EmptyOK, NoText
    <3>3. a \in [IDs -> (0 .. Size) \cup {NoFile}]
      BY <3>1, <3>2, RecordedType
    <3>4. \A i \in IDs : a[i] = NoFile
      BY <3>1, <3>2, RecordedNone
    <3> QED
      BY <3>1, <3>3, <3>4 DEF Recorded
  <2> QED
    BY <2>1, <2>2, <2>3 DEF Abstract!Init
<1>2. Inv /\ Inv' /\ Real' /\ Whole /\ [Next]_vars => [Abstract!Next]_(Abstract!vars)
  <2>1. ASSUME UNCHANGED vars PROVE UNCHANGED Abstract!vars
    <3>1. UNCHANGED <<dat, idx, list, counted>>
      BY <2>1 DEF vars
    <3>2. Recorded' = Recorded /\ (Consistent' <=> Consistent)
      BY <3>1 DEF Recorded, Consistent, IndexExact
    <3> QED
      BY <3>1, <3>2 DEF Abstract!vars
  <2>2. ASSUME Inv, Inv', Real', Whole, Next PROVE Abstract!Next
    BY <2>2, RefinesStep DEF Next
  <2> QED
    BY <2>1, <2>2
<1> QED
  BY <1>1, <1>2, InvAlways, RealAlways, WholeAlways, PTL DEF Spec, ImplementsRecords, Abstract!Spec
=============================================================================
