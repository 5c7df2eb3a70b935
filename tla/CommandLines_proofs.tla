------------------------ MODULE CommandLines_proofs ------------------------
(***************************************************************************)
(* What a line leaves in the arguments of its command does not reach the   *)
(* next one, for any command and any lines.  Between two lines an argument *)
(* keeps nothing but, if it is an option for many values, blank ones; and  *)
(* parsing a line preserves that two rows of arguments differ in nothing   *)
(* else: a simulation, from word to word.                                  *)
(*                                                                         *)
(* And the text of a line loses nothing: what AddActions and AddAction lay *)
(* out SplitString reads again, word for word, and what was added last can *)
(* be taken off, for words of any length and lines of any number of them.  *)
(***************************************************************************)
EXTENDS CommandProps, Console_proofs

\* FoldLeft with Offer, which is about no more than the state and the word.
OfferTo(c, s, word) == Offer(s, word)
Offers == INSTANCE LeftFolds WITH Op <- OfferTo

-----------------------------------------------------------------------------
(* Types.                                                                  *)

\* A set of texts, in which the empty one must be.
HasEmpty(T) == "" \in T

\* The words of these texts.
WordSet(T) == [flag : T, text : T]
Kinds == {"value", "switch", "multi", "words", "unlabeled"}
ArgSet(T) ==
  [kind : Kinds, name : T, required : BOOLEAN, set : BOOLEAN, vals : Seq(WordSet(T))]

\* An argument as SetupCommands leaves it.
NewArgs(T) ==
  {a \in ArgSet(T) :
     a.set = FALSE /\ a.vals = <<>> /\ (a.kind = "multi" => a.required = FALSE)}

\* The arguments fresh at a later time: only whether they are set and what to changes.
ArgsOf(fresh, T) ==
  {args \in [DOMAIN fresh -> ArgSet(T)] :
     \A k \in DOMAIN fresh :
       /\ args[k].kind = fresh[k].kind /\ args[k].name = fresh[k].name
       /\ args[k].required = fresh[k].required}

StatesOf(fresh, T) ==
  [args : ArgsOf(fresh, T), awaits : {0} \cup DOMAIN fresh, ok : BOOLEAN, help : BOOLEAN,
   found : Nat]

\* Two arguments that differ, if at all, in how many blank values an option for many
\* values has.
Alike(a, b) ==
  /\ a.set = b.set
  /\ IF a.kind = "multi" THEN Range(a.vals) \ {NoText} = Range(b.vals) \ {NoText}
     ELSE a.vals = b.vals

AllAlike(args, brgs) == \A k \in DOMAIN args : Alike(args[k], brgs[k])

SameStates(s, t) ==
  /\ s.awaits = t.awaits /\ s.ok = t.ok /\ s.help = t.help /\ s.found = t.found
  /\ AllAlike(s.args, t.args)

-----------------------------------------------------------------------------
(* One word.                                                               *)

\* A word and what it holds.
LEMMA WordOK ==
  ASSUME NEW T, HasEmpty(T), NEW w \in WordSet(T)
  PROVE  w.flag \in T /\ w.text \in T /\ Word(w.text) \in WordSet(T) /\ NoText \in WordSet(T)
<1>1. w.flag \in T /\ w.text \in T
  BY DEF WordSet
<1> QED
  BY <1>1 DEF WordSet, Word, NoText, HasEmpty

\* One more value.
LEMMA RangeAppend ==
  ASSUME NEW T, NEW v \in Seq(WordSet(T)), NEW w \in WordSet(T)
  PROVE  Append(v, w) \in Seq(WordSet(T)) /\ Range(Append(v, w)) = Range(v) \cup {w}
<1>1. /\ Append(v, w) \in Seq(WordSet(T)) /\ Len(Append(v, w)) = Len(v) + 1
      /\ Append(v, w)[Len(v) + 1] = w
      /\ \A i \in 1 .. Len(v) : Append(v, w)[i] = v[i]
  OBVIOUS
<1>2. DOMAIN v = 1 .. Len(v) /\ DOMAIN Append(v, w) = 1 .. Len(v) + 1 /\ Len(v) \in Nat
  OBVIOUS
<1>3. 1 .. Len(v) + 1 = (1 .. Len(v)) \cup {Len(v) + 1}
  BY <1>2
<1> QED
  BY <1>1, <1>2, <1>3 DEF Range

\* An argument that has taken a word.
LEMMA TakenOK ==
  ASSUME NEW T, NEW a \in ArgSet(T), NEW w \in WordSet(T)
  PROVE  /\ Taken(a, w) \in ArgSet(T)
         /\ Taken(a, w).kind = a.kind /\ Taken(a, w).name = a.name
         /\ Taken(a, w).required = a.required /\ Taken(a, w).set = TRUE
         /\ Taken(a, w).vals =
              IF a.kind = "switch" THEN (IF a.vals = <<>> THEN <<w>> ELSE <<>>)
              ELSE IF a.kind \in {"multi", "words"} THEN Append(a.vals, w)
              ELSE <<w>>
<1> DEFINE vals == IF a.kind = "switch" THEN (IF a.vals = <<>> THEN <<w>> ELSE <<>>)
                   ELSE IF a.kind \in {"multi", "words"} THEN Append(a.vals, w)
                   ELSE <<w>>
<1>1. Taken(a, w) = [a EXCEPT !.set = TRUE, !.vals = vals]
  BY DEF Taken
<1>2. a.vals \in Seq(WordSet(T)) /\ a.kind \in Kinds
  BY DEF ArgSet
<1>3. vals \in Seq(WordSet(T))
  BY <1>2
<1> HIDE DEF vals
<1>4. [a EXCEPT !.set = TRUE, !.vals = vals] \in ArgSet(T)
  BY <1>3 DEF ArgSet
<1>5. /\ Taken(a, w).vals = vals /\ Taken(a, w).set = TRUE
      /\ Taken(a, w).kind = a.kind /\ Taken(a, w).name = a.name
      /\ Taken(a, w).required = a.required
  BY <1>1 DEF ArgSet
<1> QED
  BY <1>1, <1>4, <1>5 DEF vals

\* Arguments that are alike take the same words, and are alike afterwards.
LEMMA TakenAlike ==
  ASSUME NEW T, NEW a \in ArgSet(T), NEW b \in ArgSet(T), NEW w \in WordSet(T),
         a.kind = b.kind, a.name = b.name, a.required = b.required, Alike(a, b),
         a.kind = "multi" => a.required = FALSE
  PROVE  /\ Takes(a, w) <=> Takes(b, w)
         /\ Alike(Taken(a, w), Taken(b, w))
         /\ Counts(Taken(a, w)) = Counts(Taken(b, w))
<1>0. ASSUME NEW c \in ArgSet(T)
      PROVE  /\ Taken(c, w).kind = c.kind /\ Taken(c, w).required = c.required
             /\ Taken(c, w).set = TRUE
             /\ Taken(c, w).vals =
                  IF c.kind = "switch" THEN (IF c.vals = <<>> THEN <<w>> ELSE <<>>)
                  ELSE IF c.kind \in {"multi", "words"} THEN Append(c.vals, w) ELSE <<w>>
  BY ONLY TakenOK, c \in ArgSet(T), w \in WordSet(T)
<1>1. Takes(a, w) <=> Takes(b, w)
  BY DEF Takes, UnlabeledTakes, Alike
<1>2. Alike(Taken(a, w), Taken(b, w))
  <2>1. CASE a.kind = "multi"
    <3>1. Range(Append(a.vals, w)) \ {NoText} = Range(Append(b.vals, w)) \ {NoText}
      <4>1. a.vals \in Seq(WordSet(T)) /\ b.vals \in Seq(WordSet(T))
        BY DEF ArgSet
      <4>2. Range(a.vals) \ {NoText} = Range(b.vals) \ {NoText}
        BY <2>1 DEF Alike
      <4> QED
        BY <4>1, <4>2, RangeAppend
    <3> QED
      BY <2>1, <3>1, <1>0 DEF Alike
  <2>2. CASE a.kind # "multi"
    <3>1. a.vals = b.vals
      BY <2>2 DEF Alike
    <3>2. Taken(a, w).vals = Taken(b, w).vals
      BY ONLY <1>0, <3>1, a \in ArgSet(T), b \in ArgSet(T), a.kind = b.kind
    <3>3. Taken(a, w).set = Taken(b, w).set /\ Taken(a, w).kind = a.kind
      BY <1>0
    <3> QED
      BY <2>2, <3>2, <3>3 DEF Alike
  <2> QED
    BY <2>1, <2>2
<1>3. Counts(Taken(a, w)) = Counts(Taken(b, w))
  <2>0. /\ Taken(a, w).required = a.required /\ Taken(b, w).required = a.required
        /\ Taken(a, w).kind = a.kind
    BY <1>0
  <2>1. CASE a.kind = "multi"
    <3>1. ~Taken(a, w).required /\ ~Taken(b, w).required
      BY <2>0, <2>1
    <3> QED
      BY <3>1 DEF Counts
  <2>2. CASE a.kind # "multi"
    <3>1. Taken(a, w).vals = Taken(b, w).vals
      BY <1>2, <2>0, <2>2 DEF Alike
    <3> QED
      BY <2>0, <3>1 DEF Counts
  <2> QED
    BY <2>1, <2>2
<1> QED
  BY <1>1, <1>2, <1>3

\* A word given to an argument: the others keep what they have.
LEMMA GiveOK ==
  ASSUME NEW T, NEW fresh \in Seq(NewArgs(T)), NEW s \in StatesOf(fresh, T),
         NEW k \in DOMAIN fresh, NEW w \in WordSet(T)
  PROVE  LET z == Give(s, k, w)
         IN  /\ z \in StatesOf(fresh, T)
             /\ z.args = [s.args EXCEPT ![k] = Taken(s.args[k], w)]
             /\ z.awaits = 0 /\ z.ok = s.ok
             /\ z.found = s.found + Counts(Taken(s.args[k], w))
             /\ z.help = (s.help \/ fresh[k].name = "?")
<1> DEFINE a == Taken(s.args[k], w)
           args == [s.args EXCEPT ![k] = a]
<1>1. s.args \in ArgsOf(fresh, T) /\ s.args[k] \in ArgSet(T) /\ DOMAIN s.args = DOMAIN fresh
  BY DEF StatesOf, ArgsOf
<1>2. a \in ArgSet(T) /\ a.kind = fresh[k].kind /\ a.name = fresh[k].name
        /\ a.required = fresh[k].required
  <2>1. /\ s.args[k].kind = fresh[k].kind /\ s.args[k].name = fresh[k].name
        /\ s.args[k].required = fresh[k].required
    BY <1>1 DEF ArgsOf
  <2>2. PICK c \in ArgSet(T) : c = s.args[k]
    BY <1>1
  <2>3. /\ Taken(c, w) \in ArgSet(T) /\ Taken(c, w).kind = c.kind
        /\ Taken(c, w).name = c.name /\ Taken(c, w).required = c.required
    BY ONLY TakenOK, c \in ArgSet(T), w \in WordSet(T)
  <2>4. a = Taken(c, w)
    BY <2>2
  <2> HIDE DEF a
  <2> QED
    BY <2>1, <2>2, <2>3, <2>4
<1>3. Counts(a) \in Nat
  BY DEF Counts
<1> HIDE DEF a
<1>4. args \in ArgsOf(fresh, T)
  <2>1. args \in [DOMAIN fresh -> ArgSet(T)]
    BY <1>1, <1>2 DEF ArgsOf
  <2>2. \A i \in DOMAIN fresh : args[i] = IF i = k THEN a ELSE s.args[i]
    BY <1>1
  <2> HIDE DEF args
  <2> QED
    BY <1>1, <1>2, <2>1, <2>2 DEF ArgsOf
<1>5. Give(s, k, w) = [s EXCEPT !.args = args, !.awaits = 0, !.found = @ + Counts(a),
                                !.help = @ \/ a.name = "?"]
  BY DEF Give, a, StatesOf
<1> HIDE DEF args
<1>6. /\ Give(s, k, w).args = args /\ Give(s, k, w).awaits = 0 /\ Give(s, k, w).ok = s.ok
      /\ Give(s, k, w).found = s.found + Counts(a)
      /\ Give(s, k, w).help = (s.help \/ fresh[k].name = "?")
  BY <1>2, <1>5 DEF StatesOf
<1>7. Give(s, k, w) \in StatesOf(fresh, T)
  <2>1. Give(s, k, w) = [args |-> args, awaits |-> 0, ok |-> s.ok,
                         help |-> s.help \/ a.name = "?", found |-> s.found + Counts(a)]
    BY <1>5 DEF StatesOf
  <2>2. s.found + Counts(a) \in Nat /\ s.ok \in BOOLEAN /\ (s.help \/ a.name = "?") \in BOOLEAN
    BY <1>3 DEF StatesOf
  <2> QED
    BY <1>4, <2>1, <2>2 DEF StatesOf
<1> QED
  BY <1>6, <1>7 DEF args, a

\* What the console knows of an argument at any time.
LEMMA ArgOK ==
  ASSUME NEW T, NEW fresh, NEW args \in ArgsOf(fresh, T), NEW k \in DOMAIN fresh
  PROVE  /\ args[k] \in ArgSet(T) /\ args[k].kind = fresh[k].kind
         /\ args[k].name = fresh[k].name /\ args[k].required = fresh[k].required
         /\ k \in DOMAIN args
BY DEF ArgsOf

\* No option for many values is required: XorHandler::check, which looks at how many
\* there are, passes it over.
LEMMA MultiOptional ==
  ASSUME NEW T, NEW fresh \in Seq(NewArgs(T)), NEW k \in DOMAIN fresh, fresh[k].kind = "multi"
  PROVE  fresh[k].required = FALSE
<1>1. fresh[k] \in NewArgs(T)
  OBVIOUS
<1> QED
  BY <1>1 DEF NewArgs

\* What one word does to one argument.
LEMMA PairOK ==
  ASSUME NEW T, NEW fresh \in Seq(NewArgs(T)), NEW s \in StatesOf(fresh, T),
         NEW t \in StatesOf(fresh, T), SameStates(s, t), NEW w \in WordSet(T),
         NEW k \in DOMAIN fresh
  PROVE  /\ Takes(s.args[k], w) <=> Takes(t.args[k], w)
         /\ Alike(Taken(s.args[k], w), Taken(t.args[k], w))
         /\ Counts(Taken(s.args[k], w)) = Counts(Taken(t.args[k], w))
<1>0. ASSUME NEW z \in StatesOf(fresh, T)
      PROVE  /\ z.args[k] \in ArgSet(T) /\ k \in DOMAIN z.args
             /\ z.args[k].kind = fresh[k].kind /\ z.args[k].name = fresh[k].name
             /\ z.args[k].required = fresh[k].required
  <2>1. z.args \in ArgsOf(fresh, T)
    BY DEF StatesOf
  <2> QED
    BY ONLY ArgOK, k \in DOMAIN fresh, <2>1
<1>1. PICK a \in ArgSet(T) : a = s.args[k]
  BY <1>0
<1>2. PICK b \in ArgSet(T) : b = t.args[k]
  BY <1>0
<1>3. a.kind = b.kind /\ a.name = b.name /\ a.required = b.required
        /\ (a.kind = "multi" => a.required = FALSE)
  <2>1. a.kind = fresh[k].kind /\ a.name = fresh[k].name /\ a.required = fresh[k].required
    BY <1>0, <1>1
  <2>2. b.kind = fresh[k].kind /\ b.name = fresh[k].name /\ b.required = fresh[k].required
    BY <1>0, <1>2
  <2>3. fresh[k].kind = "multi" => fresh[k].required = FALSE
    BY ONLY MultiOptional, fresh \in Seq(NewArgs(T)), k \in DOMAIN fresh
  <2> QED
    BY ONLY <2>1, <2>2, <2>3
<1>4. Alike(a, b)
  <2>1. k \in DOMAIN s.args
    BY <1>0
  <2> QED
    BY <1>1, <1>2, <2>1 DEF SameStates, AllAlike
<1>5. /\ Takes(a, w) <=> Takes(b, w)
      /\ Alike(Taken(a, w), Taken(b, w))
      /\ Counts(Taken(a, w)) = Counts(Taken(b, w))
  BY ONLY TakenAlike, <1>3, <1>4, a \in ArgSet(T), b \in ArgSet(T), w \in WordSet(T)
<1> QED
  BY <1>1, <1>2, <1>5

\* States that are the same but for blank values stay so when a word is given.
LEMMA GiveSame ==
  ASSUME NEW T, NEW fresh \in Seq(NewArgs(T)), NEW s \in StatesOf(fresh, T),
         NEW t \in StatesOf(fresh, T), SameStates(s, t), NEW w \in WordSet(T),
         NEW k \in DOMAIN fresh
  PROVE  SameStates(Give(s, k, w), Give(t, k, w))
<1> DEFINE y == Give(s, k, w)
           z == Give(t, k, w)
<1>1. y.args = [s.args EXCEPT ![k] = Taken(s.args[k], w)]
        /\ y.awaits = 0 /\ y.ok = s.ok /\ y.found = s.found + Counts(Taken(s.args[k], w))
        /\ y.help = (s.help \/ fresh[k].name = "?")
  BY ONLY GiveOK, fresh \in Seq(NewArgs(T)), s \in StatesOf(fresh, T), w \in WordSet(T),
          k \in DOMAIN fresh
<1>2. z.args = [t.args EXCEPT ![k] = Taken(t.args[k], w)]
        /\ z.awaits = 0 /\ z.ok = t.ok /\ z.found = t.found + Counts(Taken(t.args[k], w))
        /\ z.help = (t.help \/ fresh[k].name = "?")
  BY ONLY GiveOK, fresh \in Seq(NewArgs(T)), t \in StatesOf(fresh, T), w \in WordSet(T),
          k \in DOMAIN fresh
<1> HIDE DEF y, z
<1>3. DOMAIN s.args = DOMAIN fresh /\ DOMAIN t.args = DOMAIN fresh
  BY DEF StatesOf, ArgsOf
<1>4. AllAlike(y.args, z.args)
  <2>1. ASSUME NEW i \in DOMAIN fresh PROVE Alike(y.args[i], z.args[i])
    <3>1. CASE i = k
      <4>1. y.args[i] = Taken(s.args[k], w) /\ z.args[i] = Taken(t.args[k], w)
        BY <1>1, <1>2, <1>3, <3>1
      <4> QED
        BY <4>1, PairOK
    <3>2. CASE i # k
      <4>1. y.args[i] = s.args[i] /\ z.args[i] = t.args[i]
        BY <1>1, <1>2, <1>3, <3>2
      <4> QED
        BY <4>1, <1>3 DEF SameStates, AllAlike
    <3> QED
      BY <3>1, <3>2
  <2>2. DOMAIN y.args = DOMAIN fresh
    BY <1>1, <1>3
  <2> QED
    BY <2>1, <2>2 DEF AllAlike
<1>5. s.awaits = t.awaits /\ s.ok = t.ok /\ s.help = t.help /\ s.found = t.found
  BY DEF SameStates
<1>6. Counts(Taken(s.args[k], w)) = Counts(Taken(t.args[k], w))
  BY PairOK
<1>7. SameStates(y, z)
  BY <1>1, <1>2, <1>4, <1>5, <1>6 DEF SameStates
<1> QED
  BY <1>7 DEF y, z

-----------------------------------------------------------------------------
(* One word offered to all the arguments.                                  *)

Takers(s, w) == {k \in DOMAIN s.args : Takes(s.args[k], w)}
First(s, w) == Min(Takers(s, w))

\* FoldLeft with Offer, as LeftFolds has it.
LEMMA Fold ==
  ASSUME NEW base, NEW seq
  PROVE  FoldLeft(Offer, base, seq) = Offers!Folded({}, base, seq)
BY DEF FoldLeft, MapThenFoldSet, Max, Offers!Folded, Offers!FoldLeft, Offers!MapThenFoldSet,
       Offers!Max, OfferTo

\* Who takes a word is an argument.
LEMMA FirstTakes ==
  ASSUME NEW T, NEW fresh \in Seq(NewArgs(T)), NEW s \in StatesOf(fresh, T), NEW w,
         Takers(s, w) # {}
  PROVE  First(s, w) \in DOMAIN fresh
<1>1. DOMAIN s.args = DOMAIN fresh /\ DOMAIN fresh \subseteq Nat
  BY DEF StatesOf, ArgsOf
<1>2. Takers(s, w) \in SUBSET Nat /\ Takers(s, w) \subseteq DOMAIN fresh
  BY <1>1 DEF Takers
<1> QED
  BY <1>2, FirstOf DEF First

\* What becomes of a word, case by case.
LEMMA OfferCases ==
  ASSUME NEW s, NEW w
  PROVE  Offer(s, w) =
           IF ~s.ok THEN s
           ELSE IF s.awaits # 0 THEN Give(s, s.awaits, w)
           ELSE IF Takers(s, w) = {} THEN [s EXCEPT !.ok = s.help]
           ELSE IF s.args[First(s, w)].kind \in {"value", "switch"} /\ s.args[First(s, w)].set
                THEN [s EXCEPT !.ok = FALSE]
           ELSE IF s.args[First(s, w)].kind \in {"value", "multi"} /\ w.text = ""
                THEN [s EXCEPT !.awaits = First(s, w)]
           ELSE Give(s, First(s, w), IF s.args[First(s, w)].kind \in {"value", "multi"}
                                     THEN Word(w.text) ELSE w)
BY DEF Offer, Takers, First

\* A word leaves a state a state.
LEMMA OfferOK ==
  ASSUME NEW T, HasEmpty(T), NEW fresh \in Seq(NewArgs(T)), NEW s \in StatesOf(fresh, T),
         NEW w \in WordSet(T)
  PROVE  Offer(s, w) \in StatesOf(fresh, T)
<1>1. ASSUME NEW k \in DOMAIN fresh, NEW x \in WordSet(T)
      PROVE  Give(s, k, x) \in StatesOf(fresh, T)
  BY ONLY GiveOK, fresh \in Seq(NewArgs(T)), s \in StatesOf(fresh, T), x \in WordSet(T),
          k \in DOMAIN fresh
<1>2. Word(w.text) \in WordSet(T)
  BY ONLY WordOK, HasEmpty(T), w \in WordSet(T)
<1>3. s.awaits \in {0} \cup DOMAIN fresh /\ s.help \in BOOLEAN
  BY DEF StatesOf
<1>4. ASSUME NEW b \in BOOLEAN PROVE [s EXCEPT !.ok = b] \in StatesOf(fresh, T)
  BY DEF StatesOf
<1>5. ASSUME NEW k \in DOMAIN fresh PROVE [s EXCEPT !.awaits = k] \in StatesOf(fresh, T)
  BY DEF StatesOf
<1> DEFINE k == First(s, w)
           wants == s.args[k].kind \in {"value", "multi"}
<1>6. CASE ~s.ok \/ s.awaits # 0 \/ Takers(s, w) = {}
  BY <1>1, <1>3, <1>4, <1>6, OfferCases
<1>7. CASE s.ok /\ s.awaits = 0 /\ Takers(s, w) # {}
  <2>1. k \in DOMAIN fresh
    BY ONLY FirstTakes, fresh \in Seq(NewArgs(T)), s \in StatesOf(fresh, T), <1>7
  <2>2. (IF wants THEN Word(w.text) ELSE w) \in WordSet(T)
    BY <1>2
  <2>3. Give(s, k, IF wants THEN Word(w.text) ELSE w) \in StatesOf(fresh, T)
    BY <1>1, <2>1, <2>2
  <2> QED
    BY <1>4, <1>5, <1>7, <2>1, <2>3, OfferCases
<1> QED
  BY <1>6, <1>7, <1>3 DEF StatesOf

\* The same arguments take it.
LEMMA SameTakers ==
  ASSUME NEW T, NEW fresh \in Seq(NewArgs(T)), NEW s \in StatesOf(fresh, T),
         NEW t \in StatesOf(fresh, T), SameStates(s, t), NEW w \in WordSet(T)
  PROVE  Takers(s, w) = Takers(t, w)
<1>1. DOMAIN s.args = DOMAIN fresh /\ DOMAIN t.args = DOMAIN fresh
  BY DEF StatesOf, ArgsOf
<1>2. ASSUME NEW k \in DOMAIN fresh PROVE Takes(s.args[k], w) <=> Takes(t.args[k], w)
  BY PairOK
<1> QED
  BY <1>1, <1>2 DEF Takers

\* States that are the same but for blank values are so after any word.
LEMMA OfferSame ==
  ASSUME NEW T, HasEmpty(T), NEW fresh \in Seq(NewArgs(T)), NEW s \in StatesOf(fresh, T),
         NEW t \in StatesOf(fresh, T), SameStates(s, t), NEW w \in WordSet(T)
  PROVE  SameStates(Offer(s, w), Offer(t, w))
<1>1. ASSUME NEW k \in DOMAIN fresh, NEW x \in WordSet(T)
      PROVE  SameStates(Give(s, k, x), Give(t, k, x))
  BY ONLY GiveSame, fresh \in Seq(NewArgs(T)), s \in StatesOf(fresh, T), x \in WordSet(T),
          t \in StatesOf(fresh, T), SameStates(s, t), k \in DOMAIN fresh
<1>2. Word(w.text) \in WordSet(T)
  BY ONLY WordOK, HasEmpty(T), w \in WordSet(T)
<1>3. /\ s.awaits = t.awaits /\ s.ok = t.ok /\ s.help = t.help /\ s.found = t.found
      /\ AllAlike(s.args, t.args) /\ s.awaits \in {0} \cup DOMAIN fresh
  BY DEF SameStates, StatesOf
<1>4. ASSUME NEW b \in BOOLEAN PROVE SameStates([s EXCEPT !.ok = b], [t EXCEPT !.ok = b])
  BY <1>3 DEF SameStates, StatesOf
<1>5. ASSUME NEW k \in DOMAIN fresh
      PROVE  SameStates([s EXCEPT !.awaits = k], [t EXCEPT !.awaits = k])
  BY <1>3 DEF SameStates, StatesOf
<1>6. Takers(s, w) = Takers(t, w) /\ First(s, w) = First(t, w)
  BY SameTakers DEF First
<1>7. s.help \in BOOLEAN
  BY DEF StatesOf
<1>8. CASE ~s.ok \/ s.awaits # 0 \/ Takers(s, w) = {}
  <2>1. CASE ~s.ok
    BY <2>1, <1>3, OfferCases
  <2>2. CASE s.ok /\ s.awaits # 0
    BY <2>2, <1>1, <1>3, OfferCases
  <2>3. CASE s.ok /\ s.awaits = 0 /\ Takers(s, w) = {}
    BY <2>3, <1>3, <1>4, <1>6, <1>7, OfferCases
  <2> QED
    BY <1>8, <2>1, <2>2, <2>3, <1>3
<1>9. CASE s.ok /\ s.awaits = 0 /\ Takers(s, w) # {}
  <2> DEFINE k == First(s, w)
             wants == s.args[k].kind \in {"value", "multi"}
             x == IF wants THEN Word(w.text) ELSE w
  <2>1. k \in DOMAIN fresh
    BY ONLY FirstTakes, fresh \in Seq(NewArgs(T)), s \in StatesOf(fresh, T), <1>9
  <2>2. s.args[k].kind = t.args[k].kind /\ s.args[k].set = t.args[k].set
    <3>1. s.args \in ArgsOf(fresh, T) /\ t.args \in ArgsOf(fresh, T)
      BY DEF StatesOf
    <3>2. DOMAIN s.args = DOMAIN fresh
      BY <3>1 DEF ArgsOf
    <3> HIDE DEF k
    <3>3. s.args[k].kind = t.args[k].kind
      BY <2>1, <3>1 DEF ArgsOf
    <3> QED
      BY <1>3, <2>1, <3>2, <3>3 DEF AllAlike, Alike
  <2>3. x \in WordSet(T)
    BY <1>2
  <2>4. Offer(s, w) = IF s.args[k].kind \in {"value", "switch"} /\ s.args[k].set
                      THEN [s EXCEPT !.ok = FALSE]
                      ELSE IF wants /\ w.text = "" THEN [s EXCEPT !.awaits = k]
                      ELSE Give(s, k, x)
    BY <1>9, OfferCases
  <2>5. Offer(t, w) = IF s.args[k].kind \in {"value", "switch"} /\ s.args[k].set
                      THEN [t EXCEPT !.ok = FALSE]
                      ELSE IF wants /\ w.text = "" THEN [t EXCEPT !.awaits = k]
                      ELSE Give(t, k, x)
    BY <1>3, <1>6, <1>9, <2>2, OfferCases
  <2>6. SameStates(Give(s, k, x), Give(t, k, x))
    <3> HIDE DEF k, x
    <3> QED  BY <2>1, <2>3, <1>1
  <2> HIDE DEF k, x, wants
  <2>7. SameStates([s EXCEPT !.awaits = k], [t EXCEPT !.awaits = k])
    BY <2>1, <1>5
  <2> QED
    BY <2>4, <2>5, <2>6, <2>7, <1>4
<1> QED
  BY <1>8, <1>9

-----------------------------------------------------------------------------
(* A line.                                                                 *)

\* The same of all the words of a line.
LEMMA WordsOK ==
  ASSUME NEW T, HasEmpty(T), NEW fresh \in Seq(NewArgs(T)), NEW s \in StatesOf(fresh, T),
         NEW t \in StatesOf(fresh, T), SameStates(s, t), NEW words \in Seq(WordSet(T))
  PROVE  /\ FoldLeft(Offer, s, words) \in StatesOf(fresh, T)
         /\ SameStates(FoldLeft(Offer, s, words), FoldLeft(Offer, t, words))
<1> DEFINE n == Len(words)
<1>1. n \in Nat /\ DOMAIN words = 1 .. n /\ \A k \in 1 .. n : words[k] \in WordSet(T)
  OBVIOUS
<1>2. PICK H : Offers!IsTrace(H, {}, s, words, n) /\ FoldLeft(Offer, s, words) = H[n]
  BY <1>1, Offers!FoldTrace, Fold
<1>3. PICK K : Offers!IsTrace(K, {}, t, words, n) /\ FoldLeft(Offer, t, words) = K[n]
  BY <1>1, Offers!FoldTrace, Fold
<1> HIDE DEF n
<1> DEFINE G == {k \in 0 .. n : /\ H[k] \in StatesOf(fresh, T) /\ K[k] \in StatesOf(fresh, T)
                                /\ SameStates(H[k], K[k])}
<1>4. 0 \in G
  <2>1. H[0] = s /\ K[0] = t /\ 0 \in 0 .. n
    BY <1>1, <1>2, <1>3 DEF Offers!IsTrace
  <2> QED
    BY <2>1
<1>5. ASSUME NEW k \in 1 .. n, k - 1 \in G PROVE k \in G
  <2>1. H[k] = Offer(H[k - 1], words[k]) /\ K[k] = Offer(K[k - 1], words[k])
    BY <1>2, <1>3 DEF Offers!IsTrace, OfferTo
  <2>2. PICK y \in StatesOf(fresh, T) : y = H[k - 1]
    BY <1>5
  <2>3. PICK z \in StatesOf(fresh, T) : z = K[k - 1]
    BY <1>5
  <2>4. PICK w \in WordSet(T) : w = words[k]
    BY <1>1
  <2>5. SameStates(y, z)
    BY <1>5, <2>2, <2>3
  <2>6. Offer(y, w) \in StatesOf(fresh, T)
    BY ONLY OfferOK, HasEmpty(T), fresh \in Seq(NewArgs(T)), y \in StatesOf(fresh, T),
            w \in WordSet(T)
  <2>7. Offer(z, w) \in StatesOf(fresh, T)
    BY ONLY OfferOK, HasEmpty(T), fresh \in Seq(NewArgs(T)), z \in StatesOf(fresh, T),
            w \in WordSet(T)
  <2>8. SameStates(Offer(y, w), Offer(z, w))
    BY ONLY OfferSame, <2>5, HasEmpty(T), fresh \in Seq(NewArgs(T)), y \in StatesOf(fresh, T),
            z \in StatesOf(fresh, T), w \in WordSet(T)
  <2> QED
    BY <2>1, <2>2, <2>3, <2>4, <2>6, <2>7, <2>8
<1>6. \A k \in 0 .. n : k \in G
  <2> HIDE DEF G
  <2> QED  BY <1>1, <1>4, <1>5, Offers!UpTo
<1>7. n \in G
  BY <1>1, <1>6
<1> QED
  BY <1>2, <1>3, <1>7

\* The arguments fresh after any number of lines: nothing is set, but an option for many
\* values may have blank ones.
Stale(fresh, T) ==
  {args \in ArgsOf(fresh, T) :
     \A k \in DOMAIN fresh :
       /\ args[k].set = FALSE
       /\ IF fresh[k].kind = "multi" THEN Range(args[k].vals) \subseteq {NoText}
          ELSE args[k].vals = <<>>}

\* New arguments hold nothing.
LEMMA FreshIsStale ==
  ASSUME NEW T, NEW fresh \in Seq(NewArgs(T))
  PROVE  fresh \in Stale(fresh, T)
<1>1. fresh \in [DOMAIN fresh -> NewArgs(T)]
  OBVIOUS
<1>2. fresh \in ArgsOf(fresh, T)
  BY <1>1 DEF ArgsOf, NewArgs
<1>3. \A k \in DOMAIN fresh : fresh[k].set = FALSE /\ fresh[k].vals = <<>>
  BY <1>1 DEF NewArgs
<1>4. Range(<<>>) = {}
  BY DEF Range
<1> QED
  BY <1>2, <1>3, <1>4 DEF Stale

\* Nothing but blank values tells two arguments that have been reset apart.
LEMMA StaleAlike ==
  ASSUME NEW T, NEW fresh \in Seq(NewArgs(T)), NEW a \in Stale(fresh, T),
         NEW b \in Stale(fresh, T)
  PROVE  Start(a) \in StatesOf(fresh, T) /\ SameStates(Start(a), Start(b))
<1>1. a \in ArgsOf(fresh, T) /\ b \in ArgsOf(fresh, T)
  BY DEF Stale
<1>2. Start(a) \in StatesOf(fresh, T)
  BY <1>1 DEF Start, StatesOf
<1>3. ASSUME NEW k \in DOMAIN fresh PROVE Alike(a[k], b[k])
  <2>1. a[k].kind = fresh[k].kind
    BY <1>1 DEF ArgsOf
  <2>2. a[k].set = b[k].set
    BY DEF Stale
  <2>3. CASE fresh[k].kind = "multi"
    <3>1. Range(a[k].vals) \ {NoText} = Range(b[k].vals) \ {NoText}
      BY <2>3 DEF Stale
    <3> QED
      BY <2>1, <2>2, <2>3, <3>1 DEF Alike
  <2>4. CASE fresh[k].kind # "multi"
    <3>1. a[k].vals = b[k].vals
      BY <2>4 DEF Stale
    <3> QED
      BY <2>1, <2>2, <2>4, <3>1 DEF Alike
  <2> QED
    BY <2>3, <2>4
<1>4. AllAlike(a, b)
  BY <1>1, <1>3 DEF AllAlike, ArgsOf
<1> QED
  BY <1>2, <1>4 DEF SameStates, Start

\* What is read from a line does not depend on what is left of those before it.
LEMMA StaleReadsSame ==
  ASSUME NEW T, HasEmpty(T), NEW fresh \in Seq(NewArgs(T)), NEW a \in Stale(fresh, T),
         NEW b \in Stale(fresh, T), NEW words \in Seq(WordSet(T)), NEW batch \in BOOLEAN
  PROVE  Outcome(ParseLine(a, words, batch)) = Outcome(ParseLine(b, words, batch))
<1> DEFINE y == FoldLeft(Offer, Start(a), words)
           z == FoldLeft(Offer, Start(b), words)
<1>1. /\ Start(a) \in StatesOf(fresh, T) /\ Start(b) \in StatesOf(fresh, T)
      /\ SameStates(Start(a), Start(b)) /\ SameStates(Start(b), Start(a))
  BY StaleAlike
<1>2. y \in StatesOf(fresh, T) /\ z \in StatesOf(fresh, T) /\ SameStates(y, z)
  BY <1>1, WordsOK
<1> HIDE DEF y, z
<1>3. {k \in DOMAIN a : a[k].required} = {k \in DOMAIN b : b[k].required}
  BY DEF Stale, ArgsOf
<1> DEFINE ok(s, args) == /\ s.ok /\ s.awaits = 0
                          /\ batch /\ ~s.help =>
                               s.found >= Cardinality({k \in DOMAIN args : args[k].required})
<1>4. ok(y, a) = ok(z, b)
  BY <1>2, <1>3 DEF SameStates
<1>5. /\ ParseLine(a, words, batch) = [y EXCEPT !.ok = ok(y, a)]
      /\ ParseLine(b, words, batch) = [z EXCEPT !.ok = ok(z, b)]
  BY DEF ParseLine, y, z
<1> HIDE DEF ok
<1>6. /\ ParseLine(a, words, batch).ok = ok(y, a) /\ ParseLine(b, words, batch).ok = ok(z, b)
      /\ ParseLine(a, words, batch).args = y.args /\ ParseLine(b, words, batch).args = z.args
  BY <1>2, <1>5 DEF StatesOf
<1>7. y.args \in ArgsOf(fresh, T) /\ z.args \in ArgsOf(fresh, T)
  BY <1>2 DEF StatesOf
<1>8. ASSUME NEW k \in DOMAIN fresh PROVE Reads(y.args[k]) = Reads(z.args[k])
  <2>1. y.args[k].kind = z.args[k].kind /\ k \in DOMAIN y.args
    BY <1>7 DEF ArgsOf
  <2>2. Alike(y.args[k], z.args[k])
    BY <1>2, <2>1 DEF SameStates, AllAlike
  <2> QED
    BY <2>1, <2>2 DEF Alike, Reads
<1>9. [k \in DOMAIN y.args |-> Reads(y.args[k])] = [k \in DOMAIN z.args |-> Reads(z.args[k])]
  BY <1>7, <1>8 DEF ArgsOf
<1> QED
  BY <1>4, <1>6, <1>9 DEF Outcome

\* Between two lines the arguments are reset.
Left(args, ln) == ResetArgs(ParseLine(args, ln.words, ln.batch).args)

\* An argument that has been reset.
LEMMA ResetOK ==
  ASSUME NEW T, HasEmpty(T), NEW a \in ArgSet(T)
  PROVE  /\ ResetArg(a) \in ArgSet(T) /\ ResetArg(a).set = FALSE
         /\ ResetArg(a).kind = a.kind /\ ResetArg(a).name = a.name
         /\ ResetArg(a).required = a.required
         /\ IF a.kind = "multi" THEN Range(ResetArg(a).vals) \subseteq {NoText}
            ELSE ResetArg(a).vals = <<>>
<1> DEFINE vals == IF a.kind = "multi" THEN [i \in DOMAIN a.vals |-> NoText] ELSE <<>>
<1>1. ResetArg(a) = [a EXCEPT !.set = FALSE, !.vals = vals]
  BY DEF ResetArg
<1>2. NoText \in WordSet(T)
  BY DEF NoText, Word, WordSet, HasEmpty
<1>3. vals \in Seq(WordSet(T)) /\ Range(vals) \subseteq {NoText}
        /\ (a.kind # "multi" => vals = <<>>)
  <2>1. PICK n \in Nat : DOMAIN a.vals = 1 .. n
    BY DEF ArgSet
  <2>2. [i \in 1 .. n |-> NoText] \in Seq(WordSet(T))
    BY <1>2
  <2> HIDE DEF NoText
  <2>3. Range([i \in 1 .. n |-> NoText]) \subseteq {NoText} /\ Range(<<>>) \subseteq {NoText}
    BY DEF Range
  <2> QED
    BY <2>1, <2>2, <2>3
<1> HIDE DEF vals
<1> QED
  BY <1>1, <1>3 DEF ArgSet

\* A line leaves nothing but blank values.
LEMMA LeftIsStale ==
  ASSUME NEW T, HasEmpty(T), NEW fresh \in Seq(NewArgs(T)), NEW a \in Stale(fresh, T),
         NEW words \in Seq(WordSet(T)), NEW batch \in BOOLEAN
  PROVE  ResetArgs(ParseLine(a, words, batch).args) \in Stale(fresh, T)
<1> DEFINE y == FoldLeft(Offer, Start(a), words)
<1>1. y \in StatesOf(fresh, T)
  BY StaleAlike, WordsOK
<1>2. ParseLine(a, words, batch).args = y.args
  <2> HIDE DEF y
  <2>1. \A b \in BOOLEAN : [y EXCEPT !.ok = b].args = y.args
    BY <1>1 DEF StatesOf
  <2> QED
    BY <2>1 DEF ParseLine, y
<1> HIDE DEF y
<1>3. y.args \in ArgsOf(fresh, T)
  BY <1>1 DEF StatesOf
<1> DEFINE r == ResetArgs(y.args)
<1>4. DOMAIN r = DOMAIN fresh
  BY <1>3 DEF ResetArgs, ArgsOf
<1>5. ASSUME NEW k \in DOMAIN fresh
      PROVE  /\ r[k] \in ArgSet(T) /\ r[k].set = FALSE
             /\ r[k].kind = fresh[k].kind /\ r[k].name = fresh[k].name
             /\ r[k].required = fresh[k].required
             /\ IF fresh[k].kind = "multi" THEN Range(r[k].vals) \subseteq {NoText}
                ELSE r[k].vals = <<>>
  <2>1. r[k] = ResetArg(y.args[k])
    BY <1>3 DEF ResetArgs, ArgsOf
  <2>2. PICK b \in ArgSet(T) : b = y.args[k]
    BY <1>3 DEF ArgsOf
  <2>3. b.kind = fresh[k].kind /\ b.name = fresh[k].name /\ b.required = fresh[k].required
    BY <1>3, <2>2 DEF ArgsOf
  <2>4. /\ ResetArg(b) \in ArgSet(T) /\ ResetArg(b).set = FALSE
        /\ ResetArg(b).kind = b.kind /\ ResetArg(b).name = b.name
        /\ ResetArg(b).required = b.required
        /\ IF b.kind = "multi" THEN Range(ResetArg(b).vals) \subseteq {NoText}
           ELSE ResetArg(b).vals = <<>>
    BY ONLY ResetOK, HasEmpty(T), b \in ArgSet(T)
  <2> QED
    BY <2>1, <2>2, <2>3, <2>4
<1>6. r \in [DOMAIN fresh -> ArgSet(T)]
  BY <1>4, <1>5 DEF ResetArgs
<1> HIDE DEF r
<1>7. r \in ArgsOf(fresh, T)
  BY <1>5, <1>6 DEF ArgsOf
<1>8. r \in Stale(fresh, T)
  BY <1>5, <1>7 DEF Stale
<1> QED
  BY <1>2, <1>8 DEF r

-----------------------------------------------------------------------------
(* Any number of lines.                                                    *)

LeftBetween(c, args, ln) == Left(args, ln)
Lefts == INSTANCE LeftFolds WITH Op <- LeftBetween

\* FoldLeft with Left, as LeftFolds has it.
LEMMA FoldOfLines ==
  ASSUME NEW base, NEW seq
  PROVE  FoldLeft(Left, base, seq) = Lefts!Folded({}, base, seq)
BY DEF FoldLeft, MapThenFoldSet, Max, Lefts!Folded, Lefts!FoldLeft, Lefts!MapThenFoldSet,
       Lefts!Max, LeftBetween

LineSet(T) == [words : Seq(WordSet(T)), batch : BOOLEAN]

\* What CmdLine::parse and a handler make of a line is what they would make of it if it
\* were the first, whatever the arguments are, whatever has been typed for the command
\* before, and whether or not it has been refused: nothing that the arguments keep over
\* a reset is read.
THEOREM LinesLeaveNothing ==
  ASSUME NEW T, HasEmpty(T), NEW fresh \in Seq(NewArgs(T)), NEW lines \in Seq(LineSet(T)),
         NEW words \in Seq(WordSet(T)), NEW batch \in BOOLEAN
  PROVE  Outcome(ParseLine(FoldLeft(Left, fresh, lines), words, batch))
           = Outcome(ParseLine(fresh, words, batch))
<1> DEFINE n == Len(lines)
<1>1. n \in Nat /\ DOMAIN lines = 1 .. n /\ \A k \in 1 .. n : lines[k] \in LineSet(T)
  OBVIOUS
<1>2. PICK H : Lefts!IsTrace(H, {}, fresh, lines, n) /\ FoldLeft(Left, fresh, lines) = H[n]
  BY <1>1, Lefts!FoldTrace, FoldOfLines
<1> HIDE DEF n
<1>3. fresh \in Stale(fresh, T)
  BY FreshIsStale
<1> DEFINE G == {k \in 0 .. n : H[k] \in Stale(fresh, T)}
<1>4. 0 \in G
  <2>1. H[0] = fresh /\ 0 \in 0 .. n
    BY <1>1, <1>2 DEF Lefts!IsTrace
  <2> QED
    BY <1>3, <2>1
<1>5. ASSUME NEW k \in 1 .. n, k - 1 \in G PROVE k \in G
  <2>1. H[k] = Left(H[k - 1], lines[k])
    BY <1>2 DEF Lefts!IsTrace, LeftBetween
  <2>2. PICK a \in Stale(fresh, T) : a = H[k - 1]
    BY <1>5
  <2>3. lines[k].words \in Seq(WordSet(T)) /\ lines[k].batch \in BOOLEAN
    BY <1>1 DEF LineSet
  <2>4. \A w \in Seq(WordSet(T)), b \in BOOLEAN :
          ResetArgs(ParseLine(a, w, b).args) \in Stale(fresh, T)
    BY LeftIsStale
  <2> QED
    BY <2>1, <2>2, <2>3, <2>4 DEF Left
<1>6. \A k \in 0 .. n : k \in G
  <2> HIDE DEF G
  <2> QED  BY <1>1, <1>4, <1>5, Lefts!UpTo
<1>7. H[n] \in Stale(fresh, T)
  BY <1>1, <1>6
<1> QED
  BY ONLY <1>2, <1>3, <1>7, StaleReadsSame, HasEmpty(T), fresh \in Seq(NewArgs(T)),
          words \in Seq(WordSet(T)), batch \in BOOLEAN

-----------------------------------------------------------------------------
(* The commands of DioCLI.                                                 *)

\* Arguments as SetupCommands leaves them, with some names.
New(args) == \E T : args \in Seq(NewArgs(T))

\* A sequence of some of them is a sequence of them.
LEMMA SeqWidens ==
  ASSUME NEW A, NEW B, A \subseteq B, NEW a \in Seq(A)
  PROVE  a \in Seq(B)
<1>1. a = [i \in 1 .. Len(a) |-> a[i]] /\ Len(a) \in Nat /\ \A i \in 1 .. Len(a) : a[i] \in B
  OBVIOUS
<1> QED
  BY <1>1

\* New arguments after new ones are new.
LEMMA NewJoined ==
  ASSUME NEW a, NEW b, New(a), New(b)
  PROVE  New(a \o b)
<1>1. PICK S : a \in Seq(NewArgs(S))
  BY DEF New
<1>2. PICK T : b \in Seq(NewArgs(T))
  BY DEF New
<1>3. \A x \in NewArgs(S) \cup NewArgs(T) : x \in NewArgs(S \cup T)
  <2>1. <<>> \in Seq(WordSet(S \cup T))
    OBVIOUS
  <2> QED
    BY <2>1 DEF NewArgs, ArgSet
<1>4. a \in Seq(NewArgs(S \cup T)) /\ b \in Seq(NewArgs(S \cup T))
  <2>1. NewArgs(S) \subseteq NewArgs(S \cup T) /\ NewArgs(T) \subseteq NewArgs(S \cup T)
    BY <1>3
  <2> QED
    BY <1>1, <1>2, <2>1, SeqWidens
<1>5. a \o b \in Seq(NewArgs(S \cup T))
  BY <1>4
<1> QED
  BY <1>5 DEF New

\* What Options makes is new.
LEMMA OptionsNew ==
  ASSUME NEW n \in Nat, NEW names, DOMAIN names = 1 .. n, NEW kind \in Kinds
  PROVE  New(Options(kind, names))
<1> DEFINE T == {names[i] : i \in 1 .. n}
<1>1. <<>> \in Seq(WordSet(T))
  OBVIOUS
<1>2. ASSUME NEW i \in 1 .. n PROVE Option(kind, names[i]) \in NewArgs(T)
  BY <1>1 DEF Option, NewArgs, ArgSet
<1>3. Options(kind, names) = [i \in 1 .. n |-> Option(kind, names[i])]
  BY DEF Options
<1>4. Options(kind, names) \in Seq(NewArgs(T))
  <2> HIDE DEF T
  <2> QED  BY <1>2, <1>3
<1> QED
  BY <1>4 DEF New

\* No arguments.
LEMMA NoneNew == New(<<>>)
<1>1. <<>> \in Seq(NewArgs({}))
  OBVIOUS
<1> QED
  BY <1>1 DEF New

\* Unlabeled arguments are new.
LEMMA UnlabeledNew ==
  ASSUME NEW c \in DOMAIN CommandArgs
  PROVE  New(UnlabeledOf(c, CommandArgs[c]))
<1>1. /\ CommandArgs[c].args \in Seq(ArgNames) /\ CommandArgs[c].many \in BOOLEAN
      /\ CommandArgs[c].required \in BOOLEAN
  BY TablesAssumption, CommandOK
<1>2. PICK n \in Nat : DOMAIN CommandArgs[c].args = 1 .. n
  BY <1>1
<1>3. CASE c = "rem"
  <2>1. New(Options("words", <<"remark">>))
    <3>1. DOMAIN <<"remark">> = 1 .. 1 /\ "words" \in Kinds
      BY DEF Kinds
    <3> QED
      BY <3>1, OptionsNew
  <2> QED
    BY <1>3, <2>1 DEF UnlabeledOf
<1>4. CASE c # "rem"
  <2> DEFINE names == CommandArgs[c].args
             kind == IF CommandArgs[c].many THEN "words" ELSE "unlabeled"
             args == [i \in 1 .. n |->
                        [Option(kind, names[i]) EXCEPT !.required = CommandArgs[c].required]]
             T == {names[i] : i \in 1 .. n}
  <2>1. UnlabeledOf(c, CommandArgs[c]) = args
    BY <1>2, <1>4 DEF UnlabeledOf
  <2>2. <<>> \in Seq(WordSet(T))
    OBVIOUS
  <2>3. kind \in Kinds /\ kind # "multi"
    BY DEF Kinds
  <2>4. ASSUME NEW i \in 1 .. n PROVE args[i] \in NewArgs(T)
    <3>1. args[i] = [kind |-> kind, name |-> names[i], required |-> CommandArgs[c].required,
                     set |-> FALSE, vals |-> <<>>]
      BY DEF Option
    <3>2. names[i] \in T
      OBVIOUS
    <3> HIDE DEF T, args, kind, names
    <3> QED
      BY <1>1, <2>2, <2>3, <3>1, <3>2 DEF NewArgs, ArgSet
  <2>5. args \in Seq(NewArgs(T))
    <3>1. args = [i \in 1 .. n |-> args[i]]
      OBVIOUS
    <3> HIDE DEF args, T
    <3> QED  BY <2>4, <3>1
  <2> HIDE DEF args, T
  <2> QED
    BY <2>1, <2>5 DEF New
<1> QED
  BY <1>3, <1>4

\* Sequences.
IsSeq(s) == \E S : s \in Seq(S)

\* The tables have sequences of up to twelve names.
LEMMA Tuples ==
  ASSUME NEW a, NEW b, NEW c, NEW d, NEW e, NEW f, NEW g, NEW h, NEW i, NEW j, NEW k, NEW l
  PROVE  /\ IsSeq(<<a>>) /\ IsSeq(<<a, b>>) /\ IsSeq(<<a, b, c>>) /\ IsSeq(<<a, b, c, d>>)
         /\ IsSeq(<<a, b, c, d, e>>) /\ IsSeq(<<a, b, c, d, e, f, g, h>>)
         /\ IsSeq(<<a, b, c, d, e, f, g, h, i, j, k, l>>)
<1> DEFINE S == {a, b, c, d, e, f, g, h, i, j, k, l}
<1>0. a \in S /\ b \in S /\ c \in S /\ d \in S /\ e \in S /\ f \in S /\ g \in S /\ h \in S
        /\ i \in S /\ j \in S /\ k \in S /\ l \in S
  OBVIOUS
<1> HIDE DEF S
<1>1. /\ <<a>> \in Seq(S) /\ <<a, b>> \in Seq(S) /\ <<a, b, c>> \in Seq(S)
      /\ <<a, b, c, d>> \in Seq(S)
  BY <1>0
<1>2. <<a, b, c, d, e>> \in Seq(S) /\ <<a, b, c, d, e, f, g, h>> \in Seq(S)
  BY <1>0
<1>3. <<a, b, c, d, e, f, g, h, i, j, k, l>> \in Seq(S)
  BY <1>0
<1> QED
  BY <1>1, <1>2, <1>3 DEF IsSeq

\* A sequence after another is one.
LEMMA SeqsJoined ==
  ASSUME NEW a, NEW b, IsSeq(a), IsSeq(b)
  PROVE  IsSeq(a \o b)
<1>1. PICK S : a \in Seq(S)
  BY DEF IsSeq
<1>2. PICK T : b \in Seq(T)
  BY DEF IsSeq
<1>3. a \in Seq(S \cup T) /\ b \in Seq(S \cup T)
  BY <1>1, <1>2, SeqWidens
<1>4. a \o b \in Seq(S \cup T)
  BY <1>3
<1> QED
  BY <1>4 DEF IsSeq

\* Options of any names are new.
LEMMA NamedNew ==
  ASSUME NEW names, IsSeq(names)
  PROVE  /\ New(Options("value", names)) /\ New(Options("switch", names))
         /\ New(Options("multi", names))
<1>1. PICK S : names \in Seq(S)
  BY DEF IsSeq
<1>2. PICK n \in Nat : DOMAIN names = 1 .. n
  BY <1>1
<1>3. "value" \in Kinds /\ "switch" \in Kinds /\ "multi" \in Kinds
  BY DEF Kinds
<1> QED
  BY <1>2, <1>3, OptionsNew

\* The options that several commands have.
LEMMA SharedNew ==
  ASSUME NEW first, IsSeq(first)
  PROVE  New(ByFilter(first)) /\ New(Logged(first)) /\ New(PolicyOptions)
<1>1. New(ByFilter(first))
  BY Tuples, SeqsJoined, NamedNew DEF ByFilter
<1>2. New(Logged(first))
  BY Tuples, SeqsJoined, NamedNew DEF Logged
<1>3. New(PolicyOptions)
  BY Tuples, NamedNew DEF PolicyOptions
<1> QED
  BY <1>1, <1>2, <1>3

\* The options that are registered before the unlabeled arguments, command by command.
LEMMA BeforeNew ==
  ASSUME NEW c \in DOMAIN OptionsBefore
  PROVE  New(OptionsBefore[c])
<1>1. CASE c = "setconfig"
  BY <1>1, Tuples, NamedNew DEF OptionsBefore
<1>2. CASE c = "setuserinfo"
  BY <1>2, Tuples, NamedNew DEF OptionsBefore
<1>3. CASE c = "deleteuserinfo"
  BY <1>3, Tuples, NamedNew DEF OptionsBefore
<1>4. CASE c = "deletebillinginfo"
  BY <1>4, Tuples, NamedNew DEF OptionsBefore
<1>5. CASE c = "upload"
  BY <1>5, Tuples, NamedNew DEF OptionsBefore
<1>6. CASE c = "resume"
  BY <1>6, Tuples, NamedNew, NewJoined DEF OptionsBefore
<1>7. CASE c = "searchfiles"
  BY <1>7, Tuples, NamedNew, SharedNew, NewJoined DEF OptionsBefore
<1>8. CASE c = "searchfilestotal"
  BY <1>8, Tuples, NamedNew, SharedNew, NewJoined DEF OptionsBefore
<1>9. CASE c = "searchfilestotallog"
  BY <1>9, Tuples, NamedNew, SharedNew, NewJoined DEF OptionsBefore
<1>10. CASE c = "searchuploads"
  BY <1>10, Tuples, NamedNew, SharedNew DEF OptionsBefore
<1>11. CASE c = "searchdownloads"
  BY <1>11, Tuples, NamedNew, SharedNew DEF OptionsBefore
<1>12. CASE c = "searchlogins"
  BY <1>12, Tuples, NamedNew, SharedNew DEF OptionsBefore
<1>13. CASE c = "searchinvoices"
  BY <1>13, Tuples, NamedNew, NewJoined DEF OptionsBefore
<1>14. CASE c = "getmetadata"
  BY <1>14, Tuples, NamedNew DEF OptionsBefore
<1>15. CASE c = "getphysicalfiles"
  BY <1>15, Tuples, NamedNew DEF OptionsBefore
<1> QED
  BY <1>1, <1>2, <1>3, <1>4, <1>5, <1>6, <1>7, <1>8, <1>9, <1>10, <1>11,
     <1>12, <1>13, <1>14, <1>15 DEF OptionsBefore

\* Those that are registered after them.
LEMMA AfterNew ==
  ASSUME NEW c \in DOMAIN OptionsAfter
  PROVE  New(OptionsAfter[c])
<1>1. CASE c = "download"
  BY <1>1, Tuples, NamedNew DEF OptionsAfter
<1>2. CASE c = "getdownloadurl"
  BY <1>2, Tuples, NamedNew DEF OptionsAfter
<1>3. CASE c = "getuploadtoken"
  BY <1>3, Tuples, NamedNew DEF OptionsAfter
<1>4. CASE c = "displayfile"
  BY <1>4, Tuples, NamedNew DEF OptionsAfter
<1>5. CASE c = "replicatefile"
  BY <1>5, Tuples, NamedNew DEF OptionsAfter
<1>6. CASE c = "subscribe"
  BY <1>6, Tuples, NamedNew DEF OptionsAfter
<1>7. CASE c = "setbillinginfo"
  BY <1>7, Tuples, NamedNew DEF OptionsAfter
<1>8. CASE c = "createreplicationpolicy"
  BY <1>8, Tuples, NamedNew, SharedNew DEF OptionsAfter
<1>9. CASE c = "editreplicationpolicy"
  BY <1>9, Tuples, NamedNew, SharedNew DEF OptionsAfter
<1> QED
  BY <1>1, <1>2, <1>3, <1>4, <1>5, <1>6, <1>7, <1>8, <1>9 DEF OptionsAfter

\* What SetupCommands leaves for any command is new.
LEMMA ArgumentsNew ==
  ASSUME NEW c \in DOMAIN CommandArgs
  PROVE  New(Arguments(c))
<1>1. CommandArgs[c].output \in BOOLEAN
  BY TablesAssumption, CommandOK
<1>2. New(Options("switch", <<"?">>)) /\ New(OutputOnly)
  BY Tuples, NamedNew DEF OutputOnly
<1>3. New(Before(c, CommandArgs[c])) /\ New(After(c))
  BY <1>2, NoneNew, BeforeNew, AfterNew DEF Before, After
<1>4. New(UnlabeledOf(c, CommandArgs[c]))
  BY UnlabeledNew
<1> DEFINE a == Options("switch", <<"?">>)
           b == Before(c, CommandArgs[c])
           u == UnlabeledOf(c, CommandArgs[c])
<1>5. Arguments(c) = ((a \o b) \o u) \o After(c)
  BY DEF Arguments, Registered
<1> HIDE DEF a, b, u
<1>6. New(a) /\ New(b) /\ New(u)
  BY <1>2, <1>3, <1>4 DEF a, b, u
<1> QED
  BY <1>3, <1>5, <1>6, NewJoined

\* Every command is read as it is the first time.
LEMMA CommandsStandAlone ==
  ASSUME NEW c \in DOMAIN CommandArgs
  PROVE  StandsAlone(c)
<1> DEFINE fresh == Arguments(c)
<1>1. PICK S : fresh \in Seq(NewArgs(S))
  BY ArgumentsNew DEF New
<1> HIDE DEF fresh
<1> DEFINE T == S \cup {"", "x", "y", "x*"}
<1>2. fresh \in Seq(NewArgs(T))
  <2>1. <<>> \in Seq(WordSet(T))
    OBVIOUS
  <2>2. NewArgs(S) \subseteq NewArgs(T)
    BY <2>1 DEF NewArgs, ArgSet
  <2> HIDE DEF T
  <2> QED  BY <1>1, <2>2, SeqWidens
<1>3. HasEmpty(T)
  BY DEF HasEmpty
<1>4. Vocabulary(c) \subseteq WordSet(T)
  <2>1. ASSUME NEW k \in DOMAIN fresh PROVE fresh[k].name \in T
    <3>1. fresh[k] \in NewArgs(S)
      BY <1>1
    <3> QED
      BY <3>1 DEF NewArgs, ArgSet
  <2>2. {"", "x", "y", "x*"} \subseteq T
    OBVIOUS
  <2> HIDE DEF T
  <2> QED
    <3>1. ASSUME NEW x \in T PROVE Word(x) \in WordSet(T) /\ Flag(x) \in WordSet(T)
      BY <2>2 DEF Word, Flag, WordSet
    <3>2. {Flag(fresh[k].name) : k \in {1, 2, Len(fresh)} \cap DOMAIN fresh} \subseteq WordSet(T)
      BY <2>1, <3>1
    <3>3. {Word("x"), Word("y"), Word("x*")} \subseteq WordSet(T)
      BY <2>2, <3>1
    <3> QED
      BY <3>2, <3>3 DEF Vocabulary, fresh
<1> HIDE DEF T
<1>5. ASSUME NEW l \in LinesOf(c) PROVE l \in Seq(WordSet(T))
  <2>1. PICK n \in 0 .. 3 : l \in [1 .. n -> Vocabulary(c)]
    BY DEF LinesOf
  <2>2. l \in [1 .. n -> WordSet(T)] /\ n \in Nat
    BY <2>1, <1>4
  <2> QED
    BY <2>2
<1>6. ASSUME NEW args \in LeftBy(c), NEW l \in LinesOf(c), NEW batch \in BOOLEAN
      PROVE  Outcome(ParseLine(args, l, batch)) = Outcome(ParseLine(fresh, l, batch))
  <2>1. fresh \in Stale(fresh, T)
    BY <1>2, FreshIsStale
  <2>2. PICK m \in LinesOf(c) : args = ResetArgs(ParseLine(fresh, m, FALSE).args)
    BY DEF LeftBy, fresh
  <2>3. m \in Seq(WordSet(T)) /\ l \in Seq(WordSet(T)) /\ FALSE \in BOOLEAN
    BY <1>5
  <2>4. args \in Stale(fresh, T)
    BY ONLY <1>2, <1>3, <2>1, <2>2, <2>3, LeftIsStale
  <2> QED
    BY ONLY <1>2, <1>3, <2>1, <2>3, <2>4, batch \in BOOLEAN, StaleReadsSame
<1> QED
  BY <1>6 DEF StandsAlone, fresh

\* What a handler reads from a line does not depend on the lines before it, for any of the
\* commands of DioCLI: the tables of SetupCommands meet what LinesLeaveNothing asks for.
THEOREM CommandsReadAlone == Spec => []LinesStandAlone
<1>1. TypeOK => LinesStandAlone
  <2> SUFFICES ASSUME TypeOK, line # NoLine PROVE line.cmd \in ReadAlone
    BY DEF LinesStandAlone
  <2>1. line.cmd \in DOMAIN CommandArgs
    <3>1. line.cmd \in Cmds
      BY ScenarioOK DEF TypeOK, ConsoleOK, LineOK, Lines
    <3> QED
      BY ONLY <3>1, TablesAssumption
  <2> QED
    BY <2>1, CommandsStandAlone DEF ReadAlone
<1> QED
  BY <1>1, TypeCorrect, PTL

-----------------------------------------------------------------------------
(* The text of a line.                                                     *)

\* FoldLeft with Turn: a turn is about the text, and not which one it is.
TurnOver(s, z, i) == Turn(s, z)
Scan == INSTANCE LeftFolds WITH Op <- TurnOver
LEMMA SpaceNotQuote == Space # Quote /\ Space # "="
BY DEF Space, Quote
FirstIn(s, c, a) == {i \in a .. Len(s) : s[i] = c}

LEMMA LeastIs ==
  ASSUME NEW S \in SUBSET Nat, NEW x \in S, \A y \in S : x <= y
  PROVE  Min(S) = x
<1>1. \A z \in S : (\A y \in S : z <= y) <=> z = x
  OBVIOUS
<1> QED
  BY <1>1 DEF Min

LEMMA FindThere ==
  ASSUME NEW C, NEW s \in Seq(C), NEW c, NEW a \in Nat \ {0}, NEW b \in a .. Len(s),
         s[b] = c, \A i \in a .. b - 1 : s[i] # c
  PROVE  FindIn(s, c, a) = b
<1> DEFINE S == {i \in a .. Len(s) : s[i] = c} \cup {Len(s) + 1}
           l == Len(s)
<1>1. l \in Nat /\ S \in SUBSET Nat /\ b \in S
  OBVIOUS
<1>2. \A y \in S : b <= y
  <2>1. \A y \in a .. l : s[y] = c => b <= y
    <3> SUFFICES ASSUME NEW y \in a .. l, s[y] = c, ~(b <= y) PROVE FALSE
      OBVIOUS
    <3>1. y \in a .. b - 1
      BY <1>1
    <3> QED
      BY <3>1
  <2> QED
    BY <1>1, <2>1
<1> HIDE DEF S
<1>3. Min(S) = b
  BY <1>1, <1>2, LeastIs
<1>4. b % (l + 1) = b
  BY <1>1
<1> QED
  BY <1>3, <1>4 DEF FindIn, S, l

LEMMA FindNone ==
  ASSUME NEW C, NEW s \in Seq(C), NEW c, NEW a \in Nat \ {0}, \A i \in a .. Len(s) : s[i] # c
  PROVE  FindIn(s, c, a) = 0
<1> DEFINE S == {i \in a .. Len(s) : s[i] = c} \cup {Len(s) + 1}
           l == Len(s)
<1>1. S = {l + 1} /\ l \in Nat
  OBVIOUS
<1>2. Min(S) = l + 1
  BY <1>1, LeastIs
<1>3. (l + 1) % (l + 1) = 0
  BY <1>1
<1> QED
  BY <1>2, <1>3 DEF FindIn

LEMMA FindSome ==
  ASSUME NEW C, NEW s \in Seq(C), NEW c, NEW a \in Nat \ {0}
  PROVE  \/ FindIn(s, c, a) = 0 /\ \A i \in a .. Len(s) : s[i] # c
         \/ /\ FindIn(s, c, a) \in a .. Len(s) /\ s[FindIn(s, c, a)] = c
            /\ \A i \in a .. FindIn(s, c, a) - 1 : s[i] # c
<1>1. CASE \A i \in a .. Len(s) : s[i] # c
  BY <1>1, FindNone
<1>2. CASE \E i \in a .. Len(s) : s[i] = c
  <2> DEFINE S == {i \in a .. Len(s) : s[i] = c}
  <2>1. S \in SUBSET Nat /\ S # {}
    BY <1>2
  <2>2. PICK b \in S : \A y \in S : b <= y
    <3> HIDE DEF S
    <3> QED
      BY <2>1, Scan!LeastExists
  <2>3. ASSUME NEW i \in a .. b - 1 PROVE s[i] # c
    <3>1. i \in a .. Len(s) /\ ~(b <= i)
      BY <2>2
    <3> QED
      BY <2>2, <3>1
  <2>4. b \in a .. Len(s) /\ s[b] = c
    BY <2>2
  <2>5. FindIn(s, c, a) = b
    BY <2>3, <2>4, FindThere
  <2> QED
    BY <2>3, <2>4, <2>5
<1> QED
  BY <1>1, <1>2


\* There is no c from a to b.
Without(s, c, a, b) == \A i \in a .. b : s[i] # c

\* Looking further back finds the same.
LEMMA FindOn ==
  ASSUME NEW C, NEW s \in Seq(C), NEW c, NEW a \in Nat \ {0}, NEW b \in Nat, a <= b,
         b <= Len(s) + 1, Without(s, c, a, b - 1)
  PROVE  FindIn(s, c, a) = FindIn(s, c, b)
<1>1. CASE Without(s, c, b, Len(s))
  <2>1. \A i \in a .. Len(s) : i \in a .. b - 1 \/ i \in b .. Len(s)
    OBVIOUS
  <2>2. \A i \in a .. Len(s) : s[i] # c
    BY <1>1, <2>1 DEF Without
  <2> QED
    BY <1>1, <2>2, FindNone DEF Without
<1>2. CASE ~Without(s, c, b, Len(s))
  <2> DEFINE q == FindIn(s, c, b)
  <2>1. q \in b .. Len(s) /\ s[q] = c /\ \A i \in b .. q - 1 : s[i] # c
    BY <1>2, FindSome DEF Without
  <2> HIDE DEF q
  <2>2. \A i \in a .. q - 1 : s[i] # c
    <3>1. \A i \in a .. q - 1 : i \in a .. b - 1 \/ i \in b .. q - 1
      BY <2>1
    <3> QED
      BY <3>1, <2>1 DEF Without
  <2>3. q \in a .. Len(s)
    BY <2>1
  <2> QED
    BY <2>1, <2>2, <2>3, FindThere DEF q
<1> QED
  BY <1>1, <1>2

\* The scan where a word begins: what it has found ahead, and the words so far.
Registers == {"at", "space", "quote", "quotes", "spaceNext", "words", "end"}

AtWord(z, s, a, done) ==
  /\ DOMAIN z = Registers
  /\ z.at = a /\ z.words = done /\ z.end = "none"
  /\ z.space = FindIn(s, Space, a) /\ z.quote = FindIn(s, Quote, a)
  /\ z.quotes = IF z.quote # 0 THEN 2 ELSE 0
  /\ z.spaceNext <=> z.space # 0 /\ (z.quote # 0 => z.space < z.quote)

LEMMA Begun ==
  ASSUME NEW s
  PROVE  AtWord(BeginSplit(s), s, 1, <<>>)
BY DEF AtWord, BeginSplit, Registers

\* Behind a separator.
LEMMA Separated ==
  ASSUME NEW s, NEW z, DOMAIN z = Registers, NEW y, y = NextSeparator(s, z),
         z.quotes # 1
  PROVE  /\ DOMAIN y = Registers
         /\ y.at = z.at /\ y.words = z.words /\ y.end = z.end /\ y.space = z.space
         /\ y.quote = z.quote /\ y.quotes = z.quotes
         /\ y.spaceNext <=> z.space # 0 /\ ~(z.quotes = 2 /\ z.quote < z.space)
BY DEF Registers, NextSeparator

LEMMA Resumed ==
  ASSUME NEW C, NEW s \in Seq(C), NEW a \in Nat \ {0}, NEW done, NEW z,
         DOMAIN z = Registers, z.at = a, z.words = done, z.end = "none",
         z.space = FindIn(s, Space, a), z.quote = FindIn(s, Quote, a),
         z.quotes = IF z.quote # 0 THEN 2 ELSE 0
  PROVE  AtWord(NextSeparator(s, z), s, a, done)
<1>1. z.space \in Nat /\ z.quote \in Nat /\ (z.space # 0 /\ z.quote # 0 => z.space # z.quote)
  BY FindSome, SpaceNotQuote
<1> DEFINE y == NextSeparator(s, z)
<1>2. /\ DOMAIN y = Registers
      /\ y.at = z.at /\ y.words = z.words /\ y.end = z.end /\ y.space = z.space
      /\ y.quote = z.quote /\ y.quotes = z.quotes
      /\ y.spaceNext <=> z.space # 0 /\ ~(z.quotes = 2 /\ z.quote < z.space)
  BY Separated
<1> HIDE DEF y
<1>3. y.spaceNext <=> y.space # 0 /\ (y.quote # 0 => y.space < y.quote)
  BY <1>1, <1>2
<1>4. AtWord(y, s, a, done)
  BY <1>2, <1>3 DEF AtWord
<1> QED
  BY <1>4 DEF y

\* The word w stands from a to b, as it is or in quotes.
Bare(s, w, a, b) == w = SubSeq(s, a, b) /\ Without(s, Space, a, b) /\ Without(s, Quote, a, b)

Quoted(s, w, a, b) ==
  /\ a + 1 < b /\ w = SubSeq(s, a + 1, b - 1) /\ s[a] = Quote /\ s[b] = Quote
  /\ Without(s, Quote, a + 1, b - 1) /\ ~Without(s, Space, a + 1, b - 1)

\* A word without blanks and quotes, and the space behind it.
LEMMA BareWord ==
  ASSUME NEW C, NEW s \in Seq(C), NEW a \in Nat \ {0}, NEW b \in Nat, a <= b, b < Len(s),
         NEW w, Bare(s, w, a, b), s[b + 1] = Space, NEW done, NEW z, AtWord(z, s, a, done)
  PROVE  AtWord(Turn(s, z), s, b + 2, Append(done, w))
<1> DEFINE y == SpaceFound(s, z)
           more == Append(done, w)
<1>1. z.space = b + 1
  BY FindThere DEF Bare, Without, AtWord
<1>2. z.quote = FindIn(s, Quote, b + 2)
  <2>1. Without(s, Quote, a, b + 1)
    BY SpaceNotQuote DEF Bare, Without
  <2> QED
    BY <2>1, FindOn DEF AtWord
<1>3. z.quote = 0 \/ z.quote > b + 1
  BY <1>2, FindSome
<1>4. z.spaceNext
  BY <1>1, <1>3 DEF AtWord
<1>5. Turn(s, z) = NextSeparator(s, y)
  BY <1>1, <1>4 DEF Turn, AtWord
<1>6. /\ DOMAIN y = Registers /\ y.at = b + 2 /\ y.words = more /\ y.end = "none"
      /\ y.space = FindIn(s, Space, b + 2) /\ y.quote = z.quote /\ y.quotes = z.quotes
  <2>1. PushBack(done, s, a, b) = more /\ (b + 1) - 1 = b /\ (b + 1) + 1 = b + 2
    BY DEF PushBack, Bare
  <2>2. y = [z EXCEPT !.words = more, !.at = b + 2, !.space = FindIn(s, Space, b + 2)]
    BY <1>1, <2>1 DEF SpaceFound, AtWord
  <2> HIDE DEF y, more
  <2> QED
    BY <2>2 DEF AtWord, Registers
<1>7. y.quotes = IF y.quote # 0 THEN 2 ELSE 0
  BY <1>6 DEF AtWord
<1> HIDE DEF y, more
<1>8. AtWord(NextSeparator(s, y), s, b + 2, more)
  BY <1>2, <1>6, <1>7, Resumed
<1> QED
  BY <1>5, <1>8 DEF more

\* Inside of the quotes of a word, once the first has been found.
InQuotes(z, s, a, b, done) ==
  /\ DOMAIN z = Registers
  /\ z.at = a + 1 /\ z.words = done /\ z.end = "none"
  /\ z.space = FindIn(s, Space, b) /\ z.quote = b /\ z.quotes = 1 /\ ~z.spaceNext

\* The first quote of a word.
LEMMA QuoteOpens ==
  ASSUME NEW C, NEW s \in Seq(C), NEW a \in Nat \ {0}, NEW b \in Nat, b <= Len(s),
         NEW w, Quoted(s, w, a, b), NEW done, NEW z, AtWord(z, s, a, done)
  PROVE  InQuotes(Turn(s, z), s, a, b, done)
<1> DEFINE y == PastQuote(s, z)
           x == NextSeparator(s, y)
<1>1. z.quote = a
  BY FindThere DEF Quoted, AtWord
<1>2. FindIn(s, Quote, a + 1) = b
  BY FindThere DEF Quoted, Without
<1>3. z.space \in Nat /\ z.space > a /\ z.space < b
  <2>1. PICK i \in a + 1 .. b - 1 : s[i] = Space
    BY DEF Quoted, Without
  <2>2. z.space \in a .. Len(s) /\ s[z.space] = Space /\ z.space <= i
    <3>1. i \in a .. Len(s)
      OBVIOUS
    <3>2. z.space \in a .. Len(s) /\ s[z.space] = Space /\ \A k \in a .. z.space - 1 : s[k] # Space
      BY <2>1, <3>1, FindSome DEF AtWord
    <3> QED
      BY <2>1, <3>2
  <2> QED
    BY <2>1, <2>2, SpaceNotQuote DEF Quoted
<1>4. z.quotes = 2 /\ z.end = "none" /\ ~z.spaceNext
  <2>1. z.quote # 0 /\ ~(z.space < z.quote /\ z.quote = 0)
    BY <1>1
  <2>2. z.quotes = 2 /\ z.end = "none"
    BY <2>1 DEF AtWord
  <2>3. ~(z.quote # 0 => z.space < z.quote)
    BY <1>1, <1>3
  <2> QED
    BY <2>2, <2>3 DEF AtWord
<1>5. Turn(s, z) = x
  BY <1>1, <1>4 DEF Turn, QuoteFound
<1>6. /\ DOMAIN y = Registers /\ y.at = a + 1 /\ y.quote = b /\ y.quotes = 1
      /\ y.end = "none" /\ y.words = done /\ y.space = z.space
  <2>1. b # 0
    BY DEF Quoted
  <2>2. y = [z EXCEPT !.at = a + 1, !.quote = b, !.quotes = 1, !.end = "none"]
    <3>1. (IF FindIn(s, Quote, z.quote + 1) # 0 THEN (IF z.quotes = 0 THEN 2 ELSE 1)
           ELSE IF z.quote = Len(s) THEN 0 ELSE z.quotes) = 1
      BY <1>1, <1>2, <1>4, <2>1
    <3>2. FindIn(s, Quote, z.quote + 1) = b /\ b # 0 /\ z.quote + 1 = a + 1
      BY <1>1, <1>2, <2>1
    <3> QED
      BY <1>4, <3>1, <3>2 DEF PastQuote
  <2> HIDE DEF y
  <2> QED
    BY <2>2 DEF AtWord, Registers
<1> HIDE DEF y
<1>7. InQuotes(x, s, a, b, done)
  <2>1. y.quotes = 1 /\ y.space # 0 /\ y.quote > y.space
    BY <1>3, <1>6
  <2>2. x = [y EXCEPT !.spaceNext = FALSE, !.space = FindIn(s, Space, b)]
    BY <1>6, <2>1 DEF NextSeparator
  <2> HIDE DEF x
  <2> QED
    BY <1>6, <2>2 DEF InQuotes, Registers
<1> QED
  BY <1>5, <1>7

\* Behind the quotes of a word.
LEMMA QuoteCloses ==
  ASSUME NEW C, NEW s \in Seq(C), NEW a \in Nat, a > 1, NEW b \in Nat, b <= Len(s),
         NEW w, Quoted(s, w, a, b), s[a - 1] = Space, NEW done, NEW z,
         InQuotes(z, s, a, b, done)
  PROVE  AtWord(Turn(s, z), s, b + 1, Append(done, w))
<1> DEFINE more == Append(done, w)
           y == QuotedWord(s, z)
           x == PastQuote(s, y)
<1>1. /\ DOMAIN y = Registers /\ y.at = a + 1 /\ y.quote = b /\ y.quotes = 0
      /\ y.end = "none" /\ y.words = more /\ y.space = FindIn(s, Space, b)
  <2>1. ~(z.at <= 2) /\ s[z.at - 2] # "="
    BY SpaceNotQuote DEF InQuotes
  <2>2. PushBack(done, s, a + 1, b - 1) = more
    BY DEF PushBack, Quoted
  <2>3. y = [z EXCEPT !.quotes = 0, !.words = more]
    <3>1. PushBack(z.words, s, z.at, z.quote - 1) = more
      BY <2>2 DEF InQuotes
    <3> HIDE DEF more
    <3> QED
      BY <2>1, <3>1 DEF QuotedWord
  <2> HIDE DEF y, more
  <2> QED
    BY <2>3 DEF InQuotes, Registers
<1>2. Turn(s, z) = NextSeparator(s, x)
  <2> HIDE DEF x
  <2>1. QuoteFound(s, z) = x
    BY <1>1 DEF QuoteFound, InQuotes, x
  <2> QED
    BY <2>1 DEF Turn, InQuotes, Quoted
<1> HIDE DEF y
<1> DEFINE next == FindIn(s, Quote, b + 1)
           quotes == IF next # 0 THEN 2 ELSE 0
<1>3. /\ DOMAIN x = Registers /\ x.at = b + 1 /\ x.words = more /\ x.end = "none"
      /\ x.quote = next /\ x.quotes = quotes /\ x.space = FindIn(s, Space, b)
  <2> HIDE DEF next
  <2>1. x = [y EXCEPT !.at = b + 1, !.quote = next, !.quotes = quotes, !.end = "none"]
    BY <1>1 DEF PastQuote, next
  <2> HIDE DEF x, quotes
  <2> QED
    BY <1>1, <2>1 DEF Registers
<1>4. FindIn(s, Space, b) = FindIn(s, Space, b + 1)
  BY FindOn, SpaceNotQuote DEF Without, Quoted
<1> HIDE DEF x, more
<1>5. AtWord(NextSeparator(s, x), s, b + 1, more)
  BY <1>3, <1>4, Resumed
<1> QED
  BY <1>2, <1>5 DEF more

\* The space behind a word in quotes.
LEMMA NoWord ==
  ASSUME NEW C, NEW s \in Seq(C), NEW b \in Nat, b < Len(s), s[b + 1] = Space, NEW done,
         NEW z, AtWord(z, s, b + 1, done)
  PROVE  AtWord(Turn(s, z), s, b + 2, done)
<1> DEFINE y == SpaceFound(s, z)
<1>1. z.space = b + 1
  BY FindThere DEF AtWord
<1>2. z.quote = FindIn(s, Quote, b + 2)
  BY FindOn, SpaceNotQuote DEF AtWord, Without
<1>3. z.quote = 0 \/ z.quote > b + 1
  BY <1>2, FindSome
<1>4. z.spaceNext
  BY <1>1, <1>3 DEF AtWord
<1>5. Turn(s, z) = NextSeparator(s, y)
  BY <1>1, <1>4 DEF Turn, AtWord
<1>6. /\ DOMAIN y = Registers /\ y.at = b + 2 /\ y.words = done /\ y.end = "none"
      /\ y.space = FindIn(s, Space, b + 2) /\ y.quote = z.quote /\ y.quotes = z.quotes
  <2>1. PushBack(done, s, b + 1, b) = done /\ (b + 1) - 1 = b /\ (b + 1) + 1 = b + 2
    BY DEF PushBack
  <2>2. y = [z EXCEPT !.words = done, !.at = b + 2, !.space = FindIn(s, Space, b + 2)]
    BY <1>1, <2>1 DEF SpaceFound, AtWord
  <2> HIDE DEF y
  <2> QED
    BY <2>2 DEF AtWord, Registers
<1>7. y.quotes = IF y.quote # 0 THEN 2 ELSE 0
  BY <1>6 DEF AtWord
<1> HIDE DEF y
<1>8. AtWord(NextSeparator(s, y), s, b + 2, done)
  BY <1>2, <1>6, <1>7, Resumed
<1> QED
  BY <1>5, <1>8

Stands(s, w, a, b) ==
  /\ a \in Nat \ {0} /\ b \in Nat /\ a <= b /\ b <= Len(s)
  /\ Bare(s, w, a, b) \/ (a > 1 /\ s[a - 1] = Space /\ Quoted(s, w, a, b))

\* FoldLeft with Turn, as LeftFolds has it.
LEMMA ScanFold ==
  ASSUME NEW s, NEW base
  PROVE  FoldLeft(LAMBDA y, i : Turn(s, y), base, s) = Scan!Folded(s, base, s)
BY DEF FoldLeft, MapThenFoldSet, Max, Scan!Folded, Scan!FoldLeft, Scan!MapThenFoldSet,
       Scan!Max, TurnOver

\* One turn of the trace of a scan.
LEMMA Turned ==
  ASSUME NEW C, NEW s \in Seq(C), NEW H, Scan!IsTrace(H, s, BeginSplit(s), s, Len(s)),
         NEW t \in Nat, t < Len(s)
  PROVE  H[t + 1] = Turn(s, H[t])
<1>1. t + 1 \in 1 .. Len(s) /\ (t + 1) - 1 = t
  OBVIOUS
<1> QED
  BY <1>1 DEF Scan!IsTrace, TurnOver

\* A word is read with the space behind it, in no more turns than it has characters.
LEMMA ReadsWord ==
  ASSUME NEW C, NEW s \in Seq(C), NEW H, Scan!IsTrace(H, s, BeginSplit(s), s, Len(s)),
         NEW w, NEW a, NEW b, Stands(s, w, a, b), b < Len(s), s[b + 1] = Space, NEW done,
         NEW t \in 0 .. a - 1, AtWord(H[t], s, a, done)
  PROVE  \E u \in 0 .. b + 1 : AtWord(H[u], s, b + 2, Append(done, w))
<1>1. a \in Nat \ {0} /\ b \in Nat /\ a <= b /\ Len(s) \in Nat /\ t \in Nat /\ t <= a - 1
  BY DEF Stands
<1>2. CASE Bare(s, w, a, b)
  <2>1. AtWord(Turn(s, H[t]), s, b + 2, Append(done, w))
    BY <1>1, <1>2, BareWord
  <2>2. H[t + 1] = Turn(s, H[t]) /\ t + 1 \in 0 .. b + 1
    BY <1>1, Turned
  <2> QED
    BY <2>1, <2>2
<1>3. CASE a > 1 /\ s[a - 1] = Space /\ Quoted(s, w, a, b)
  <2>1. a + 1 < b
    BY <1>3 DEF Quoted
  <2>2. InQuotes(H[t + 1], s, a, b, done)
    <3>1. H[t + 1] = Turn(s, H[t])
      BY <1>1, Turned
    <3>2. InQuotes(Turn(s, H[t]), s, a, b, done)
      BY <1>1, <1>3, QuoteOpens
    <3> QED
      BY <3>1, <3>2
  <2>3. AtWord(H[t + 2], s, b + 1, Append(done, w))
    <3>1. t + 1 \in Nat /\ t + 1 < Len(s) /\ (t + 1) + 1 = t + 2
      BY <1>1, <2>1
    <3>2. H[t + 2] = Turn(s, H[t + 1])
      BY <3>1, Turned
    <3>3. AtWord(Turn(s, H[t + 1]), s, b + 1, Append(done, w))
      BY <1>1, <1>3, <2>2, QuoteCloses
    <3> QED
      BY <3>2, <3>3
  <2>4. AtWord(H[t + 3], s, b + 2, Append(done, w))
    <3>1. t + 2 \in Nat /\ t + 2 < Len(s) /\ (t + 2) + 1 = t + 3
      BY <1>1, <2>1
    <3>2. H[t + 3] = Turn(s, H[t + 2])
      BY <3>1, Turned
    <3>3. AtWord(Turn(s, H[t + 2]), s, b + 2, Append(done, w))
      BY <1>1, <2>3, NoWord
    <3> QED
      BY <3>2, <3>3
  <2>5. t + 3 \in 0 .. b + 1
    BY <1>1, <2>1
  <2> QED
    BY <2>4, <2>5
<1> QED
  BY <1>2, <1>3 DEF Stands

\* The scan is over: nothing is ahead but, maybe, the last word.
Over(z, s, words) ==
  /\ z.end = "none" /\ z.space = 0 /\ z.quote = 0
  /\ PushBack(z.words, s, z.at, Len(s)) = words

\* The last word is read.
LEMMA ReadsLast ==
  ASSUME NEW C, NEW s \in Seq(C), NEW H, Scan!IsTrace(H, s, BeginSplit(s), s, Len(s)),
         NEW w, NEW a, Stands(s, w, a, Len(s)), NEW done,
         NEW t \in 0 .. a - 1, AtWord(H[t], s, a, done)
  PROVE  \E u \in 0 .. Len(s) : Over(H[u], s, Append(done, w))
<1> DEFINE b == Len(s)
<1>1. a \in Nat \ {0} /\ b \in Nat /\ a <= b /\ t \in Nat /\ t <= a - 1
  BY DEF Stands
<1>2. CASE Bare(s, w, a, b)
  <2>1. FindIn(s, Space, a) = 0 /\ FindIn(s, Quote, a) = 0
    BY <1>1, <1>2, FindNone DEF Bare, Without
  <2>2. PushBack(done, s, a, b) = Append(done, w)
    BY <1>1, <1>2 DEF PushBack, Bare
  <2>3. Over(H[t], s, Append(done, w))
    BY <2>1, <2>2 DEF Over, AtWord
  <2> QED
    BY <1>1, <2>3
<1>3. CASE a > 1 /\ s[a - 1] = Space /\ Quoted(s, w, a, b)
  <2>1. a + 1 < b
    BY <1>3 DEF Quoted
  <2>2. InQuotes(H[t + 1], s, a, b, done)
    <3>1. H[t + 1] = Turn(s, H[t])
      BY <1>1, Turned
    <3>2. InQuotes(Turn(s, H[t]), s, a, b, done)
      BY <1>1, <1>3, QuoteOpens
    <3> QED
      BY <3>1, <3>2
  <2>3. AtWord(H[t + 2], s, b + 1, Append(done, w))
    <3>1. t + 1 \in Nat /\ t + 1 < Len(s) /\ (t + 1) + 1 = t + 2
      BY <1>1, <2>1
    <3>2. H[t + 2] = Turn(s, H[t + 1])
      BY <3>1, Turned
    <3>3. AtWord(Turn(s, H[t + 1]), s, b + 1, Append(done, w))
      BY <1>1, <1>3, <2>2, QuoteCloses
    <3> QED
      BY <3>2, <3>3
  <2>4. FindIn(s, Space, b + 1) = 0 /\ FindIn(s, Quote, b + 1) = 0
    <3>1. b + 1 \in Nat \ {0} /\ \A i \in b + 1 .. Len(s) : FALSE
      BY <1>1
    <3> QED
      BY <3>1, FindNone
  <2>5. PushBack(Append(done, w), s, b + 1, b) = Append(done, w)
    BY <1>1 DEF PushBack
  <2>6. Over(H[t + 2], s, Append(done, w))
    BY <2>3, <2>4, <2>5 DEF Over, AtWord
  <2>7. t + 2 \in 0 .. Len(s)
    BY <1>1, <2>1
  <2> QED
    BY <2>6, <2>7
<1> QED
  BY <1>2, <1>3 DEF Stands

\* Where the words stand in a text: word k begins at from[k], and there is one space
\* between any two of them.
Laid(s, words, from) ==
  LET n == Len(words)
  IN  /\ n > 0 /\ from[1] = 1 /\ from[n + 1] = Len(s) + 2
      /\ \A k \in 1 .. n : Stands(s, words[k], from[k], from[k + 1] - 2)
      /\ \A k \in 1 .. n - 1 :
           from[k + 1] \in Nat /\ from[k + 1] <= Len(s) + 1 /\ s[from[k + 1] - 1] = Space

\* A text is split into the words it has been laid out from.
LEMMA SplitsLaid ==
  ASSUME NEW C, NEW s \in Seq(C), NEW S, NEW words \in Seq(S), NEW from, Laid(s, words, from)
  PROVE  SplitString(s) = [words |-> words, end |-> "none"]
<1> DEFINE n == Len(words)
           l == Len(s)
<1>1. n \in Nat /\ n > 0 /\ l \in Nat
  BY DEF Laid
<1>2. PICK H : /\ Scan!IsTrace(H, s, BeginSplit(s), s, l)
               /\ Scan!Folded(s, BeginSplit(s), s) = H[l]
  BY Scan!FoldTrace
<1> DEFINE Read(k) == \E t \in 0 .. from[k] - 1 : AtWord(H[t], s, from[k], SubSeq(words, 1, k - 1))
           G == {j \in 0 .. n - 1 : Read(j + 1)}
<1>3. 0 \in G
  <2>1. H[0] = BeginSplit(s) /\ SubSeq(words, 1, 0) = <<>> /\ from[1] = 1
    BY <1>2 DEF Scan!IsTrace, Laid
  <2>2. AtWord(H[0], s, from[1], SubSeq(words, 1, 0))
    BY <2>1, Begun
  <2>3. 0 \in 0 .. from[1] - 1
    BY <2>1
  <2>4. 0 + 1 = 1 /\ 1 - 1 = 0
    OBVIOUS
  <2> QED
    BY <1>1, <2>2, <2>3, <2>4
<1>4. ASSUME NEW j \in 1 .. n - 1, j - 1 \in G PROVE j \in G
  <2>1. (j - 1) + 1 = j /\ j \in 1 .. n /\ (j + 1) - 1 = j
    BY <1>1
  <2> DEFINE a == from[j]
             b == from[j + 1] - 2
             done == SubSeq(words, 1, j - 1)
  <2>2. PICK t \in 0 .. a - 1 : AtWord(H[t], s, a, done)
    BY <1>4, <2>1
  <2>3. Stands(s, words[j], a, b)
    BY <2>1 DEF Laid
  <2>4. b < Len(s) /\ s[b + 1] = Space /\ b + 2 = from[j + 1] /\ b + 1 = from[j + 1] - 1
    BY <1>1 DEF Laid
  <2>5. SubSeq(words, 1, j) = Append(done, words[j])
    BY <1>1
  <2> HIDE DEF a, b, done
  <2>6. \E u \in 0 .. b + 1 : AtWord(H[u], s, b + 2, Append(done, words[j]))
    BY <1>2, <2>2, <2>3, <2>4, ReadsWord
  <2>7. PICK u \in 0 .. from[j + 1] - 1 : AtWord(H[u], s, from[j + 1], SubSeq(words, 1, j))
    BY <2>4, <2>5, <2>6
  <2>8. Read(j + 1)
    BY <2>1, <2>7
  <2> HIDE DEF Read
  <2> QED
    BY <2>1, <2>8, <1>1
<1>5. n - 1 \in G
  <2>1. \A j \in 0 .. n - 1 : j \in G
    <3>1. n - 1 \in Nat
      BY <1>1
    <3> HIDE DEF G, n
    <3> QED
      BY <1>3, <1>4, <3>1, Scan!UpTo
  <2>2. n - 1 \in 0 .. n - 1
    BY <1>1
  <2> HIDE DEF G
  <2> QED
    BY <2>1, <2>2
<1>6. PICK u \in 0 .. l : Over(H[u], s, words)
  <2> DEFINE a == from[n]
             done == SubSeq(words, 1, n - 1)
  <2>1. (n - 1) + 1 = n /\ n \in 1 .. n
    BY <1>1
  <2>2. PICK t \in 0 .. a - 1 : AtWord(H[t], s, a, done)
    BY <1>5, <2>1
  <2>3. Stands(s, words[n], a, l)
    <3>1. from[n + 1] - 2 = l
      BY <1>1 DEF Laid
    <3>2. Stands(s, words[n], from[n], from[n + 1] - 2)
      BY <2>1 DEF Laid
    <3> HIDE DEF n, l
    <3> QED
      BY <3>1, <3>2
  <2>4. words = Append(done, words[n])
    BY <1>1
  <2> HIDE DEF a, done, n
  <2> QED
    BY <1>2, <2>2, <2>3, <2>4, ReadsLast
<1>7. H[l] = H[u]
  <2> DEFINE E == {k \in 0 .. l : k >= u => H[k] = H[u]}
  <2>1. 0 \in E
    BY <1>1
  <2>2. ASSUME NEW k \in 1 .. l, k - 1 \in E PROVE k \in E
    <3>1. CASE k <= u
      BY <3>1
    <3>2. CASE k > u
      <4>1. H[k - 1] = H[u] /\ k - 1 \in Nat /\ k - 1 < l /\ (k - 1) + 1 = k
        BY <2>2, <3>2
      <4>2. H[k] = Turn(s, H[k - 1])
        BY <1>2, <4>1, Turned
      <4>3. Turn(s, H[u]) = H[u]
        BY <1>6 DEF Turn, Over
      <4> QED
        BY <4>1, <4>2, <4>3
    <3> QED
      BY <3>1, <3>2
  <2>3. \A k \in 0 .. l : k \in E
    <3> HIDE DEF E, l
    <3> QED
      BY <1>1, <2>1, <2>2, Scan!UpTo
  <2> QED
    BY <1>1, <2>3
<1>8. SplitString(s) = [words |-> IF H[l].end = "none"
                                  THEN PushBack(H[l].words, s, H[l].at, Len(s)) ELSE <<>>,
                        end |-> H[l].end]
  <2>1. FoldLeft(LAMBDA y, i : Turn(s, y), BeginSplit(s), s) = H[l]
    BY <1>2, ScanFold
  <2> QED
    BY <2>1 DEF SplitString
<1> QED
  BY <1>6, <1>7, <1>8 DEF Over

\* Two sequences of the same elements are one.
LEMMA SameElements ==
  ASSUME NEW S, NEW p \in Seq(S), NEW q \in Seq(S), Len(p) = Len(q),
         \A i \in 1 .. Len(p) : p[i] = q[i]
  PROVE  p = q
OBVIOUS

LEMMA Joins ==
  ASSUME NEW S, NEW p \in Seq(S), NEW q \in Seq(S)
  PROVE  /\ p \o q \in Seq(S) /\ Len(p \o q) = Len(p) + Len(q)
         /\ \A i \in 1 .. Len(p) : (p \o q)[i] = p[i]
         /\ \A i \in 1 .. Len(q) : (p \o q)[Len(p) + i] = q[i]
OBVIOUS

LEMMA Cut ==
  ASSUME NEW S, NEW p \in Seq(S), NEW a \in Nat \ {0}, NEW b \in Nat, a <= b + 1, b <= Len(p)
  PROVE  /\ SubSeq(p, a, b) \in Seq(S) /\ Len(SubSeq(p, a, b)) = b - a + 1
         /\ \A i \in 1 .. b - a + 1 : SubSeq(p, a, b)[i] = p[a + i - 1]
<1>1. /\ Len(SubSeq(p, a, b)) = b - a + 1
      /\ \A i \in 1 .. b - a + 1 : SubSeq(p, a, b)[i] = p[a + i - 1]
   OBVIOUS
<1>2. SubSeq(p, a, b) \in Seq(S)
   OBVIOUS
<1> QED BY <1>1, <1>2

LEMMA Appended ==
  ASSUME NEW S, NEW p \in Seq(S), NEW e \in S
  PROVE  Append(p, e) \in Seq(S) /\ Append(p, e) # <<>>
<1>1. Append(p, e) \in Seq(S) /\ Len(Append(p, e)) = Len(p) + 1
  OBVIOUS
<1>2. Len(p) \in Nat /\ Len(<<>>) = 0
  OBVIOUS
<1>3. Len(p) + 1 # 0
  BY <1>2
<1> QED
  BY ONLY <1>1, <1>2, <1>3

LEMMA SameCut ==
  ASSUME NEW S, NEW p \in Seq(S), NEW q \in Seq(S), NEW a \in Nat \ {0}, NEW b \in Nat,
         a <= b + 1, b <= Len(p), b <= Len(q), \A i \in a .. b : p[i] = q[i]
  PROVE  SubSeq(p, a, b) = SubSeq(q, a, b)
<1> DEFINE u == SubSeq(p, a, b)
           v == SubSeq(q, a, b)
<1>1. /\ u \in Seq(S) /\ Len(u) = b - a + 1
      /\ \A i \in 1 .. b - a + 1 : u[i] = p[a + i - 1]
  BY ONLY a \in Nat \ {0}, b \in Nat, a <= b + 1, b <= Len(p), p \in Seq(S), Cut
<1>2. /\ v \in Seq(S) /\ Len(v) = b - a + 1
      /\ \A i \in 1 .. b - a + 1 : v[i] = q[a + i - 1]
  BY ONLY a \in Nat \ {0}, b \in Nat, a <= b + 1, b <= Len(q), q \in Seq(S), Cut
<1> HIDE DEF u, v
<1>3. ASSUME NEW i \in 1 .. b - a + 1 PROVE u[i] = v[i]
  <2>1. a + i - 1 \in a .. b
    OBVIOUS
  <2>2. p[a + i - 1] = q[a + i - 1]
    BY <2>1
  <2> QED
    BY <1>1, <1>2, <2>2
<1>4. u = v
  BY ONLY <1>1, <1>2, <1>3, SameElements
<1> QED
  BY <1>4 DEF u, v

LEMMA CutMore ==
  ASSUME NEW S, NEW s \in Seq(S), NEW x \in S, s # <<>>
  PROVE  SubSeq(Append(s, x), 2, Len(Append(s, x))) = Append(SubSeq(s, 2, Len(s)), x)
<1> DEFINE t == Append(s, x)
           n == Len(s)
           u == SubSeq(t, 2, n + 1)
           c == SubSeq(s, 2, n)
           v == Append(c, x)
<1>1. /\ t \in Seq(S) /\ Len(t) = n + 1 /\ n \in Nat /\ n > 0 /\ t[n + 1] = x
      /\ \A i \in 1 .. n : t[i] = s[i]
  OBVIOUS
<1> HIDE DEF t
<1>2. u \in Seq(S) /\ Len(u) = n /\ \A i \in 1 .. n : u[i] = t[1 + i]
  BY <1>1
<1>3. c \in Seq(S) /\ Len(c) = n - 1 /\ \A i \in 1 .. n - 1 : c[i] = s[1 + i]
  <2>1. 2 \in Nat \ {0} /\ 2 <= n + 1 /\ n <= Len(s)
    BY <1>1
  <2>2. /\ c \in Seq(S) /\ Len(c) = n - 2 + 1
        /\ \A i \in 1 .. n - 2 + 1 : c[i] = s[2 + i - 1]
    BY <1>1, <2>1, Cut
  <2> HIDE DEF c, n
  <2>3. n - 2 + 1 = n - 1 /\ \A i \in 1 .. n - 1 : 2 + i - 1 = 1 + i
    BY <1>1
  <2> QED
    BY ONLY <2>2, <2>3
<1> HIDE DEF c, u
<1>4. /\ v \in Seq(S) /\ Len(v) = n /\ v[n] = x
      /\ \A i \in 1 .. n - 1 : v[i] = s[1 + i]
  <2>1. v \in Seq(S) /\ Len(v) = Len(c) + 1 /\ v[Len(c) + 1] = x
        /\ \A i \in 1 .. Len(c) : v[i] = c[i]
    BY <1>3
  <2>2. Len(c) + 1 = n
    BY <1>1, <1>3
  <2> HIDE DEF v, n
  <2> QED
    BY ONLY <1>3, <2>1, <2>2
<1> HIDE DEF v, n
<1>5. ASSUME NEW i \in 1 .. n PROVE u[i] = v[i]
  <2>1. CASE i = n
    <3>1. 1 + n = n + 1
      BY <1>1
    <3> QED
      BY <1>1, <1>2, <1>4, <2>1, <3>1
  <2>2. CASE i \in 1 .. n - 1
    <3>1. 1 + i \in 1 .. n
      BY <1>1, <2>2
    <3> QED
      BY <1>1, <1>2, <1>4, <2>2, <3>1
  <2>3. i = n \/ i \in 1 .. n - 1
    BY <1>1
  <2> QED
    BY <2>1, <2>2, <2>3
<1>6. u = v
  BY ONLY <1>2, <1>4, <1>5, SameElements
<1> QED
  BY <1>1, <1>6 DEF u, v, c, t, n

LEMMA CutOne ==
  ASSUME NEW S, NEW p \in Seq(S), p # <<>>
  PROVE  p[1] \in S /\ SubSeq(p, 1, 1) = <<p[1]>>
<1> DEFINE c == SubSeq(p, 1, 1)
           d == <<p[1]>>
<1>1. Len(p) \in Nat /\ Len(p) > 0 /\ p[1] \in S
  OBVIOUS
<1>2. c \in Seq(S) /\ Len(c) = (1 - 1) + 1 /\ \A i \in 1 .. (1 - 1) + 1 : c[i] = p[1 + i - 1]
  BY <1>1, Cut
<1>3. d \in Seq(S) /\ Len(d) = 1 /\ d[1] = p[1]
  BY <1>1
<1> HIDE DEF c, d
<1>4. c[1] = p[1] /\ Len(c) = 1
  BY <1>2
<1>5. c = d
  BY ONLY <1>2, <1>3, <1>4, SameElements
<1> QED
  BY <1>1, <1>5 DEF c, d

LEMMA JoinsAgain ==
  ASSUME NEW S, NEW p \in Seq(S), NEW q \in Seq(S), NEW r \in Seq(S)
  PROVE  p \o (q \o r) = (p \o q) \o r
<1>1. p \o (q \o r) \in Seq(S) /\ (p \o q) \o r \in Seq(S)
  OBVIOUS
<1>2. Len(p \o (q \o r)) = Len((p \o q) \o r)
  OBVIOUS
<1>3. \A i \in 1 .. Len(p \o (q \o r)) : (p \o (q \o r))[i] = ((p \o q) \o r)[i]
  OBVIOUS
<1> QED BY <1>1, <1>2, <1>3, SameElements

\* The middle of three.
LEMMA Middle ==
  ASSUME NEW S, NEW p \in Seq(S), NEW q \in Seq(S), NEW r \in Seq(S), NEW t, t = p \o q \o r
  PROVE  /\ t \in Seq(S) /\ Len(t) = Len(p) + Len(q) + Len(r)
         /\ \A i \in 1 .. Len(p) : t[i] = p[i]
         /\ \A i \in 1 .. Len(q) : t[Len(p) + i] = q[i]
         /\ \A i \in 1 .. Len(r) : t[Len(p) + Len(q) + i] = r[i]
         /\ SubSeq(t, Len(p) + 1, Len(p) + Len(q)) = q
<1>1. /\ t \in Seq(S) /\ Len(t) = Len(p) + Len(q) + Len(r)
      /\ \A i \in 1 .. Len(p) : t[i] = p[i]
      /\ \A i \in 1 .. Len(q) : t[Len(p) + i] = q[i]
      /\ \A i \in 1 .. Len(r) : t[Len(p) + Len(q) + i] = r[i]
  OBVIOUS
<1>2. SubSeq(t, Len(p) + 1, Len(p) + Len(q)) = q
  <2> DEFINE c == SubSeq(t, Len(p) + 1, Len(p) + Len(q))
  <2>1. Len(p) \in Nat /\ Len(q) \in Nat /\ Len(r) \in Nat
    OBVIOUS
  <2>2. c \in Seq(S) /\ Len(c) = Len(q) /\ \A i \in 1 .. Len(q) : c[i] = t[Len(p) + i]
    BY <1>1, <2>1, Cut
  <2> HIDE DEF c
  <2>3. \A i \in 1 .. Len(c) : c[i] = q[i]
    BY ONLY <1>1, <2>2
  <2>4. c = q
    BY ONLY <2>2, <2>3, SameElements, q \in Seq(S)
  <2> QED BY <2>4 DEF c
<1> QED BY <1>1, <1>2
\* FoldLeft with the Add of AddActions.
AddTo(c, text, arg) == text \o AddQuotesToArgument(arg) \o <<Space>>
Adds == INSTANCE LeftFolds WITH Op <- AddTo

Chars(C) == C \cup {Space, Quote}

\* Words that hold no quotes, and are not empty.
Quotable(C) == {w \in Seq(C) : w # <<>> /\ ~Has(w, Quote)}

LEMMA AddedQuotes ==
  ASSUME NEW C, NEW w \in Quotable(C)
  PROVE  AddQuotesToArgument(w) = IF Has(w, Space) THEN <<Quote>> \o w \o <<Quote>> ELSE w
<1> DEFINE front == <<Quote>> \o w
<1>1. /\ w \in Seq(C) /\ Len(w) \in Nat /\ Len(w) > 0
      /\ w[1] # Quote /\ w[Len(w)] # Quote
  BY DEF Quotable, Has, Range
<1>2. Len(front) = Len(w) + 1 /\ front[Len(front)] = w[Len(w)]
  BY <1>1
<1>3. Append(front, Quote) = <<Quote>> \o w \o <<Quote>>
  BY <1>1
<1> QED
  BY <1>1, <1>2, <1>3 DEF AddQuotesToArgument

LEMMA AddedType ==
  ASSUME NEW C, NEW w \in Quotable(C)
  PROVE  AddQuotesToArgument(w) \in Seq(Chars(C)) /\ Len(AddQuotesToArgument(w)) > 0
<1>1. w \in Seq(Chars(C)) /\ Len(w) > 0 /\ <<Quote>> \in Seq(Chars(C))
  BY DEF Quotable, Chars
<1>2. <<Quote>> \o w \o <<Quote>> \in Seq(Chars(C)) /\ Len(<<Quote>> \o w \o <<Quote>>) > 0
  BY <1>1
<1> QED
  BY <1>1, <1>2, AddedQuotes

\* A word at the end of a text, as it is or in quotes.
LEMMA StandsBare ==
  ASSUME NEW S, NEW p \in Seq(S), NEW w \in Seq(S), w # <<>>, ~Has(w, Space), ~Has(w, Quote)
  PROVE  Stands(p \o w, w, Len(p) + 1, Len(p \o w))
<1> DEFINE t == p \o w \o <<>>
<1>1. p \o w = t
  OBVIOUS
<1>2. \A i \in 1 .. Len(w) : w[i] # Space /\ w[i] # Quote
  BY DEF Has, Range
<1>3. PICK l \in Nat, m \in Nat : l = Len(p) /\ m = Len(w) /\ m > 0
  OBVIOUS
<1>4. /\ Len(t) = l + m /\ SubSeq(t, l + 1, l + m) = w
      /\ \A i \in 1 .. m : t[l + i] = w[i]
  <2>1. <<>> \in Seq(S) /\ Len(<<>>) = 0
    OBVIOUS
  <2> HIDE DEF t
  <2>2. /\ Len(t) = Len(p) + Len(w) + 0 /\ SubSeq(t, Len(p) + 1, Len(p) + Len(w)) = w
        /\ \A i \in 1 .. Len(w) : t[Len(p) + i] = w[i]
    BY <2>1, Middle DEF t
  <2>3. Len(p) + Len(w) + 0 = l + m
    BY ONLY <1>3
  <2> QED
    BY ONLY <1>3, <2>2, <2>3
<1> HIDE DEF t
<1>5. Bare(t, w, l + 1, l + m)
  <2>1. ASSUME NEW i \in l + 1 .. l + m PROVE t[i] # Space /\ t[i] # Quote
    <3>1. i - l \in 1 .. m /\ l + (i - l) = i
      BY ONLY <1>3, i \in l + 1 .. l + m
    <3>2. t[i] = w[i - l]
      BY ONLY <1>4, <3>1
    <3> QED
      BY ONLY <1>2, <1>3, <3>1, <3>2
  <2> QED
    BY <1>4, <2>1 DEF Bare, Without
<1>6. Stands(t, w, l + 1, l + m)
  BY ONLY <1>3, <1>4, <1>5 DEF Stands
<1> QED
  BY ONLY <1>1, <1>3, <1>4, <1>6

LEMMA StandsQuoted ==
  ASSUME NEW S, NEW p \in Seq(S), NEW w \in Seq(S), Has(w, Space), ~Has(w, Quote),
         Quote \in S, Len(p) > 1, p[Len(p)] = Quote, p[Len(p) - 1] = Space, NEW t,
         t = p \o w \o <<Quote>>
  PROVE  Stands(t, w, Len(p), Len(t))
<1>1. \A i \in 1 .. Len(w) : w[i] # Quote
  BY DEF Has, Range
<1>2. PICK j \in 1 .. Len(w) : w[j] = Space
  BY DEF Has, Range
<1>3. PICK l \in Nat, m \in Nat : l = Len(p) /\ m = Len(w) /\ m > 0 /\ l > 1
  OBVIOUS
<1>4. /\ Len(t) = l + m + 1 /\ SubSeq(t, l + 1, l + m) = w
      /\ \A i \in 1 .. m : t[l + i] = w[i]
      /\ t[l - 1] = Space /\ t[l] = Quote /\ t[l + m + 1] = Quote
  <2>1. <<Quote>> \in Seq(S) /\ Len(<<Quote>>) = 1 /\ <<Quote>>[1] = Quote
    OBVIOUS
  <2>2. /\ Len(t) = Len(p) + Len(w) + Len(<<Quote>>)
        /\ SubSeq(t, Len(p) + 1, Len(p) + Len(w)) = w
        /\ \A i \in 1 .. Len(p) : t[i] = p[i]
        /\ \A i \in 1 .. Len(w) : t[Len(p) + i] = w[i]
        /\ \A i \in 1 .. Len(<<Quote>>) : t[Len(p) + Len(w) + i] = <<Quote>>[i]
    BY <2>1, Middle
  <2>3. l - 1 \in 1 .. l /\ l \in 1 .. l /\ 1 \in 1 .. 1
    BY <1>3
  <2>4. p[l] = Quote /\ p[l - 1] = Space
    BY ONLY <1>3, p[Len(p)] = Quote, p[Len(p) - 1] = Space
  <2> QED
    BY ONLY <1>3, <2>1, <2>2, <2>3, <2>4
<1>5. Quoted(t, w, l, l + m + 1)
  <2>1. ASSUME NEW i \in l + 1 .. l + m PROVE t[i] # Quote
    <3>1. i - l \in 1 .. m /\ l + (i - l) = i
      BY ONLY <1>3, i \in l + 1 .. l + m
    <3>2. t[i] = w[i - l]
      BY ONLY <1>4, <3>1
    <3> QED
      BY ONLY <1>1, <1>3, <3>1, <3>2
  <2>2. l + j \in l + 1 .. l + m /\ t[l + j] = Space
    BY ONLY <1>2, <1>3, <1>4
  <2>3. (l + m + 1) - 1 = l + m /\ l + 1 < l + m + 1
    BY <1>3
  <2> QED
    BY ONLY <1>4, <2>1, <2>2, <2>3 DEF Quoted, Without
<1>6. Stands(t, w, l, l + m + 1)
  BY ONLY <1>3, <1>4, <1>5 DEF Stands
<1> QED
  BY ONLY <1>3, <1>4, <1>6

\* A word where it has been added.
LEMMA StandsAt ==
  ASSUME NEW C, NEW s \in Seq(Chars(C)), NEW w \in Quotable(C), NEW t,
         t = s \o <<Space>> \o AddQuotesToArgument(w)
  PROVE  Stands(t, w, Len(s) + 2, Len(t))
<1>1. /\ w \in Seq(Chars(C)) /\ w # <<>> /\ ~Has(w, Quote) /\ Space \in Chars(C)
      /\ Quote \in Chars(C)
  BY DEF Quotable, Chars
<1> DEFINE T == Chars(C)
           p == s \o <<Space>>
           q == p \o <<Quote>>
<1>2. <<Space>> \in Seq(T) /\ <<Quote>> \in Seq(T) /\ s \in Seq(T)
  BY <1>1
<1>3. p \in Seq(T) /\ Len(p) = Len(s) + 1 /\ p[Len(s) + 1] = Space /\ Len(s) \in Nat
  <2> HIDE DEF T
  <2> QED
    BY ONLY <1>2 DEF p
<1> HIDE DEF T, p
<1>4. CASE ~Has(w, Space)
  <2>1. t = p \o w
    BY <1>4, AddedQuotes DEF p
  <2>2. Stands(p \o w, w, Len(p) + 1, Len(p \o w))
    BY <1>1, <1>3, <1>4, StandsBare DEF T
  <2>3. Len(p) + 1 = Len(s) + 2
    BY <1>3
  <2> QED
    BY <2>1, <2>2, <2>3
<1>5. CASE Has(w, Space)
  <2>1. q \in Seq(T) /\ Len(q) = Len(s) + 2 /\ q[Len(s) + 1] = Space /\ q[Len(s) + 2] = Quote
    BY <1>1, <1>3 DEF T
  <2>2. t = (q \o w) \o <<Quote>>
    <3>1. t = p \o ((<<Quote>> \o w) \o <<Quote>>)
      BY <1>5, AddedQuotes DEF p
    <3>2. <<Quote>> \o w \in Seq(T) /\ w \in Seq(T)
      BY <1>1 DEF T
    <3>3. p \o ((<<Quote>> \o w) \o <<Quote>>) = (p \o (<<Quote>> \o w)) \o <<Quote>>
      BY ONLY <1>2, <1>3, <3>2, JoinsAgain
    <3>4. p \o (<<Quote>> \o w) = (p \o <<Quote>>) \o w
      BY ONLY <1>2, <1>3, <3>2, JoinsAgain
    <3> QED
      BY ONLY <3>1, <3>3, <3>4
  <2> HIDE DEF q
  <2>3. Len(q) > 1 /\ q[Len(q)] = Quote /\ q[Len(q) - 1] = Space
    <3>1. (Len(s) + 2) - 1 = Len(s) + 1
      BY <1>3
    <3> QED
      BY <1>3, <2>1, <3>1
  <2>4. Stands(t, w, Len(q), Len(t))
    BY <1>1, <1>5, <2>1, <2>2, <2>3, StandsQuoted DEF T
  <2> QED
    BY <2>1, <2>4
<1> QED
  BY <1>4, <1>5

\* A word where more has been added.
LEMMA StandsOn ==
  ASSUME NEW C, NEW s \in Seq(C), NEW r \in Seq(C), NEW w, NEW a, NEW b, Stands(s, w, a, b)
  PROVE  Stands(s \o r, w, a, b)
<1> DEFINE t == s \o r
<1>1. a \in Nat \ {0} /\ b \in Nat /\ a <= b /\ b <= Len(s) /\ b <= Len(t)
  BY DEF Stands
<1>2. \A i \in 1 .. Len(s) : t[i] = s[i]
  OBVIOUS
<1>3. SubSeq(t, a, b) = SubSeq(s, a, b) /\ SubSeq(t, a + 1, b - 1) = SubSeq(s, a + 1, b - 1)
  BY <1>1, <1>2
<1> HIDE DEF t
<1>4. ASSUME Bare(s, w, a, b) PROVE Bare(t, w, a, b)
  <2>1. \A i \in a .. b : i \in 1 .. Len(s)
    BY <1>1
  <2> QED
    BY <1>2, <1>3, <1>4, <2>1 DEF Bare, Without
<1>5. ASSUME Quoted(s, w, a, b) PROVE Quoted(t, w, a, b)
  <2>1. a \in 1 .. Len(s) /\ b \in 1 .. Len(s)
    BY <1>1
  <2>2. \A i \in a + 1 .. b - 1 : i \in 1 .. Len(s)
    BY <1>1
  <2>3. \A i \in a + 1 .. b - 1 : t[i] = s[i]
    BY ONLY <1>2, <2>2
  <2>4. t[a] = s[a] /\ t[b] = s[b]
    BY ONLY <1>2, <2>1
  <2> QED
    BY ONLY <1>3, <1>5, <2>3, <2>4 DEF Quoted, Without
<1>6. a > 1 => t[a - 1] = s[a - 1]
  BY <1>1, <1>2
<1>7. Stands(t, w, a, b)
  BY <1>1, <1>4, <1>5, <1>6 DEF Stands
<1> QED
  BY <1>7 DEF t

\* One word, and one more.
LEMMA LaidOne ==
  ASSUME NEW C, NEW w \in Quotable(C), ~Has(w, Space)
  PROVE  Laid(w, <<w>>, <<1, Len(w) + 2>>)
<1>1. /\ w \in Seq(C) /\ Len(w) \in Nat /\ Len(w) > 0
      /\ \A i \in 1 .. Len(w) : w[i] # Quote /\ w[i] # Space
  BY DEF Quotable, Has, Range
<1>2. Bare(w, w, 1, Len(w))
  BY <1>1 DEF Bare, Without
<1>3. Stands(w, w, 1, Len(w))
  BY <1>1, <1>2 DEF Stands
<1>4. (Len(w) + 2) - 2 = Len(w)
  BY <1>1
<1> QED
  BY <1>3, <1>4 DEF Laid

LEMMA LaidMore ==
  ASSUME NEW C, NEW s \in Seq(Chars(C)), NEW S, NEW words \in Seq(S), NEW from,
         Laid(s, words, from), NEW w \in Quotable(C), w \in S, NEW t,
         t = s \o <<Space>> \o AddQuotesToArgument(w)
  PROVE  \E to : Laid(t, Append(words, w), to)
<1> DEFINE n == Len(words)
           l == Len(t)
           more == Append(words, w)
           to == [k \in 1 .. n + 2 |-> IF k <= n + 1 THEN from[k] ELSE l + 2]
           r == <<Space>> \o AddQuotesToArgument(w)
<1>1. n \in Nat /\ n > 0 /\ from[1] = 1 /\ from[n + 1] = Len(s) + 2 /\ Len(s) \in Nat
  BY DEF Laid
<1>2. /\ r \in Seq(Chars(C)) /\ t = s \o r /\ t \in Seq(Chars(C)) /\ l \in Nat
      /\ t[Len(s) + 1] = Space /\ Len(s) + 1 <= l /\ \A i \in 1 .. Len(s) : t[i] = s[i]
  <2>1. AddQuotesToArgument(w) \in Seq(Chars(C)) /\ <<Space>> \in Seq(Chars(C))
    BY AddedType DEF Chars
  <2> QED
    BY <2>1
<1>3. /\ Len(more) = n + 1 /\ more[n + 1] = w /\ \A k \in 1 .. n : more[k] = words[k]
  BY <1>1
<1>4. /\ to[1] = 1 /\ to[n + 2] = l + 2 /\ \A k \in 1 .. n + 1 : to[k] = from[k]
  BY <1>1
<1> HIDE DEF to, more, r
<1>5. ASSUME NEW k \in 1 .. n + 1 PROVE Stands(t, more[k], to[k], to[k + 1] - 2)
  <2>1. CASE k \in 1 .. n
    <3>1. Stands(s, words[k], from[k], from[k + 1] - 2)
      BY <2>1 DEF Laid
    <3>2. k \in 1 .. n + 1 /\ k + 1 \in 1 .. n + 1
      BY <1>1, <2>1
    <3>3. Stands(t, words[k], from[k], from[k + 1] - 2)
      BY <1>2, <3>1, StandsOn
    <3>4. more[k] = words[k] /\ to[k] = from[k] /\ to[k + 1] = from[k + 1]
      BY <1>3, <1>4, <2>1, <3>2
    <3> QED
      BY <3>3, <3>4
  <2>2. CASE k = n + 1
    <3>1. to[k] = Len(s) + 2 /\ to[k + 1] - 2 = l /\ more[k] = w
      BY <1>1, <1>2, <1>3, <1>4, <2>2
    <3>2. Stands(t, w, Len(s) + 2, l)
      BY StandsAt
    <3> QED
      BY <3>1, <3>2
  <2> QED
    BY <1>1, <2>1, <2>2
<1>6. ASSUME NEW k \in 1 .. n
      PROVE  to[k + 1] \in Nat /\ to[k + 1] <= l + 1 /\ t[to[k + 1] - 1] = Space
  <2>1. to[k + 1] = from[k + 1]
    BY <1>1, <1>4
  <2>2. CASE k = n
    <3>1. to[k + 1] = Len(s) + 2
      BY <1>1, <2>1, <2>2
    <3>2. /\ to[k + 1] - 1 = Len(s) + 1 /\ to[k + 1] \in Nat
      BY <1>1, <3>1
    <3>3. Len(s) + 2 <= l + 1
      <4> HIDE DEF l
      <4> QED
        BY ONLY <1>1, <1>2
    <3> QED
      BY ONLY <1>2, <3>1, <3>2, <3>3
  <2>3. CASE k \in 1 .. n - 1
    <3>1. from[k + 1] \in Nat /\ from[k + 1] <= Len(s) + 1 /\ s[from[k + 1] - 1] = Space
      BY <2>3 DEF Laid
    <3>2. from[k + 1] - 1 \in 1 .. Len(s)
      <4>1. Stands(s, words[k], from[k], from[k + 1] - 2)
        BY <2>3 DEF Laid
      <4> QED
        BY <1>1, <3>1, <4>1 DEF Stands
    <3> QED
      BY <1>2, <2>1, <3>1, <3>2
  <2>4. k = n \/ k \in 1 .. n - 1
    BY <1>1
  <2> QED
    BY ONLY <2>2, <2>3, <2>4
<1>7. Laid(t, more, to)
  <2> HIDE DEF n, l
  <2>1. /\ n + 1 > 0 /\ (n + 1) + 1 = n + 2 /\ (n + 1) - 1 = n
    BY <1>1
  <2> QED
    BY <1>3, <1>4, <1>5, <1>6, <2>1 DEF Laid, l
<1> QED
  BY <1>7 DEF more

LEMMA AddsFold ==
  ASSUME NEW args
  PROVE  AddActions(args) = LET text == Adds!Folded({}, <<>>, args)
                            IN  IF Len(text) > 1 THEN SubSeq(text, 1, Len(text) - 1) ELSE text
<1> DEFINE Add(text, arg) == text \o AddQuotesToArgument(arg) \o <<Space>>
<1>1. FoldLeft(Add, <<>>, args) = Adds!Folded({}, <<>>, args)
  BY DEF FoldLeft, MapThenFoldSet, Max, Adds!Folded, Adds!FoldLeft, Adds!MapThenFoldSet,
         Adds!Max, AddTo
<1> QED
  BY <1>1 DEF AddActions

\* The text of words, each with a space behind it.
Added(words) == Adds!Folded({}, <<>>, words)

LEMMA AddedInText ==
  ASSUME NEW C, NEW words \in Seq(Quotable(C))
  PROVE  Added(words) \in Seq(Chars(C))
<1> DEFINE n == Len(words)
<1>1. n \in Nat /\ DOMAIN words = 1 .. n /\ \A k \in 1 .. n : words[k] \in Quotable(C)
  OBVIOUS
<1> HIDE DEF n
<1>2. PICK H : Adds!IsTrace(H, {}, <<>>, words, n) /\ Added(words) = H[n]
  BY <1>1, Adds!FoldTrace DEF Added
<1> DEFINE G == {k \in 0 .. n : H[k] \in Seq(Chars(C))}
<1>3. 0 \in G
  BY <1>1, <1>2 DEF Adds!IsTrace
<1>4. ASSUME NEW k \in 1 .. n, k - 1 \in G PROVE k \in G
  <2>1. H[k] = H[k - 1] \o AddQuotesToArgument(words[k]) \o <<Space>>
    BY <1>2 DEF Adds!IsTrace, AddTo
  <2>2. AddQuotesToArgument(words[k]) \in Seq(Chars(C)) /\ <<Space>> \in Seq(Chars(C))
    BY <1>1, AddedType DEF Chars
  <2>3. H[k] \in Seq(Chars(C))
    BY <1>4, <2>1, <2>2
  <2> QED
    BY <2>3
<1>5. \A k \in 0 .. n : k \in G
  <2> HIDE DEF G
  <2> QED
    BY <1>1, <1>3, <1>4, Adds!UpTo
<1> QED
  BY <1>1, <1>2, <1>5

\* A sequence without what has been appended.
LEMMA ButLast ==
  ASSUME NEW S, NEW p \in Seq(S), NEW e \in S
  PROVE  SubSeq(p \o <<e>>, 1, Len(p \o <<e>>) - 1) = p
<1>1. <<>> \o p \o <<e>> = p \o <<e>> /\ <<e>> \in Seq(S) /\ Len(<<e>>) = 1
      /\ <<>> \in Seq(S) /\ Len(<<>>) = 0 /\ Len(p) \in Nat
  OBVIOUS
<1>2. /\ SubSeq(p \o <<e>>, Len(<<>>) + 1, Len(<<>>) + Len(p)) = p
      /\ Len(p \o <<e>>) = Len(<<>>) + Len(p) + Len(<<e>>)
  BY <1>1, Middle
<1>3. Len(<<>>) + 1 = 1 /\ Len(<<>>) + Len(p) = Len(p) /\ Len(p \o <<e>>) - 1 = Len(p)
  BY ONLY <1>1, <1>2
<1> QED
  BY ONLY <1>2, <1>3

LEMMA AddedLast ==
  ASSUME NEW C, NEW words \in Seq(Quotable(C)), NEW w \in Quotable(C)
  PROVE  /\ AddActions(Append(words, w)) = Added(words) \o AddQuotesToArgument(w)
         /\ AddActions(Append(words, w)) \in Seq(Chars(C))
         /\ Added(Append(words, w)) = AddActions(Append(words, w)) \o <<Space>>
<1> DEFINE p == Added(words) \o AddQuotesToArgument(w)
           text == Added(Append(words, w))
<1>1. /\ Added(words) \in Seq(Chars(C)) /\ AddQuotesToArgument(w) \in Seq(Chars(C))
      /\ Len(AddQuotesToArgument(w)) > 0 /\ Space \in Chars(C)
  BY AddedInText, AddedType DEF Chars
<1>2. p \in Seq(Chars(C)) /\ Len(p) > 0
  BY <1>1
<1>3. text = p \o <<Space>>
  BY Adds!FoldOfMore DEF Added, AddTo
<1>4. AddActions(Append(words, w)) = IF Len(text) > 1 THEN SubSeq(text, 1, Len(text) - 1) ELSE text
  BY AddsFold DEF Added
<1> HIDE DEF p, text
<1>5. Len(text) > 1
  BY <1>2, <1>3
<1>6. SubSeq(text, 1, Len(text) - 1) = p
  BY <1>1, <1>2, <1>3, ButLast
<1> QED
  BY <1>2, <1>3, <1>4, <1>5, <1>6 DEF p, text

\* A line of one word, and of one word more: adding an answer adds a word.
LEMMA AddedFirst ==
  ASSUME NEW C, NEW w \in Quotable(C)
  PROVE  AddActions(<<w>>) = AddQuotesToArgument(w)
<1>1. <<>> \in Seq(Quotable(C)) /\ Append(<<>>, w) = <<w>> /\ Added(<<>>) = <<>>
  BY Adds!FoldOfNone DEF Added
<1>2. AddQuotesToArgument(w) \in Seq(Chars(C))
  BY AddedType
<1>3. AddActions(<<w>>) = <<>> \o AddQuotesToArgument(w)
  BY <1>1, AddedLast
<1> QED
  BY <1>2, <1>3

LEMMA AddedMore ==
  ASSUME NEW C, NEW words \in Seq(Quotable(C)), words # <<>>, NEW w \in Quotable(C)
  PROVE  /\ AddActions(Append(words, w)) = AddAction(AddActions(words), w)
         /\ AddActions(words) \in Seq(Chars(C))
<1> DEFINE n == Len(words)
           front == SubSeq(words, 1, n - 1)
<1>1. front \in Seq(Quotable(C)) /\ words[n] \in Quotable(C) /\ words = Append(front, words[n])
  OBVIOUS
<1> HIDE DEF front, n
<1>2. Added(words) = AddActions(words) \o <<Space>> /\ AddActions(words) \in Seq(Chars(C))
  BY <1>1, AddedLast
<1>3. AddActions(Append(words, w)) = Added(words) \o AddQuotesToArgument(w)
  BY AddedLast
<1> QED
  BY <1>2, <1>3 DEF AddAction

\* A line is laid out from its words.
LEMMA LineIsLaid ==
  ASSUME NEW C, NEW words \in Seq(Quotable(C)), words # <<>>, ~Has(words[1], Space)
  PROVE  \E from : Laid(AddActions(words), words, from)
<1> DEFINE n == Len(words)
           upto(k) == SubSeq(words, 1, k)
           Is(k) == \E from : Laid(AddActions(upto(k)), upto(k), from)
           G == {k \in 0 .. n - 1 : Is(k + 1)}
<1>1. n \in Nat /\ n > 0 /\ n - 1 \in Nat
  OBVIOUS
<1>2. 0 \in G
  <2>1. upto(1) = <<words[1]>> /\ words[1] \in Quotable(C)
    BY <1>1, CutOne
  <2>2. AddActions(upto(1)) = words[1]
    BY <2>1, AddedFirst, AddedQuotes
  <2>3. Laid(words[1], <<words[1]>>, <<1, Len(words[1]) + 2>>)
    BY <2>1, LaidOne
  <2>4. Is(1)
    BY <2>1, <2>2, <2>3
  <2>5. 0 + 1 = 1 /\ 0 \in 0 .. n - 1
    BY <1>1
  <2> HIDE DEF Is
  <2> QED
    BY <2>4, <2>5
<1>3. ASSUME NEW k \in 1 .. n - 1, k - 1 \in G PROVE k \in G
  <2>1. /\ upto(k) \in Seq(Quotable(C)) /\ upto(k) # <<>> /\ words[k + 1] \in Quotable(C)
        /\ upto(k + 1) = Append(upto(k), words[k + 1])
    <3>1. k \in Nat /\ k > 0 /\ k + 1 \in 1 .. n /\ k <= n
      BY <1>1
    <3>2. upto(k) \in Seq(Quotable(C)) /\ Len(upto(k)) = k /\ words[k + 1] \in Quotable(C)
      BY <3>1
    <3>3. upto(k + 1) = Append(upto(k), words[k + 1])
      BY <3>1
    <3> QED
      BY <3>1, <3>2, <3>3
  <2>2. (k - 1) + 1 = k
    BY <1>1
  <2>3. PICK from : Laid(AddActions(upto(k)), upto(k), from)
    BY <1>3, <2>2
  <2> HIDE DEF upto
  <2> DEFINE s == AddActions(upto(k))
             t == AddActions(upto(k + 1))
  <2>4. t = s \o <<Space>> \o AddQuotesToArgument(words[k + 1]) /\ s \in Seq(Chars(C))
    BY <2>1, AddedMore DEF AddAction
  <2> HIDE DEF s, t
  <2>5. \E to : Laid(t, Append(upto(k), words[k + 1]), to)
    BY <2>1, <2>3, <2>4, LaidMore DEF s
  <2>6. Is(k + 1)
    BY <2>1, <2>5 DEF t
  <2>7. k \in 0 .. n - 1
    BY <1>1
  <2> HIDE DEF Is, n
  <2> QED
    BY <2>6, <2>7
<1>4. n - 1 \in G
  <2>1. n - 1 \in 0 .. n - 1
    BY <1>1
  <2> HIDE DEF G, n
  <2> QED
    BY <1>1, <1>2, <1>3, <2>1, Adds!UpTo
<1>5. upto(n) = words /\ (n - 1) + 1 = n
  BY <1>1
<1> QED
  BY <1>4, <1>5

\* What AddActions writes SplitString reads: the words, in their order and with their
\* blanks, if none is empty, none holds a quote and the first has no blank.
THEOREM WordsComeBack ==
  ASSUME NEW C, NEW words \in Seq(Quotable(C)), words # <<>>, ~Has(words[1], Space)
  PROVE  SplitString(AddActions(words)) = [words |-> words, end |-> "none"]
<1> DEFINE n == Len(words)
           front == SubSeq(words, 1, n - 1)
<1>1. front \in Seq(Quotable(C)) /\ words[n] \in Quotable(C) /\ words = Append(front, words[n])
  OBVIOUS
<1> HIDE DEF front, n
<1>2. AddActions(words) \in Seq(Chars(C))
  BY <1>1, AddedLast
<1>3. PICK from : Laid(AddActions(words), words, from)
  BY LineIsLaid
<1> QED
  BY <1>2, <1>3, SplitsLaid

-----------------------------------------------------------------------------
(* Taking off an answer.                                                   *)

\* FoldLeft with the Past of SplitAt, for blanks, and with Join.
PastTo(s, z, i) ==
  IF s[i] = Space THEN [words |-> PushBack(z.words, s, z.at, i - 1), at |-> i + 1] ELSE z
Pasts == INSTANCE LeftFolds WITH Op <- PastTo

JoinTo(c, a, b) == a \o <<Space>> \o b
Glues == INSTANCE LeftFolds WITH Op <- JoinTo

LEMMA PastFold ==
  ASSUME NEW s
  PROVE  SplitAt(s, Space)
           = LET z == Pasts!Folded(s, [words |-> <<>>, at |-> 1], [i \in DOMAIN s |-> i])
             IN  PushBack(z.words, s, z.at, Len(s))
<1> DEFINE Past(z, i) == IF s[i] = Space
                         THEN [words |-> PushBack(z.words, s, z.at, i - 1), at |-> i + 1] ELSE z
           base == [words |-> <<>>, at |-> 1]
           seq == [i \in DOMAIN s |-> i]
<1>1. FoldLeft(Past, base, seq) = Pasts!Folded(s, base, seq)
  BY DEF FoldLeft, MapThenFoldSet, Max, Pasts!Folded, Pasts!FoldLeft, Pasts!MapThenFoldSet,
         Pasts!Max, PastTo
<1> QED
  BY <1>1 DEF SplitAt

LEMMA GlueFold ==
  ASSUME NEW base, NEW items
  PROVE  FoldLeft(LAMBDA a, b : a \o <<Space>> \o b, base, items) = Glues!Folded({}, base, items)
BY DEF FoldLeft, MapThenFoldSet, Max, Glues!Folded, Glues!FoldLeft, Glues!MapThenFoldSet,
       Glues!Max, JoinTo

\* The pieces with a blank between any two.
Glued(items) == Glues!Folded({}, items[1], SubSeq(items, 2, Len(items)))

\* The last word's place is one of its own, in a text that is taken apart.
LEMMA ClearedIs ==
  ASSUME NEW s, NEW S, NEW items \in Seq(S), items # <<>>, NEW last \in S,
         SplitAt(s, Space) = Append(items, last)
  PROVE  ClearLastArgumentFromActionStack(s) = Glued(items)
<1> DEFINE all == Append(items, last)
<1>1. /\ all[1] = items[1] /\ SubSeq(all, 2, Len(all) - 1) = SubSeq(items, 2, Len(items))
  <2>1. all \in Seq(S) /\ Len(all) = Len(items) + 1 /\ Len(items) \in Nat /\ Len(items) > 0
        /\ \A i \in 1 .. Len(items) : all[i] = items[i]
    OBVIOUS
  <2> HIDE DEF all
  <2>2. Len(all) - 1 = Len(items)
    BY ONLY <2>1
  <2>3. SubSeq(all, 2, Len(items)) = SubSeq(items, 2, Len(items))
    <3>1. 2 \in Nat \ {0} /\ 2 <= Len(items) + 1 /\ Len(items) <= Len(all)
      BY ONLY <2>1
    <3>2. \A i \in 2 .. Len(items) : all[i] = items[i]
      BY ONLY <2>1
    <3> QED
      BY ONLY <2>1, <3>1, <3>2, items \in Seq(S), SameCut
  <2> QED
    BY <2>1, <2>2, <2>3
<1>2. ClearLastArgumentFromActionStack(s)
        = FoldLeft(LAMBDA a, b : a \o <<Space>> \o b, all[1], SubSeq(all, 2, Len(all) - 1))
  BY DEF ClearLastArgumentFromActionStack
<1> HIDE DEF all
<1> QED
  BY <1>1, <1>2, GlueFold DEF Glued

\* Pieces, and one more.
LEMMA GluedOne ==
  ASSUME NEW S, NEW p \in S
  PROVE  Glued(<<p>>) = p
<1>1. SubSeq(<<p>>, 2, Len(<<p>>)) = <<>> /\ <<p>>[1] = p
  OBVIOUS
<1> QED
  BY <1>1, Glues!FoldOfNone DEF Glued

LEMMA GluedMore ==
  ASSUME NEW S, NEW items \in Seq(S), items # <<>>, NEW p \in S
  PROVE  Glued(Append(items, p)) = Glued(items) \o <<Space>> \o p
<1> DEFINE tail == SubSeq(items, 2, Len(items))
           more == Append(items, p)
<1>1. /\ tail \in Seq(S) /\ more[1] = items[1] /\ SubSeq(more, 2, Len(more)) = Append(tail, p)
  <2>1. Len(items) \in Nat /\ Len(items) > 0
    OBVIOUS
  <2>2. tail \in Seq(S) /\ more[1] = items[1]
    BY <2>1
  <2>3. SubSeq(more, 2, Len(more)) = Append(tail, p)
    BY <2>1, CutMore
  <2> QED
    BY <2>2, <2>3
<1> HIDE DEF tail, more
<1>2. Glues!Folded({}, items[1], Append(tail, p)) = JoinTo({}, Glues!Folded({}, items[1], tail), p)
  BY <1>1, Glues!FoldOfMore
<1> QED
  BY <1>1, <1>2 DEF Glued, JoinTo, tail, more

\* A blank in a text, and what stands on both sides of it.
LEMMA AroundBlank ==
  ASSUME NEW C, NEW s \in Seq(C), NEW m \in Nat, NEW b \in Nat, 1 <= m, m <= b, b <= Len(s),
         s[m] = Space
  PROVE  SubSeq(s, 1, m - 1) \o <<Space>> \o SubSeq(s, m + 1, b) = SubSeq(s, 1, b)
<1> DEFINE p == SubSeq(s, 1, m - 1)
           q == SubSeq(s, m + 1, b)
           t == p \o <<Space>> \o q
           r == SubSeq(s, 1, b)
<1>1. /\ p \in Seq(C) /\ Len(p) = (m - 1) - 1 + 1
      /\ \A i \in 1 .. (m - 1) - 1 + 1 : p[i] = s[1 + i - 1]
  <2>1. m - 1 \in Nat /\ 1 <= (m - 1) + 1 /\ m - 1 <= Len(s) /\ 1 \in Nat \ {0}
    OBVIOUS
  <2> HIDE DEF p
  <2> QED
    BY <2>1, Cut DEF p
<1>2. /\ q \in Seq(C) /\ Len(q) = b - (m + 1) + 1
      /\ \A i \in 1 .. b - (m + 1) + 1 : q[i] = s[m + 1 + i - 1]
  <2>1. m + 1 \in Nat \ {0} /\ m + 1 <= b + 1
    OBVIOUS
  <2> HIDE DEF q
  <2> QED
    BY <2>1, Cut DEF q
<1>3. /\ r \in Seq(C) /\ Len(r) = b - 1 + 1 /\ \A i \in 1 .. b - 1 + 1 : r[i] = s[1 + i - 1]
  <2> HIDE DEF r
  <2> QED
    BY Cut DEF r
<1> HIDE DEF p, q, r
<1>4. /\ Len(p) = m - 1 /\ \A i \in 1 .. m - 1 : p[i] = s[i]
  BY ONLY <1>1, m \in Nat
<1>5. Len(q) = b - m /\ \A i \in 1 .. b - m : q[i] = s[m + i]
  <2>1. b - (m + 1) + 1 = b - m
    OBVIOUS
  <2>2. ASSUME NEW i \in 1 .. b - m PROVE m + 1 + i - 1 = m + i
    OBVIOUS
  <2> QED
    BY ONLY <1>2, <2>1, <2>2
<1>6. Len(r) = b /\ \A i \in 1 .. b : r[i] = s[i]
  BY ONLY <1>3, b \in Nat
<1>7. Space \in C /\ <<Space>> \in Seq(C) /\ Len(<<Space>>) = 1 /\ <<Space>>[1] = Space
  <2>1. m \in 1 .. Len(s)
    OBVIOUS
  <2>2. s[m] \in C
    BY <2>1
  <2> QED
    BY <2>2
<1>8. /\ t \in Seq(C) /\ Len(t) = Len(p) + Len(<<Space>>) + Len(q)
      /\ \A i \in 1 .. Len(p) : t[i] = p[i]
      /\ \A i \in 1 .. Len(<<Space>>) : t[Len(p) + i] = <<Space>>[i]
      /\ \A i \in 1 .. Len(q) : t[Len(p) + Len(<<Space>>) + i] = q[i]
  <2>1. t = p \o <<Space>> \o q
    OBVIOUS
  <2> HIDE DEF t
  <2>2. p \in Seq(C) /\ q \in Seq(C) /\ <<Space>> \in Seq(C)
    BY ONLY <1>1, <1>2, <1>7
  <2> QED
    BY ONLY <2>1, <2>2, Middle
<1> HIDE DEF t
<1>9. Len(t) = b
  BY ONLY <1>4, <1>5, <1>7, <1>8, m \in Nat, b \in Nat
<1>10. ASSUME NEW i \in 1 .. b PROVE t[i] = r[i]
  <2>1. CASE i \in 1 .. m - 1
    BY ONLY <1>4, <1>6, <1>8, <2>1, i \in 1 .. b
  <2>2. CASE i = m
    <3>1. t[Len(p) + 1] = Space /\ Len(p) + 1 = m
      BY ONLY <1>4, <1>7, <1>8, m \in Nat
    <3> QED
      BY ONLY <1>6, <2>2, <3>1, i \in 1 .. b, s[m] = Space
  <2>3. CASE i \in m + 1 .. b
    <3>1. i - m \in 1 .. b - m /\ Len(p) + Len(<<Space>>) + (i - m) = i /\ m + (i - m) = i
      BY ONLY <1>4, <1>7, <2>3, m \in Nat, b \in Nat
    <3>2. t[i] = q[i - m]
      BY ONLY <1>5, <1>8, <3>1
    <3>3. q[i - m] = s[i]
      BY ONLY <1>5, <3>1
    <3> QED
      BY ONLY <1>6, <3>2, <3>3, i \in 1 .. b
  <2> QED
    BY <2>1, <2>2, <2>3
<1>11. t = r
  BY ONLY <1>3, <1>6, <1>8, <1>9, <1>10, SameElements
<1> QED
  BY <1>11 DEF t, r, p, q

\* A text in which every blank stands between two characters that are none.
Single(s) ==
  /\ s # <<>> /\ s[1] # Space /\ s[Len(s)] # Space
  /\ \A i \in 1 .. Len(s) - 1 : s[i] # Space \/ s[i + 1] # Space

\* What SplitAt has done with the first i characters.
PiecesTo(z, text, C, i) ==
  /\ z.at \in Nat \ {0} /\ z.at <= i + 1 /\ Without(text, Space, z.at, i)
  /\ z.words \in Seq(Seq(C))
  /\ \/ z.at = 1 /\ z.words = <<>>
     \/ /\ z.at > 2 /\ text[z.at - 1] = Space /\ z.words # <<>>
        /\ Glued(z.words) = SubSeq(text, 1, z.at - 2)

\* A blank, where the one before it is further back: one piece more.
LEMMA PieceMore ==
  ASSUME NEW C, NEW text \in Seq(C), NEW i \in Nat, i > 1, i <= Len(text), text[i] = Space,
         text[i - 1] # Space, NEW z, PiecesTo(z, text, C, i - 1)
  PROVE  PiecesTo(PastTo(text, z, i), text, C, i)
<1> DEFINE a == z.at
           piece == SubSeq(text, a, i - 1)
           y == PastTo(text, z, i)
<1>1. a \in Nat \ {0} /\ a <= i - 1 /\ z.words \in Seq(Seq(C))
  <2>1. a \in Nat \ {0} /\ a <= i /\ z.words \in Seq(Seq(C))
    BY DEF PiecesTo
  <2>2. a # i
    <3>1. SUFFICES ASSUME a = i PROVE FALSE
      OBVIOUS
    <3>2. a > 2 /\ text[a - 1] = Space
      BY <3>1 DEF PiecesTo
    <3> QED
      BY <3>1, <3>2
  <2> QED
    BY <2>1, <2>2
<1>2. piece \in Seq(C)
  BY <1>1
<1>3. y = [words |-> Append(z.words, piece), at |-> i + 1]
  BY <1>1 DEF PastTo, PushBack
<1> HIDE DEF y
<1>4. y.at = i + 1 /\ y.words = Append(z.words, piece)
  BY <1>3
<1>5. (i + 1) - 1 = i /\ (i + 1) - 2 = i - 1 /\ i - 1 \in Nat
  OBVIOUS
<1>6. Glued(y.words) = SubSeq(text, 1, i - 1)
  <2>1. CASE a = 1 /\ z.words = <<>>
    <3>1. y.words = <<piece>>
      BY <1>4, <2>1
    <3> QED
      BY <1>2, <2>1, <3>1, GluedOne
  <2>2. CASE /\ a > 2 /\ text[a - 1] = Space /\ z.words # <<>>
             /\ Glued(z.words) = SubSeq(text, 1, a - 2)
    <3>1. Glued(y.words) = Glued(z.words) \o <<Space>> \o piece
      <4> HIDE DEF piece, a
      <4> QED
        BY <1>1, <1>2, <1>4, <2>2, GluedMore
    <3>2. a - 1 \in Nat /\ 1 <= a - 1 /\ a - 1 <= i - 1 /\ i - 1 \in Nat /\ i - 1 <= Len(text)
          /\ (a - 1) - 1 = a - 2 /\ (a - 1) + 1 = a
      BY <1>1, <2>2
    <3>3. SubSeq(text, 1, (a - 1) - 1) \o <<Space>> \o SubSeq(text, (a - 1) + 1, i - 1)
            = SubSeq(text, 1, i - 1)
      <4> HIDE DEF a
      <4> QED
        BY ONLY <2>2, <3>2, text \in Seq(C), AroundBlank
    <3> QED
      BY <2>2, <3>1, <3>2, <3>3
  <2> QED
    BY <2>1, <2>2 DEF PiecesTo
<1>7. y.words \in Seq(Seq(C)) /\ y.words # <<>>
  <2> HIDE DEF piece
  <2> QED
    BY ONLY <1>1, <1>2, <1>4, Appended
<1>8. Without(text, Space, i + 1, i)
  BY DEF Without
<1> HIDE DEF piece
<1>9. PiecesTo(y, text, C, i)
  BY ONLY <1>4, <1>5, <1>6, <1>7, <1>8, text[i] = Space, i \in Nat, i > 1 DEF PiecesTo
<1> QED
  BY <1>9 DEF y

\* Another character: nothing more.
LEMMA PieceGoesOn ==
  ASSUME NEW C, NEW text \in Seq(C), NEW i \in Nat \ {0}, text[i] # Space, NEW z,
         PiecesTo(z, text, C, i - 1)
  PROVE  PiecesTo(PastTo(text, z, i), text, C, i) /\ PastTo(text, z, i) = z
<1>1. PastTo(text, z, i) = z
  BY DEF PastTo
<1>2. z.at \in Nat \ {0} /\ z.at <= (i - 1) + 1 /\ Without(text, Space, z.at, i - 1)
  BY DEF PiecesTo
<1>3. z.at <= i + 1
  BY <1>2
<1>4. Without(text, Space, z.at, i)
  <2>1. \A k \in z.at .. i : k = i \/ k \in z.at .. i - 1
    BY <1>2
  <2> QED
    BY <1>2, <2>1 DEF Without
<1> QED
  BY <1>1, <1>2, <1>3, <1>4 DEF PiecesTo

\* A text and a word behind it are taken apart into the pieces of the one, and the other.
LEMMA TakenApart ==
  ASSUME NEW C, NEW s \in Seq(C), Space \in C, Single(s), NEW r \in Seq(C), r # <<>>,
         ~Has(r, Space)
  PROVE  \E items \in Seq(Seq(C)) :
           /\ items # <<>> /\ Glued(items) = s
           /\ SplitAt(s \o <<Space>> \o r, Space) = Append(items, r)
<1> DEFINE text == s \o <<Space>> \o r
<1>0. text = s \o <<Space>> \o r /\ Len(text) \in Nat
  OBVIOUS
<1> HIDE DEF text
<1>1. PICK m \in Nat, n \in Nat : m = Len(s) /\ n = Len(text) /\ m > 0
  BY <1>0 DEF Single
<1>2. /\ text \in Seq(C) /\ n > m + 1 /\ text[m + 1] = Space
      /\ \A i \in 1 .. m : text[i] = s[i]
      /\ \A i \in m + 2 .. n : text[i] # Space
      /\ SubSeq(text, m + 2, n) = r
      /\ SubSeq(text, 1, m) = s
  <2>1. <<Space>> \in Seq(C) /\ Len(<<Space>>) = 1 /\ <<Space>>[1] = Space /\ 1 \in 1 .. 1
    OBVIOUS
  <2>2. /\ text \in Seq(C) /\ Len(text) = Len(s) + Len(<<Space>>) + Len(r)
        /\ \A i \in 1 .. Len(s) : text[i] = s[i]
        /\ \A i \in 1 .. Len(<<Space>>) : text[Len(s) + i] = <<Space>>[i]
        /\ \A i \in 1 .. Len(r) : text[Len(s) + Len(<<Space>>) + i] = r[i]
    BY ONLY <2>1, s \in Seq(C), r \in Seq(C), <1>0, Middle
  <2>3. Len(r) \in Nat /\ Len(r) > 0 /\ \A i \in 1 .. Len(r) : r[i] # Space
    BY DEF Has, Range
  <2>4. n = m + 1 + Len(r) /\ text[m + 1] = Space
    BY ONLY <1>1, <2>1, <2>2
  <2>5. \A i \in 1 .. Len(r) : text[m + 1 + i] = r[i]
    BY ONLY <1>1, <2>1, <2>2
  <2>6. ASSUME NEW i \in m + 2 .. n PROVE text[i] # Space
    <3>1. i - (m + 1) \in 1 .. Len(r) /\ m + 1 + (i - (m + 1)) = i
      BY ONLY <2>3, <2>4, m \in Nat, n \in Nat, i \in m + 2 .. n
    <3> QED
      BY ONLY <2>3, <2>5, <3>1
  <2>7. SubSeq(text, m + 2, n) = r
    <3> DEFINE c == SubSeq(text, m + 2, n)
    <3>1. m + 2 \in Nat \ {0} /\ m + 2 <= n + 1 /\ n <= Len(text)
      BY ONLY <1>1, <2>3, <2>4, m \in Nat, n \in Nat
    <3>2. /\ c \in Seq(C) /\ Len(c) = n - (m + 2) + 1
          /\ \A i \in 1 .. n - (m + 2) + 1 : c[i] = text[m + 2 + i - 1]
      BY ONLY <2>2, <3>1, n \in Nat, Cut
    <3> HIDE DEF c
    <3>3. n - (m + 2) + 1 = Len(r) /\ \A i \in 1 .. Len(r) : m + 2 + i - 1 = m + 1 + i
      BY ONLY <2>3, <2>4, m \in Nat, n \in Nat
    <3>4. \A i \in 1 .. Len(c) : c[i] = r[i]
      BY ONLY <2>5, <3>2, <3>3
    <3>5. c = r
      BY ONLY <3>2, <3>3, <3>4, r \in Seq(C), SameElements
    <3> QED
      BY <3>5 DEF c
  <2>8. SubSeq(text, 1, m) = s
    <3> DEFINE c == SubSeq(text, 1, m)
    <3>1. 1 \in Nat \ {0} /\ 1 <= m + 1 /\ m <= Len(text)
      BY ONLY <1>1, <2>3, <2>4, m \in Nat, n \in Nat
    <3>2. /\ c \in Seq(C) /\ Len(c) = m - 1 + 1
          /\ \A i \in 1 .. m - 1 + 1 : c[i] = text[1 + i - 1]
      BY ONLY <2>2, <3>1, m \in Nat, Cut
    <3> HIDE DEF c
    <3>3. m - 1 + 1 = Len(s) /\ \A i \in 1 .. Len(s) : 1 + i - 1 = i
      BY ONLY <1>1, m \in Nat
    <3>4. \A i \in 1 .. Len(c) : c[i] = s[i]
      BY ONLY <2>2, <3>2, <3>3
    <3>5. c = s
      BY ONLY <3>2, <3>3, <3>4, s \in Seq(C), SameElements
    <3> QED
      BY <3>5 DEF c
  <2>9. n > m + 1
    BY ONLY <2>3, <2>4, m \in Nat
  <2>10. \A i \in 1 .. m : text[i] = s[i]
    BY ONLY <1>1, <2>2
  <2> QED
    BY ONLY <2>2, <2>4, <2>6, <2>7, <2>8, <2>9, <2>10
<1>3. /\ text[1] # Space /\ text[m] # Space
      /\ \A i \in 1 .. m - 1 : text[i] # Space \/ text[i + 1] # Space
  <2>1. s[1] # Space /\ s[m] # Space /\ \A i \in 1 .. m - 1 : s[i] # Space \/ s[i + 1] # Space
    BY ONLY <1>1, Single(s) DEF Single
  <2>2. 1 \in 1 .. m /\ m \in 1 .. m
    BY <1>1
  <2>3. \A i \in 1 .. m - 1 : i \in 1 .. m /\ i + 1 \in 1 .. m
    BY <1>1
  <2> QED
    BY ONLY <1>2, <2>1, <2>2, <2>3
<1> DEFINE base == [words |-> <<>>, at |-> 1]
           seq == [i \in DOMAIN text |-> i]
<1>4. PICK H : Pasts!IsTrace(H, text, base, seq, n) /\ Pasts!Folded(text, base, seq) = H[n]
  <2>1. DOMAIN seq = 1 .. n
    BY <1>1, <1>2
  <2> HIDE DEF seq, base
  <2> QED
    BY <2>1, Pasts!FoldTrace
<1>5. H[0] = base /\ \A i \in 1 .. n : H[i] = PastTo(text, H[i - 1], i)
  <2>1. \A i \in 1 .. n : seq[i] = i
    BY <1>1, <1>2
  <2> HIDE DEF seq, base
  <2> QED
    BY <1>4, <2>1 DEF Pasts!IsTrace
<1>6. ASSUME NEW i \in 1 .. n, i <= m + 1, PiecesTo(H[i - 1], text, C, i - 1)
      PROVE  PiecesTo(H[i], text, C, i)
  <2>1. i \in Nat \ {0} /\ i <= n /\ H[i] = PastTo(text, H[i - 1], i)
    BY ONLY <1>5, n \in Nat, i \in 1 .. n
  <2>2. CASE text[i] = Space
    <3>1. i # 1
      BY ONLY <1>3, <2>2
    <3>2. text[i - 1] # Space
      <4>1. CASE i = m + 1
        <5>1. i - 1 = m
          BY ONLY <4>1, m \in Nat
        <5> QED
          BY ONLY <1>3, <5>1
      <4>2. CASE i # m + 1
        <5>1. i - 1 \in 1 .. m - 1 /\ (i - 1) + 1 = i
          BY ONLY <1>6, <2>1, <3>1, <4>2, m \in Nat
        <5> QED
          BY ONLY <1>3, <2>2, <5>1
      <4> QED
        BY <4>1, <4>2
    <3>3. i > 1 /\ i <= Len(text)
      BY ONLY <1>1, <2>1, <3>1
    <3> QED
      BY ONLY <1>2, <1>6, <2>1, <2>2, <3>2, <3>3, PieceMore
  <2>3. CASE text[i] # Space
    BY ONLY <1>2, <1>6, <2>1, <2>3, PieceGoesOn
  <2> QED
    BY ONLY <2>2, <2>3
<1>7. PiecesTo(H[m + 1], text, C, m + 1)
  <2> DEFINE G == {i \in 0 .. m + 1 : PiecesTo(H[i], text, C, i)}
  <2>1. 0 \in G
    <3>1. H[0].at = 1 /\ H[0].words = <<>>
      BY <1>5
    <3>2. PiecesTo(H[0], text, C, 0)
      BY <3>1 DEF PiecesTo, Without
    <3> QED
      BY <3>2
  <2>2. ASSUME NEW i \in 1 .. m + 1, i - 1 \in G PROVE i \in G
    <3>1. i \in 1 .. n /\ i <= m + 1 /\ PiecesTo(H[i - 1], text, C, i - 1)
      BY <1>2, <2>2
    <3>2. PiecesTo(H[i], text, C, i)
      BY <1>6, <3>1
    <3> QED
      BY <3>2
  <2>3. m + 1 \in Nat /\ m + 1 \in 0 .. m + 1
    OBVIOUS
  <2>4. m + 1 \in G
    <3> HIDE DEF G
    <3> QED
      BY ONLY <2>1, <2>2, <2>3, Pasts!UpTo
  <2> QED
    BY <2>4
<1> DEFINE z == H[m + 1]
<1>8. z.at = m + 2 /\ z.words \in Seq(Seq(C)) /\ z.words # <<>> /\ Glued(z.words) = s
  <2>1. z.at \in Nat \ {0} /\ z.at <= m + 2
    BY <1>7 DEF PiecesTo
  <2>2. ~(z.at <= m + 1)
    <3>1. SUFFICES ASSUME z.at <= m + 1 PROVE FALSE
      OBVIOUS
    <3>2. m + 1 \in z.at .. m + 1
      BY <2>1, <3>1
    <3> HIDE DEF z
    <3> QED
      BY <1>2, <1>7, <3>2 DEF PiecesTo, Without, z
  <2>3. z.at = m + 2
    <3> HIDE DEF z
    <3> QED
      BY ONLY <2>1, <2>2, m \in Nat
  <2> HIDE DEF z
  <2>4. z.at # 1 /\ z.at - 2 = m
    BY <1>1, <2>3
  <2> QED
    BY <1>2, <1>7, <2>3, <2>4 DEF PiecesTo, z
<1>9. H[n] = z
  <2> DEFINE G == {i \in 0 .. n : i > m => H[i] = z}
  <2>1. 0 \in G
    BY <1>1
  <2>2. ASSUME NEW i \in 1 .. n, i - 1 \in G PROVE i \in G
    <3>1. CASE i <= m
      BY <3>1
    <3>2. CASE i = m + 1
      BY <3>2
    <3>3. CASE i > m + 1
      <4>1. H[i - 1] = z /\ text[i] # Space
        BY <1>2, <2>2, <3>3
      <4>2. H[i] = PastTo(text, z, i)
        BY <1>5, <4>1
      <4>3. H[i] = z
        <5> HIDE DEF z
        <5> QED
          BY <4>1, <4>2 DEF PastTo
      <4> QED
        BY <4>3
    <3> QED
      BY <3>1, <3>2, <3>3
  <2>3. \A i \in 0 .. n : i \in G
    <3> HIDE DEF G
    <3> QED
      BY ONLY n \in Nat, <2>1, <2>2, Pasts!UpTo
  <2>4. n \in 0 .. n /\ n > m
    BY <1>2
  <2> QED
    BY <2>3, <2>4
<1>10. SplitAt(text, Space) = Append(z.words, r)
  <2>1. SplitAt(text, Space) = PushBack(H[n].words, text, H[n].at, Len(text))
    BY <1>4, PastFold
  <2> HIDE DEF z
  <2>2. PushBack(z.words, text, m + 2, n) = Append(z.words, r)
    BY <1>2 DEF PushBack
  <2> QED
    BY <1>1, <1>8, <1>9, <2>1, <2>2
<1> HIDE DEF z
<1> QED
  BY <1>8, <1>10 DEF text

\* The words of a line that can be put together again from pieces.
Respaced(C) ==
  {w \in Quotable(C) : \A i \in 1 .. Len(w) - 1 : w[i] # Space \/ w[i + 1] # Space}

LEMMA SingleWord ==
  ASSUME NEW C, NEW w \in Respaced(C)
  PROVE  Single(AddQuotesToArgument(w))
<1>1. w \in Quotable(C) /\ w \in Seq(Chars(C)) /\ Quote \in Chars(C) /\ w # <<>>
  BY DEF Respaced, Quotable, Chars
<1>2. PICK m \in Nat : m = Len(w) /\ m > 0
  BY <1>1
<1>3. \A i \in 1 .. m - 1 : w[i] # Space \/ w[i + 1] # Space
  BY <1>2 DEF Respaced
<1>4. CASE ~Has(w, Space)
  <2>1. \A i \in 1 .. m : w[i] # Space
    BY <1>1, <1>2, <1>4 DEF Has, Range
  <2>2. AddQuotesToArgument(w) = w
    BY <1>1, <1>4, AddedQuotes
  <2>3. 1 \in 1 .. m /\ m \in 1 .. m
    BY <1>2
  <2> QED
    BY ONLY <1>1, <1>2, <1>3, <2>1, <2>2, <2>3 DEF Single
<1>5. CASE Has(w, Space)
  <2> DEFINE t == <<Quote>> \o w \o <<Quote>>
  <2>1. AddQuotesToArgument(w) = t
    BY <1>1, <1>5, AddedQuotes
  <2>2. /\ <<Quote>> \in Seq(Chars(C)) /\ Len(<<Quote>>) = 1 /\ <<Quote>>[1] = Quote
        /\ 1 \in 1 .. 1
    BY <1>1
  <2>3. /\ t \in Seq(Chars(C)) /\ Len(t) = Len(<<Quote>>) + Len(w) + Len(<<Quote>>)
        /\ \A i \in 1 .. Len(<<Quote>>) : t[i] = <<Quote>>[i]
        /\ \A i \in 1 .. Len(w) : t[Len(<<Quote>>) + i] = w[i]
        /\ \A i \in 1 .. Len(<<Quote>>) : t[Len(<<Quote>>) + Len(w) + i] = <<Quote>>[i]
    <3>1. t = <<Quote>> \o w \o <<Quote>>
      OBVIOUS
    <3> HIDE DEF t
    <3> QED
      BY ONLY <1>1, <2>2, <3>1, Middle
  <2> HIDE DEF t
  <2>4. Len(t) = m + 2 /\ t[1] = Quote /\ t[m + 2] = Quote
    <3>1. 1 + m + 1 = m + 2
      OBVIOUS
    <3>2. Len(t) = 1 + m + 1 /\ t[1] = Quote /\ t[1 + m + 1] = Quote
      BY ONLY <1>2, <2>2, <2>3
    <3> QED
      BY ONLY <3>1, <3>2
  <2>5. \A i \in 1 .. m : t[1 + i] = w[i]
    BY ONLY <1>2, <2>2, <2>3
  <2>6. ASSUME NEW i \in 1 .. (m + 2) - 1 PROVE t[i] # Space \/ t[i + 1] # Space
    <3>1. CASE i = 1
      BY ONLY <2>4, <3>1, SpaceNotQuote
    <3>2. CASE i = m + 1
      <4>1. i + 1 = m + 2
        BY ONLY <3>2, m \in Nat
      <4> QED
        BY ONLY <2>4, <4>1, SpaceNotQuote
    <3>3. CASE i \in 2 .. m
      <4>1. i - 1 \in 1 .. m - 1 /\ i - 1 \in 1 .. m /\ i \in 1 .. m /\ 1 + (i - 1) = i
            /\ (i - 1) + 1 = i /\ 1 + i = i + 1
        BY ONLY <3>3, m \in Nat
      <4>2. t[i] = w[i - 1] /\ t[i + 1] = w[i]
        BY ONLY <2>5, <4>1
      <4>3. w[i - 1] # Space \/ w[i] # Space
        BY ONLY <1>3, <4>1
      <4> QED
        BY ONLY <4>2, <4>3
    <3> QED
      BY ONLY <3>1, <3>2, <3>3, i \in 1 .. (m + 2) - 1, m \in Nat
  <2>7. t # <<>>
    <3>1. m + 2 # 0 /\ Len(<<>>) = 0
      BY <1>2
    <3> QED
      BY ONLY <2>4, <3>1
  <2>8. Single(t)
    BY ONLY <2>4, <2>6, <2>7, SpaceNotQuote DEF Single
  <2> QED
    BY <2>1, <2>8
<1> QED
  BY <1>4, <1>5

LEMMA SingleJoined ==
  ASSUME NEW C, NEW s \in Seq(C), NEW r \in Seq(C), Space \in C, Single(s), Single(r)
  PROVE  Single(s \o <<Space>> \o r)
<1> DEFINE t == s \o <<Space>> \o r
<1>1. PICK m \in Nat, n \in Nat : m = Len(s) /\ n = Len(r) /\ m > 0 /\ n > 0
  BY DEF Single
<1>2. /\ <<Space>> \in Seq(C) /\ Len(<<Space>>) = 1 /\ <<Space>>[1] = Space
      /\ 1 \in 1 .. 1
  OBVIOUS
<1>3. /\ Len(t) = Len(s) + Len(<<Space>>) + Len(r)
      /\ \A i \in 1 .. Len(s) : t[i] = s[i]
      /\ \A i \in 1 .. Len(<<Space>>) : t[Len(s) + i] = <<Space>>[i]
      /\ \A i \in 1 .. Len(r) : t[Len(s) + Len(<<Space>>) + i] = r[i]
  <2>1. t = s \o <<Space>> \o r
    OBVIOUS
  <2> HIDE DEF t
  <2> QED
    BY ONLY <1>2, <2>1, s \in Seq(C), r \in Seq(C), Middle
<1> HIDE DEF t
<1>4. /\ Len(t) = m + 1 + n /\ t[m + 1] = Space
      /\ \A i \in 1 .. m : t[i] = s[i]
      /\ \A i \in 1 .. n : t[m + 1 + i] = r[i]
  BY ONLY <1>1, <1>2, <1>3
<1>5. /\ s[1] # Space /\ s[m] # Space
      /\ \A i \in 1 .. m - 1 : s[i] # Space \/ s[i + 1] # Space
  BY ONLY <1>1, Single(s) DEF Single
<1>6. /\ r[1] # Space /\ r[n] # Space
      /\ \A i \in 1 .. n - 1 : r[i] # Space \/ r[i + 1] # Space
  BY ONLY <1>1, Single(r) DEF Single
<1>7. 1 \in 1 .. m /\ m \in 1 .. m /\ 1 \in 1 .. n /\ n \in 1 .. n
  BY ONLY <1>1
<1>8. t[1] # Space /\ t[m + 1 + n] # Space
  BY ONLY <1>4, <1>5, <1>6, <1>7
<1>9. ASSUME NEW i \in 1 .. (m + 1 + n) - 1 PROVE t[i] # Space \/ t[i + 1] # Space
  <2>1. CASE i \in 1 .. m - 1
    <3>1. i \in 1 .. m /\ i + 1 \in 1 .. m
      BY ONLY <2>1, m \in Nat
    <3> QED
      BY ONLY <1>4, <1>5, <2>1, <3>1
  <2>2. CASE i = m
    BY ONLY <1>4, <1>5, <1>7, <2>2
  <2>3. CASE i = m + 1
    <3>1. t[m + 1 + 1] # Space
      BY ONLY <1>4, <1>6, <1>7
    <3> QED
      BY ONLY <2>3, <3>1
  <2>4. CASE i \in m + 2 .. m + n
    <3>1. /\ i - (m + 1) \in 1 .. n - 1 /\ i - (m + 1) \in 1 .. n /\ i - (m + 1) + 1 \in 1 .. n
          /\ m + 1 + (i - (m + 1)) = i /\ m + 1 + (i - (m + 1) + 1) = i + 1
      BY ONLY <2>4, m \in Nat, n \in Nat
    <3>2. t[i] = r[i - (m + 1)] /\ t[i + 1] = r[i - (m + 1) + 1]
      BY ONLY <1>4, <3>1
    <3> QED
      BY ONLY <1>6, <3>1, <3>2
  <2> QED
    BY ONLY <2>1, <2>2, <2>3, <2>4, i \in 1 .. (m + 1 + n) - 1, m \in Nat, n \in Nat
<1>10. t # <<>>
  <2>1. m + 1 + n # 0 /\ Len(<<>>) = 0
    BY <1>1
  <2> QED
    BY ONLY <1>4, <2>1
<1>11. Single(t)
  BY ONLY <1>4, <1>8, <1>9, <1>10 DEF Single
<1> QED
  BY <1>11 DEF t

LEMMA SingleLine ==
  ASSUME NEW C, NEW words \in Seq(Respaced(C)), words # <<>>
  PROVE  Single(AddActions(words)) /\ AddActions(words) \in Seq(Chars(C))
<1> DEFINE n == Len(words)
           upto(k) == SubSeq(words, 1, k)
           Is(k) == Single(AddActions(upto(k))) /\ AddActions(upto(k)) \in Seq(Chars(C))
           G == {k \in 0 .. n - 1 : Is(k + 1)}
<1>1. n \in Nat /\ n > 0 /\ n - 1 \in Nat /\ Respaced(C) \subseteq Quotable(C)
  BY DEF Respaced
<1>2. 0 \in G
  <2>1. upto(1) = <<words[1]>> /\ words[1] \in Respaced(C)
    BY <1>1, CutOne
  <2>2. AddActions(upto(1)) = AddQuotesToArgument(words[1])
    BY <1>1, <2>1, AddedFirst
  <2>3. Is(1)
    BY <1>1, <2>1, <2>2, SingleWord, AddedType
  <2>4. 0 + 1 = 1 /\ 0 \in 0 .. n - 1
    BY <1>1
  <2> HIDE DEF Is
  <2> QED
    BY <2>3, <2>4
<1>3. ASSUME NEW k \in 1 .. n - 1, k - 1 \in G PROVE k \in G
  <2>1. /\ upto(k) \in Seq(Quotable(C)) /\ upto(k) # <<>> /\ words[k + 1] \in Respaced(C)
        /\ upto(k + 1) = Append(upto(k), words[k + 1])
    <3>1. k \in Nat /\ k > 0 /\ k + 1 \in 1 .. n /\ k <= n /\ words \in Seq(Quotable(C))
      BY <1>1
    <3>2. upto(k) \in Seq(Quotable(C)) /\ Len(upto(k)) = k /\ words[k + 1] \in Respaced(C)
      BY <3>1
    <3>3. upto(k + 1) = Append(upto(k), words[k + 1])
      BY <3>1
    <3> QED
      BY <3>1, <3>2, <3>3
  <2>2. (k - 1) + 1 = k
    BY <1>1
  <2>3. Is(k)
    BY <1>3, <2>2
  <2> HIDE DEF upto
  <2> DEFINE s == AddActions(upto(k))
             r == AddQuotesToArgument(words[k + 1])
  <2>4. AddActions(upto(k + 1)) = s \o <<Space>> \o r
    BY <1>1, <2>1, AddedMore DEF AddAction
  <2>5. Single(s) /\ Single(r) /\ s \in Seq(Chars(C)) /\ r \in Seq(Chars(C))
    BY <1>1, <2>1, <2>3, SingleWord, AddedType
  <2>6. Space \in Chars(C)
    BY DEF Chars
  <2> HIDE DEF s, r
  <2>7. Single(s \o <<Space>> \o r) /\ s \o <<Space>> \o r \in Seq(Chars(C))
    BY <2>5, <2>6, SingleJoined
  <2>8. Is(k + 1)
    BY <2>4, <2>7
  <2>9. k \in 0 .. n - 1
    BY <1>1
  <2> HIDE DEF Is, n
  <2> QED
    BY <2>8, <2>9
<1>4. n - 1 \in G
  <2>1. n - 1 \in 0 .. n - 1
    BY <1>1
  <2> HIDE DEF G, n
  <2> QED
    BY <1>1, <1>2, <1>3, <2>1, Adds!UpTo
<1>5. upto(n) = words /\ (n - 1) + 1 = n
  BY <1>1
<1> QED
  BY <1>4, <1>5

\* An answer that AddAction puts behind such a line is its last word, whole, and the others
\* are what they were.
THEOREM AnswerComesBack ==
  ASSUME NEW C, NEW words \in Seq(Quotable(C)), words # <<>>, ~Has(words[1], Space),
         NEW answer \in Quotable(C)
  PROVE  SplitString(AddAction(AddActions(words), answer))
           = [words |-> Append(words, answer), end |-> "none"]
<1> DEFINE more == Append(words, answer)
<1>1. more \in Seq(Quotable(C)) /\ more # <<>> /\ more[1] = words[1]
  <2>1. Len(words) \in Nat /\ Len(words) > 0
    OBVIOUS
  <2> QED
    BY <2>1, Appended
<1>2. AddAction(AddActions(words), answer) = AddActions(more)
  BY AddedMore
<1> HIDE DEF more
<1>3. SplitString(AddActions(more)) = [words |-> more, end |-> "none"]
  BY <1>1, WordsComeBack
<1> QED
  BY <1>2, <1>3 DEF more

\* ClearLastArgumentFromActionStack, after an answer without blanks was refused, leaves the
\* line as it was before, character by character, if no word has two blanks in a row: SplitAt
\* would leave out what is between them.
THEOREM AnswerIsTakenBack ==
  ASSUME NEW C, NEW words \in Seq(Respaced(C)), words # <<>>, NEW answer \in Quotable(C),
         ~Has(answer, Space)
  PROVE  ClearLastArgumentFromActionStack(AddAction(AddActions(words), answer))
           = AddActions(words)
<1> DEFINE s == AddActions(words)
           text == AddAction(s, answer)
<1>1. Single(s) /\ s \in Seq(Chars(C)) /\ Space \in Chars(C)
  BY SingleLine DEF Chars
<1>2. text = s \o <<Space>> \o answer
  BY AddedQuotes DEF AddAction
<1>3. answer \in Seq(Chars(C)) /\ answer # <<>>
  BY DEF Quotable, Chars
<1> HIDE DEF s, text
<1>4. PICK items \in Seq(Seq(Chars(C))) :
        items # <<>> /\ SplitAt(text, Space) = Append(items, answer) /\ Glued(items) = s
  <2> DEFINE D == Chars(C)
  <2>1. /\ s \in Seq(D) /\ Space \in D /\ Single(s) /\ answer \in Seq(D) /\ answer # <<>>
        /\ ~Has(answer, Space)
    BY <1>1, <1>3
  <2> HIDE DEF D
  <2>2. \E items \in Seq(Seq(D)) :
          /\ items # <<>> /\ Glued(items) = s
          /\ SplitAt(s \o <<Space>> \o answer, Space) = Append(items, answer)
    BY ONLY <2>1, TakenApart
  <2> QED
    BY <1>2, <2>2 DEF D
<1>5. ClearLastArgumentFromActionStack(text) = Glued(items)
  BY <1>3, <1>4, ClearedIs
<1> QED
  BY <1>4, <1>5 DEF s, text

\* What is given and answered in AnswersStayWhole is made of these.
Letters == {"a", "b", "c", "=", "-", "/", Space}

LEMMA AreLetters == Quote \notin Letters
BY DEF Letters, Space, Quote

LEMMA LettersQuotable ==
  ASSUME NEW w \in Seq(Letters), w # <<>>
  PROVE  w \in Quotable(Letters)
BY AreLetters DEF Quotable, Has, Range

\* A word of letters in which no blank follows a blank.
LEMMA SpacedWord ==
  ASSUME NEW w \in Seq(Letters), NEW n \in Nat, n > 0, Len(w) = n,
         \A i \in 1 .. n - 1 : w[i] # Space \/ w[i + 1] # Space
  PROVE  w \in Respaced(Letters)
<1>1. w # <<>>
  <2>1. Len(<<>>) = 0 /\ n # 0
    OBVIOUS
  <2> QED
    BY ONLY <2>1, Len(w) = n
<1>2. w \in Quotable(Letters)
  BY ONLY <1>1, w \in Seq(Letters), LettersQuotable
<1> QED
  BY <1>2 DEF Respaced

LEMMA GivenOK ==
  ASSUME NEW w \in GivenTexts \cup {<<"c">>}
  PROVE  w \in Respaced(Letters)
<1>1. \A e \in {"a", "b", "c", "=", "-", "/"} : e # Space /\ e \in Letters
  BY ONLY DEF Letters, Space
<1>2. Space \in Letters
  BY DEF Letters
<1>3. CASE w = <<"a">>
  <2>1. w \in Seq(Letters) /\ Len(w) = 1
    BY ONLY <1>1, <1>3
  <2>2. \A i \in 1 .. 1 - 1 : w[i] # Space \/ w[i + 1] # Space
    OBVIOUS
  <2>3. 1 \in Nat /\ 1 > 0
    OBVIOUS
  <2> QED
    BY ONLY <2>1, <2>2, <2>3, SpacedWord
<1>4. CASE w = <<"c">>
  <2>1. w \in Seq(Letters) /\ Len(w) = 1
    BY ONLY <1>1, <1>4
  <2>2. \A i \in 1 .. 1 - 1 : w[i] # Space \/ w[i + 1] # Space
    OBVIOUS
  <2>3. 1 \in Nat /\ 1 > 0
    OBVIOUS
  <2> QED
    BY ONLY <2>1, <2>2, <2>3, SpacedWord
<1>5. CASE w = <<"/", "a">>
  <2>1. w \in Seq(Letters) /\ Len(w) = 2 /\ w[1] # Space
    BY ONLY <1>1, <1>5
  <2>2. \A i \in 1 .. 2 - 1 : w[i] # Space \/ w[i + 1] # Space
    <3>1. \A i \in 1 .. 2 - 1 : i = 1
      OBVIOUS
    <3> QED
      BY ONLY <2>1, <3>1
  <2>3. 2 \in Nat /\ 2 > 0
    OBVIOUS
  <2> QED
    BY ONLY <2>1, <2>2, <2>3, SpacedWord
<1>6. CASE w = <<"a", Space, "b">>
  <2>1. w \in Seq(Letters) /\ Len(w) = 3 /\ w[1] # Space /\ w[3] # Space
    BY ONLY <1>1, <1>2, <1>6
  <2>2. \A i \in 1 .. 3 - 1 : w[i] # Space \/ w[i + 1] # Space
    <3>1. \A i \in 1 .. 3 - 1 : i = 1 \/ i + 1 = 3
      OBVIOUS
    <3> QED
      BY ONLY <2>1, <3>1
  <2>3. 3 \in Nat /\ 3 > 0
    OBVIOUS
  <2> QED
    BY ONLY <2>1, <2>2, <2>3, SpacedWord
<1>7. CASE w = <<"-", "a", "=", "b", Space, "c">>
  <2>1. /\ w \in Seq(Letters) /\ Len(w) = 6 /\ w[1] # Space /\ w[2] # Space
        /\ w[3] # Space /\ w[4] # Space /\ w[6] # Space
    BY ONLY <1>1, <1>2, <1>7
  <2>2. \A i \in 1 .. 6 - 1 : w[i] # Space \/ w[i + 1] # Space
    <3>1. \A i \in 1 .. 6 - 1 : i = 1 \/ i = 2 \/ i = 3 \/ i = 4 \/ i + 1 = 6
      OBVIOUS
    <3> QED
      BY ONLY <2>1, <3>1
  <2>3. 6 \in Nat /\ 6 > 0
    OBVIOUS
  <2> QED
    BY ONLY <2>1, <2>2, <2>3, SpacedWord
<1>8. \/ w = <<"a">> \/ w = <<"c">> \/ w = <<"/", "a">> \/ w = <<"a", Space, "b">>
      \/ w = <<"-", "a", "=", "b", Space, "c">>
  BY DEF GivenTexts
<1> QED
  BY ONLY <1>3, <1>4, <1>5, <1>6, <1>7, <1>8

LEMMA AnswerQuotable ==
  ASSUME NEW t \in TextAnswers
  PROVE  t \in Quotable(Letters)
<1>1. t \in Seq(Letters) /\ t # <<>>
  <2> SUFFICES ASSUME NEW n \in 1 .. 3, t \in [1 .. n -> {"a", Space, "=", "-", "/"}]
               PROVE  t \in Seq(Letters) /\ t # <<>>
    BY DEF TextAnswers
  <2>1. {"a", Space, "=", "-", "/"} \subseteq Letters
    BY DEF Letters
  <2>2. t \in [1 .. n -> Letters] /\ n \in Nat
    BY <2>1
  <2>3. t \in Seq(Letters) /\ Len(t) = n
    BY ONLY <2>2
  <2>4. n # 0 /\ Len(<<>>) = 0
    OBVIOUS
  <2> QED
    BY ONLY <2>3, <2>4
<1> QED
  BY ONLY <1>1, LettersQuotable

\* A line with any number of values takes an answer and gives it back.
LEMMA LineIsWhole ==
  ASSUME NEW n \in Nat
  PROVE  WholeAfter(n)
<1> SUFFICES ASSUME NEW given \in GivenTexts, NEW answer \in TextAnswers
             PROVE  LET words == <<<<"c">>>> \o [i \in 1 .. n |-> given]
                        text == AddAction(AddActions(words), answer)
                    IN  /\ SplitString(text) = [words |-> Append(words, answer), end |-> "none"]
                        /\ ~Has(answer, Space) =>
                             SplitString(ClearLastArgumentFromActionStack(text))
                               = SplitString(AddActions(words))
  BY DEF WholeAfter
<1> DEFINE first == <<<<"c">>>>
           rest == [i \in 1 .. n |-> given]
           words == first \o rest
           text == AddAction(AddActions(words), answer)
<1>1. words \in Seq(Respaced(Letters)) /\ words # <<>> /\ words[1] = <<"c">>
  <2>1. first \in Seq(Respaced(Letters)) /\ Len(first) = 1 /\ first[1] = <<"c">>
    <3>1. <<"c">> \in Respaced(Letters)
      BY GivenOK
    <3> QED
      BY <3>1
  <2>2. rest \in Seq(Respaced(Letters)) /\ Len(rest) \in Nat
    <3>1. given \in Respaced(Letters)
      BY GivenOK
    <3> QED
      BY <3>1
  <2> HIDE DEF first, rest
  <2>3. /\ words \in Seq(Respaced(Letters)) /\ Len(words) = Len(first) + Len(rest)
        /\ \A i \in 1 .. Len(first) : words[i] = first[i]
    BY <2>1, <2>2, Joins
  <2> HIDE DEF words
  <2>4. Len(words) # 0 /\ Len(<<>>) = 0 /\ 1 \in 1 .. 1
    BY <2>1, <2>2, <2>3
  <2> QED
    BY ONLY <2>1, <2>3, <2>4
<1>2. words \in Seq(Quotable(Letters)) /\ ~Has(words[1], Space)
  <2>1. Respaced(Letters) \subseteq Quotable(Letters)
    BY DEF Respaced
  <2>2. ~Has(<<"c">>, Space)
    <3>1. \A i \in DOMAIN <<"c">> : <<"c">>[i] = "c"
      OBVIOUS
    <3>2. "c" # Space
      BY DEF Space
    <3> QED
      BY ONLY <3>1, <3>2 DEF Has, Range
  <2> HIDE DEF words
  <2>3. words \in Seq(Quotable(Letters))
    BY ONLY <1>1, <2>1
  <2> QED
    BY ONLY <1>1, <2>2, <2>3
<1> HIDE DEF words
<1>3. answer \in Quotable(Letters)
  BY AnswerQuotable
<1>4. SplitString(text) = [words |-> Append(words, answer), end |-> "none"]
  BY ONLY <1>3, <1>1, <1>2, AnswerComesBack
<1>5. ASSUME ~Has(answer, Space)
      PROVE  ClearLastArgumentFromActionStack(text) = AddActions(words)
  BY ONLY <1>3, <1>1, <1>5, AnswerIsTakenBack
<1> HIDE DEF text
<1>6. /\ SplitString(text) = [words |-> Append(words, answer), end |-> "none"]
      /\ ~Has(answer, Space) =>
           SplitString(ClearLastArgumentFromActionStack(text)) = SplitString(AddActions(words))
  BY <1>4, <1>5
<1> QED
  BY <1>6 DEF words, text

\* Whatever stands on the line, what is answered or given on the system command line
\* reaches the parser as one word, however many values the line has.
THEOREM AnswersAreWhole == Spec => []AnswersStayWhole
<1>1. TypeOK => AnswersStayWhole
  <2> SUFFICES ASSUME TypeOK, line # NoLine
               PROVE  \E k \in WholeCounts : Len(line.vals) <= k
    BY DEF AnswersStayWhole
  <2> DEFINE k == Len(CommandArgs[line.cmd].args)
  <2>1. /\ line.cmd \in Cmds /\ line.vals \in Seq(Values)
        /\ Len(line.vals) <= Len(CmdArgs[line.cmd].args)
    BY ScenarioOK DEF TypeOK, ConsoleOK, LineOK, Lines
  <2>2. line.cmd \in DOMAIN CommandArgs /\ CmdArgs[line.cmd] = CommandArgs[line.cmd]
    BY <2>1, TablesAssumption DEF CmdArgs
  <2>3. k \in Nat
    BY <2>2, CommandOK
  <2>4. \A n \in 0 .. k : WholeAfter(n)
    <3>1. ASSUME NEW n \in 0 .. k PROVE n \in Nat
      BY <2>3
    <3> QED
      BY ONLY <3>1, LineIsWhole
  <2>5. k \in WholeCounts
    BY ONLY <2>2, <2>4 DEF WholeCounts
  <2> QED
    BY ONLY <2>1, <2>2, <2>5
<1> QED
  BY <1>1, TypeCorrect, PTL
=============================================================================
