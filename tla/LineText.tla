------------------------------ MODULE LineText ------------------------------
(***************************************************************************)
(* A line as the text it is until CmdLine::parse gets its words: how the   *)
(* console puts it together (AddActions, AddAction, AddQuotesToArgument,   *)
(* ClearLastArgumentFromActionStack) and takes it apart again              *)
(* (StringUtil::SplitString, in both its forms).                           *)
(*                                                                         *)
(* A text is a sequence of characters; positions count from 1, and 0 is    *)
(* none, where the code counts from 0 and has -1.                          *)
(***************************************************************************)
EXTENDS Integers, Sequences, FiniteSetsExt, SequencesExt

Space == " "
Quote == "\""

\* std::string::find and rfind.
FindIn(s, c, from) == Min({i \in from .. Len(s) : s[i] = c} \cup {Len(s) + 1}) % (Len(s) + 1)
RFindIn(s, c, from) == Max({i \in 1 .. from : i <= Len(s) /\ s[i] = c} \cup {0})

Has(s, c) == c \in Range(s)

-----------------------------------------------------------------------------
(* SplitString, with blanks and quotes.                                    *)

\* The word in s from a to b goes to the list, unless it is empty.
PushBack(words, s, a, b) == IF a <= b THEN Append(words, SubSeq(s, a, b)) ELSE words

\* at: up to where the text has been used.  space, quote: the next of each.  quotes:
\* how many of a pair are still to come.  spaceNext: the space comes first.
BeginSplit(s) ==
  LET space == FindIn(s, Space, 1)
      quote == FindIn(s, Quote, 1)
  IN  [at |-> 1, space |-> space, quote |-> quote, quotes |-> IF quote # 0 THEN 2 ELSE 0,
       spaceNext |-> space # 0 /\ (quote # 0 => space < quote),
       words |-> <<>>, end |-> "none"]

SpaceFound(s, z) ==
  [z EXCEPT !.words = PushBack(@, s, z.at, z.space - 1),
            !.at = z.space + 1,
            !.space = FindIn(s, Space, z.space + 1)]

\* Where the option begins whose value is in quotes: at the last "/", or "-", before
\* the value or at its first character.
GetArgFlagPos(s, at) ==
  IF RFindIn(s, "/", at) # 0 THEN RFindIn(s, "/", at) ELSE RFindIn(s, "-", at)

\* The word in quotes, from its option if there is a "=" before the first quote.  That
\* needs a character before the quote, and an option: substr throws out_of_range.
QuotedWord(s, z) ==
  LET option == z.at > 2 /\ s[z.at - 2] = "="
      from == GetArgFlagPos(s, z.at)
  IN  IF z.at <= 2 \/ (option /\ from = 0) THEN [z EXCEPT !.end = "out_of_range"]
      ELSE [z EXCEPT !.quotes = 0,
                     !.words = IF option THEN PushBack(@, s, from, z.quote)
                               ELSE PushBack(@, s, z.at, z.quote - 1)]

\* Past a quote.  One that is opened by the last character is not missed.
PastQuote(s, z) ==
  LET next == FindIn(s, Quote, z.quote + 1)
      quotes == IF next # 0 THEN (IF z.quotes = 0 THEN 2 ELSE 1)
                ELSE IF z.quote = Len(s) THEN 0 ELSE z.quotes
  IN  [z EXCEPT !.at = z.quote + 1, !.quote = next, !.quotes = quotes,
                !.end = IF quotes # 0 /\ next = 0 THEN "no matching quote" ELSE @]

QuoteFound(s, z) ==
  LET y == IF z.quotes = 1 THEN QuotedWord(s, z) ELSE z
  IN  IF y.end = "none" THEN PastQuote(s, y) ELSE y

\* A space between quotes does not count.
NextSeparator(s, z) ==
  LET inside == z.quotes = 1 /\ z.space # 0 /\ z.quote > z.space
  IN  [z EXCEPT !.spaceNext = z.space # 0 /\ z.quotes # 1 /\ ~(z.quotes = 2 /\ z.quote < z.space),
                !.space = IF inside THEN FindIn(s, Space, z.quote) ELSE @]

Turn(s, z) ==
  IF z.end # "none" \/ (z.space = 0 /\ z.quote = 0) THEN z
  ELSE NextSeparator(s, IF z.spaceNext THEN SpaceFound(s, z)
                        ELSE IF z.quotes > 0 THEN QuoteFound(s, z) ELSE z)

\* Every turn goes past a space or a quote, so there are no more of them than characters.
SplitString(s) ==
  LET z == FoldLeft(LAMBDA y, i : Turn(s, y), BeginSplit(s), s)
  IN  [words |-> IF z.end = "none" THEN PushBack(z.words, s, z.at, Len(s)) ELSE <<>>,
       end |-> z.end]

\* SplitString with a delimiter.
SplitAt(s, c) ==
  LET Past(z, i) == IF s[i] = c
                    THEN [words |-> PushBack(z.words, s, z.at, i - 1), at |-> i + 1] ELSE z
      z == FoldLeft(Past, [words |-> <<>>, at |-> 1], [i \in DOMAIN s |-> i])
  IN  PushBack(z.words, s, z.at, Len(s))

-----------------------------------------------------------------------------
(* Lines.                                                                  *)

\* Mutant of AddQuotesToArgument: the argument is left as it is.
AddNoQuotes(arg) == arg

AddQuotesToArgument(arg) ==
  LET front == IF arg[1] = Quote THEN arg ELSE <<Quote>> \o arg
  IN  IF ~Has(arg, Space) THEN arg
      ELSE IF front[Len(front)] = Quote THEN front ELSE Append(front, Quote)

\* From the system command line.
AddActions(args) ==
  LET Add(text, arg) == text \o AddQuotesToArgument(arg) \o <<Space>>
      text == FoldLeft(Add, <<>>, args)
  IN  IF Len(text) > 1 THEN SubSeq(text, 1, Len(text) - 1) ELSE text

\* An answer, when a command is incomplete.
AddAction(text, input) == text \o <<Space>> \o AddQuotesToArgument(input)

ClearLastArgumentFromActionStack(text) ==
  LET Join(a, b) == a \o <<Space>> \o b
      items == SplitAt(text, Space)
  IN  FoldLeft(Join, items[1], SubSeq(items, 2, Len(items) - 1))
=============================================================================
