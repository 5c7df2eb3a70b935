----------------------------- MODULE FileSearch -----------------------------
(***************************************************************************)
(* How src/DioCLI/ConsoleControl.cpp makes a search of what is on a line:  *)
(* the filter of searchfiles and searchfilestotal and what it means for    *)
(* the list that is shown, the page, and the search for the one file that  *)
(* a name, an ID or a hash stands for.                                     *)
(***************************************************************************)
EXTENDS Integers, Sequences

\* A line has some of these options; isdeleted and iscomplete have a setting, or "unset".
Limits == {"id", "md5", "sha1", "maxsize", "minsize"}
Dates == {"start", "end"}
MetaPair == {"metaname", "metavalue"}
Settings == {"unset", "yes", "no", "all"}

MaxVerbosePageSize == 50

-----------------------------------------------------------------------------
(* Options, or else the profile.                                           *)

\* VerboseOutput, GetConfigVerbose: the switch turns on what the profile may have on.
VerboseOutput(switch, profile) == switch \/ profile

\* GetConfigPageSize, GetConfigOffset: an option, or else what the profile has, if
\* anything.
OptionOrProfile(option, profile, none) ==
  IF option # "unset" THEN option ELSE IF profile # "unset" THEN profile ELSE none

\* The page of a search.  The size is limited for -physicalfiles, which shows all in
\* full; -v itself counts as an argument, and with an argument it is not limited.
PageSize(option, profile, verbose, argSet) ==
  LET size == OptionOrProfile(option, profile, MaxVerbosePageSize)
  IN  IF verbose /\ size > MaxVerbosePageSize /\ ~argSet THEN MaxVerbosePageSize ELSE size

-----------------------------------------------------------------------------
(* SetupSearchFilter.                                                      *)

\* ValidateDate: a date that cannot be read is ignored, but it counts as given.
ReadDates(given) == {d \in Dates \cap given.options : d \notin given.unreadable}

\* A name of metadata needs a value, and a value a name.
ReadMetaData(given) == IF MetaPair \subseteq given.options THEN MetaPair ELSE {}

\* What was given, but the name of the file and what is shown of deleted files.
Narrowed(given) ==
  \/ given.verbose \/ given.complete # "unset"
  \/ given.options \cap (Limits \cup Dates) # {} \/ ReadMetaData(given) # {}

\* What the service looks for.
Criteria(given) ==
  (given.options \cap ({"name"} \cup Limits)) \cup ReadDates(given) \cup ReadMetaData(given)

Tristate(setting) ==
  CASE setting = "yes" -> "true" [] setting = "no" -> "false" [] OTHER -> "null"

\* Mutant of SetupSearchFilter: the list hides deleted files unless it is asked for them.
SetupFilterHiding(given) ==
  [criteria |-> Criteria(given), isCompleted |-> Tristate(given.complete),
   isDeleted |-> IF given.deleted = "unset" /\ ~Narrowed(given) THEN "false"
                 ELSE Tristate(given.deleted),
   showDeleted |-> given.deleted = "yes",
   argSet |-> Narrowed(given) \/ given.deleted # "unset"]

\* Deleted files are left out if nothing else is said: by the service, which is told
\* so, and by the list that is shown.
SetupSearchFilter(given) ==
  [criteria |-> Criteria(given), isCompleted |-> Tristate(given.complete),
   isDeleted |-> IF given.deleted = "unset" /\ ~Narrowed(given) THEN "false"
                 ELSE Tristate(given.deleted),
   showDeleted |-> given.deleted \in {"yes", "all"}
                   \/ (given.deleted = "unset" /\ Narrowed(given)),
   argSet |-> Narrowed(given) \/ given.deleted # "unset"]

-----------------------------------------------------------------------------
(* The one file that is meant.                                             *)

\* What a text looks like: whether it has a dot, what its other characters are, and
\* how many it has.
Texts == [dot : BOOLEAN, chars : {"digits", "hex", "any"}, length : {1, 32, 40}]

VerifyIsDigit(text) == text.chars = "digits"
VerifyIsHex(text) == text.chars \in {"digits", "hex"}

\* What it is taken for: with an extension a name, of the right length a hash, of
\* digits alone an ID, and else a name.
GetFileIDType(text) ==
  IF text.dot THEN "file"
  ELSE IF VerifyIsHex(text) /\ text.length = 32 THEN "md5"
  ELSE IF VerifyIsHex(text) /\ text.length = 40 THEN "sha1"
  ELSE IF VerifyIsDigit(text) THEN "id"
  ELSE "file"

\* With a hash all files that are found are the same, and the first will do.
PickOne(type, found) ==
  IF found = <<>> \/ (type \notin {"md5", "sha1"} /\ Len(found) > 1) THEN "none"
  ELSE found[1]

\* GetFileID: the ID that was typed, or that of the file that is found.
FileIDOf(text, typed, found) ==
  IF GetFileIDType(text) = "id" THEN typed ELSE PickOne(GetFileIDType(text), found)
=============================================================================
