---------------------------- MODULE ResumeRecords ----------------------------
(***************************************************************************)
(* What the resume files promise: a record of how much of each file was    *)
(* uploaded, written one at a time and removed when its file is finished,  *)
(* unless the files themselves are deleted or emptied.  A process that     *)
(* dies while it rewrites them may damage them, and only that takes other  *)
(* records along.  From then on a record may be lost, found again, or be   *)
(* an older one, until the files have been written anew; but none tells of *)
(* bytes that no process had counted for its file.                         *)
(***************************************************************************)
EXTENDS Naturals

CONSTANTS IDs, Size, NoRecord

VARIABLES
  record,    \* the bytes recorded of each file, or NoRecord
  known,     \* <<i, n>> if n bytes of the file i were once to be recorded
  finished,  \* the files of which all bytes were to be recorded, or reported
  gone,      \* there is no data file, or nothing in it
  damaged    \* the files are not as a process that does not die leaves them

vars == <<record, known, finished, gone, damaged>>

Init ==
  /\ record = [i \in IDs |-> NoRecord] /\ known = {} /\ finished = {}
  /\ gone \in BOOLEAN /\ damaged = FALSE

\* Here old and new are the records before and after the step.
Changed(old, new) == {i \in IDs : new[i] # old[i]}
Lost(old, new) == {i \in Changed(old, new) : new[i] = NoRecord}

\* The record of i is written, and no other.
Put(i, old, new) == Changed(old, new) \subseteq {i} /\ new[i] # NoRecord

\* The record of i, which is finished, is removed, and with it those of other files
\* that are complete.
Remove(i, old, new, over) ==
  /\ i \in over
  /\ Changed(old, new) = Lost(old, new)
  /\ \A j \in Lost(old, new) \ {i} : old[j] = Size

\* All of them are removed, with the files.
Clear(new, goner) == goner /\ \A i \in IDs : new[i] = NoRecord

\* What a process does that does not damage the files.
Change(old, new, over, goner) ==
  \/ new = old
  \/ \E i \in IDs : Put(i, old, new) \/ Remove(i, old, new, over)
  \/ Clear(new, goner)

\* One that dies in the middle damages them, and so does one that clears them while
\* another has them open: any record may be lost, but none is changed.
Die(old, new) == Changed(old, new) = Lost(old, new)

\* over, goner and hurts are finished, gone and damaged after the step.
Step(old, new, over, goner, hurts) ==
  /\ new \in [IDs -> 0 .. Size \cup {NoRecord}]
  /\ finished \subseteq over /\ goner \in BOOLEAN /\ hurts \in BOOLEAN
  /\ known \subseteq known' /\ \A k \in known' \ known : known' = known \cup {k}
  /\ \A i \in IDs : new[i] # NoRecord => <<i, new[i]>> \in known'
  /\ \/ damaged
     \/ ~damaged /\ ~hurts /\ Change(old, new, over, goner)
     \/ ~damaged /\ hurts /\ Die(old, new)

Next ==
  \E old \in {record}, new \in {record'}, over \in {finished'}, goner \in {gone'},
     hurts \in {damaged'} : Step(old, new, over, goner, hurts)

Spec == Init /\ [][Next]_vars
=============================================================================
