# Verification of DioCLI

DioCLI is the command line client of a file storage service: a console program that logs in,
uploads and downloads files in blocks, and can go on with an upload that was interrupted, by itself
after a pause or in a later run of the program; about seventy more commands look after users,
accounts, files, products and contracts. This directory holds TLA+ models of the parts where that
goes wrong in ways tests hardly reach, the TLC runs that check them, and TLAPS proofs of their main
properties for any number of threads, processes, files, blocks and retry intervals, for any
table of commands that keeps the order the handlers rely on, and for lines and lists of any length.

`PROJECT.json` lists the components, the runs, the seeded bugs each property is known to catch, the
source lines behind every definition, the hazards and the theorems. This file explains them.

## 1. Inventory

| Part | Code | State | Operations | Interacts with |
|---|---|---|---|---|
| Worker thread | `Util/Thread.cpp`, `Task.h`, `EventClass.cpp`, `DioCLI/DiomedeTask.*` | task array and its index, `m_bRunning`, `m_state`, event, status of each task | `Event`, `Push`, `Pop`, `KernelProcess`, `OnTask`, `Stop`, `~CThread` | every command hands it tasks and polls their status |
| Resume lock | `DioCLI/ResumeNamedMutex.h`, `ResumeManager.cpp:150-205` | a named mutex of the system, `m_pMutexUtil`, `m_nLocks` | `CreateLock`, `LockResources`, `UnlockResources` | all DioCLI processes of the machine; the resume store |
| Upload and resume commands | `DioCLI/ConsoleControl.cpp:4890-7100` | file ID, bytes uploaded, interval, retries, `g_bSessionError` | `UploadFileBlocks`, `CreateFile`, `ResumeCreateFile`, `ResumeCurrentUpload`, `RepeatLast...Task`, `UpdateUploadStatus` | worker thread, service, resume store, session |
| Resume store | `DioCLI/ResumeManager.cpp`, `ResumeInfoData.cpp` | `.dat` and `.idx` file with headers, lists in memory | read, write, clear a record; save, load | upload and resume commands, resume lock |
| Session | `ConsoleControl.cpp:1880-2060`, `15608-15830`, `18868-19160` | user, token, `m_bConnected`, `g_nSessionRetries`; in the profile switches, credentials, token | `LoginUser`, `HandleTask`, `RepeatLastTask`, `ResetLoginData`, `SetAutoLoginData`, start and stop | every command |
| Command and action stack | `DioCLI.cpp:330-460`, `ConsoleControl.cpp:600-800`, `19454-20110` | stack with the command being put together, prompt, mask, reprompt counts | `AddAction`, `ProcessActionStack`, `ProcessCommand`, `ClearLastArgumentFromActionStack`, CTRL+C | all commands |
| Commands | `ConsoleControl.cpp:2060-15600`, `DiomedeTask.*` | list of storage types, redirected output | one handler each: checks, questions, tasks, lists | worker thread, session |
| Command line arguments | `CommandDefs.h`, `ConsoleControl.cpp:16080-18860`, `Diomede*Arg.h`, `tclap/` | arguments of every command, which outlive the lines | names, registration, `CmdLine::parse`, `resetArgs` | command stack, handlers |
| Download command | `ConsoleControl.cpp:8881-9300` | bytes received | as upload, without record or resume | worker thread, session |
| The rest | timers, profile file, logging, enumeration, hashes, strings, build tools | settings and text | pure I/O, formatting, data | - |

The service and its SDK are external: they appear as the possible outcomes of a task.

What is hard, and what makes each part correct:

* **Worker thread.** Two or more threads share the queue under one mutex, but the status of a task
  and the event are written outside it (`Thread.cpp:341-350`); the POSIX event has neither a
  flag nor a predicate (`EventClass.cpp:76,116`); callers often ignore what `Event` returns and
  then poll. Correct means: nothing accepted is lost or run twice, a caller never takes an old
  result for its own, the thread wakes when there is work, and it is gone before its object is.
* **Resume lock.** Processes come, nest their calls, fail and die, and `CreateLock` removes the name
  of the mutex under whoever holds it. Correct means: the lock excludes, it is held until the
  matching unlock, and a dead DioCLI blocks nobody.
* **Upload and resume.** Connection errors, expired sessions, CTRL+C, cancelled countdowns and
  crashes come at any point of two nested retry loops, and the record of what the service has lags
  behind it. Correct means: no block is skipped, what is reported as uploaded is there, retries end,
  and an unfinished file can be resumed.
* **Resume store.** Two files are rewritten in place, with lists in memory that mirror them. Correct
  means: memory and files agree, and the loss of one record is not the loss of others.
* **Session.** `m_bConnected` is what handlers look at, the token is what tasks send, and the user
  name is what a renewal logs in with; the three are set in a dozen places, and token and credentials
  are saved separately. Correct means: a task that needs a token has one, and it is the token of the
  user who is shown, in this process and in the next.
* **Dialogue.** An answer is only appended to the text of the line, which is parsed anew, by a
  handler that starts anew, after each answer. Correct means: an answer reaches the argument it was
  asked for, a prompt names that argument and hides passwords only, questions end, and a
  command that is given up, refused or broken off runs no task and leaves nothing behind.
* **Commands.** Seventy handlers written alike, each with the same four things to get right: look
  whether somebody is logged in, ask for all that the task needs, put the output back, end.
* **Arguments and lists.** The argument objects are reused from line to line; short lists go over
  their entries twice. Correct means: a line is read as if it were the first, and a list shows what
  was found.

The `hazards` of `PROJECT.json` name each of these at its line.

## 2. The modules and the code

Each component is a module with its state, actions and specification; a `...Props` module with what
is checked; an `MC...` module with the instances for TLC; and a `..._proofs` module.

### WorkerThread (`TaskExecutor`, `WorkerThreadProps`, `MCWorkerThread`, `WorkerThread_proofs`)

One `CThread` of the homogeneous, event-driven kind, the only one DioCLI creates, from its
constructor to its destructor, with the threads that call `Event` and its owner.

* One action is one critical section of `m_mutex` or of a task's own mutex, or one call on the
  event. `Event` (`Thread.cpp:298-358`) is therefore `EventTest`, `Ping`, `Recheck`, `Push`,
  `SetWaiting`, `Signal` and `Rejected`; the thread is `WorkerStart`, `EnterWait`, `Wake`,
  `KernelProcess`, `TestEmpty`, `Pop`, `BeginTask`, `RunTask`, `CompleteTask` and `WorkerExit`; the
  destructor is `Destroy`, `StopRunning`, `StopSignal` and `StopDone`.
* `slots` and `queuePos` are the array and its index. It is a stack: `Pop` takes the task
  pushed last. One slot is never used (`Full`).
* `Remembers` selects the event: the Windows auto-reset event keeps a signal, the POSIX condition
  variable gives it to a thread that is blocked at that moment and otherwise loses it, and may end
  a wait without one.
* `Policies` is what the callers in `ConsoleControl.cpp` do with a `FALSE` from `Event`: return it
  (`giveup`: the `RepeatLast...Task` functions), ask again once if the task was never submitted and
  then poll (`retry`: `HandleTask`), or poll at once (`ignore`: `CommandThread::Start`,
  `CreateFile`, `UploadFileBlocks`). `MayAbandon` is `ResumeCountdown`, which leaves its loop when
  the countdown is over.
* `pushed`, `ran` and `abandoned` are history variables; no guard but the bound `MaxSubmits` and the
  rule that a task left behind is not handed over again reads them.
* `CommandThread::Stop` only clears a flag; what stops the thread is `~CThread`.

`TaskExecutor` is what a caller relies on: a task handed over is owed one run, and whoever waits for
it comes back when the run is over, or leaves it behind. `ImplementsExecutor` is the refinement:
`owed` is the tasks pushed more often than run, `waiting` the task of each caller that was accepted
and polls, `left` the abandoned ones.

### ResumeLock (`ResumeLockProps`, `MCResumeLock`, `ResumeLock_proofs`)

Any number of DioCLI processes around one named mutex. A name refers to a mutex *object*; removing
the name leaves the object to whoever has it open, and the next to open the name creates a fresh one
(the POSIX meaning; boost's emulation on Windows is not modelled). `CreateLock` is `RemoveName`,
`OpenOrCreate`, `OpenFails` and `Acquire`; the nesting of the public methods of `ResumeManager` is
`Enter`, `Nest` and the three unlocks. A call whose `LockResources` failed goes on
without the lock, as the code does. Objects are reused when nobody can reach them, which
keeps the set finite. `takenAt` and `leftover` are history.

### UploadFlow (`UploadFlowProps`, `MCUploadFlow`, `UploadFlow_proofs`)

The upload and the resume command of one DioCLI, from the first file to the last, with the service
(`created`, `stored`) and the resume files (`record`), which outlive a crash, and the program's memory.

* `Start`, `NextNew`, `NextRecord`, `NextComplete`, `Skip` and `EndCommand` are the loops of
  `ProcessUploadCommand` and `ProcessResumeCommand`.
* `CreateOk`, `Send`, `SendComplete` and `UploadOk` are the tasks and the status callback, which
  runs on the worker thread; `TaskFails(e)` says which errors can end a task where.
* `Created`, `Finish`, `BeginResume`, `DirectSessionError`, `DirectError`, `ResumeError`,
  `RepeatError`, `LoginOk`, `LoginFails`, `CountdownOver`, `Cancelled` and `OutOfIntervals` are what
  the caller does next, in `CreateFile`, `UploadFileBlocks`, `ResumeCreateFile`,
  `ResumeCurrentUpload`, `RepeatLastCreateFileTask` and `RepeatLastUploadTask`. The two resume
  functions differ only in their task and are told apart by `task`.
* A write of a record may fail when the files cannot be locked, opened or read (`StoreMayFail`); the
  files are then as they were. `Crash` kills the program anywhere, `CutShort` between the
  truncation of a file and its rewriting, where any record may be lost; from then on the files are
  `damaged`, and a later write may be refused, lose records or lead to older ones (`Found`,
  `Salvaged`), which `ResumeRecords` allows of damaged files only. Files that have been written anew are no longer damaged,
  which this module leaves out: it allows more than the code does.

`RecordsAsPromised` is the seam to the store: this module and ResumeStore both implement
`ResumeRecords`, from the side that uses the records and from the side that keeps them. `Known`, the
bytes the service has of each file, stands for the bytes a record may tell of, and `Finished`, the
files that are at the service or reported, for those whose record may go.

It composes with the others by what they promise: a task handed over is run once and its caller
gets that run's result (`ImplementsExecutor`), and `Event` does not refuse a task of the upload
path, because `CommandThread::Start` has run one before (`RejectedOnlyBeforeFirstRun`). A caller
that never comes back (section 4) is a command that hangs, which ends nothing and loses nothing.

Left out of it: the metadata that follow the creation of a file; other DioCLI processes that
rewrite the same files; a full disk; the deletion of resume files of another format; a file that
appears after the directory was enumerated. "Network unreachable" differs from other connection
errors only in wording. A lost response to a creation is a creation that failed: the service then
has a file DioCLI knows nothing of, which the code cannot tell from one it never created.

### ResumeStore (`ResumeRecords`, `ResumeStoreProps`, `MCResumeStore`, `ResumeStore_proofs`)

The files themselves, `ResumeUploads.dat` and `ResumeUploads.idx`, and any number of processes that
read and rewrite them. Each public method of `ResumeManager` is one step, as if the lock excluded the
others (ResumeLock says when it does not), and a definition of the name of the method: it gives the
set of its outcomes, the files, the list in memory and the result, with one outcome `"died"` for each
point between two writes to the files. Methods call each other as in the code: `WriteRecord` is
`ConsoleControl::WriteResumeUploadData` with its retry, over `WriteResumeUploadData`, `ReadByFileID`,
`LoadResumeInfo` and `OpenResumeData`, then `ClearResumeInfo` and `Saved` for a file that is done.

* A data file is a sequence of cells, a cell standing for several characters: the header is one, the
  record of a file as many as `Length` says. Records do not change in length, because the code pads
  the number of bytes and the other fields have a fixed width once the first record is written;
  lines are shorter than the buffer of `fgets`. A cell of a record is its file, its bytes and its
  place in the line (`TextCell`); a line is `Text`, and can be read where all its cells follow each other
  (`LineAt`). `ReadAt` skips blanks as `scanf` does, so an entry that points into padding leads to the
  record that follows (`Starts`).
* `Overlay` is `fwrite` after `fseek`, past the end of the file too.
* `StartUpload`, `StartResume`, `StartResumeOf`, `ListRecords`, `NextRecord`, `GiveUp`, `EndCommand`,
  `ClearFiles` and `Quit` are what the commands do with it, and `NextWrites` the writes they may do
  next; `DieInWrite` and `DieInClearFiles` are the deaths in the middle.
* `Consistent` is what no method disturbs: an exact index, and no list in memory that outlives the
  files. `ResumeRecords` is what the commands rely on, the `record` and `damaged` of UploadFlow: one
  record of each file, and while the files are not damaged a step writes one of them (`Put`), removes
  that of a finished file, and with it those of others that are complete (`Remove`, as
  `ClearResumeInfo` does), or removes all because there is no data file or nothing in it (`Clear`: a
  user cleared them, or a removal left none). Other records are lost only in a step that leaves the
  files damaged (`Die`): a death, as `StaysConsistent` says, or a user who clears the files behind
  another DioCLI. From then on records may be lost, found again or be older ones, but none tells of
  bytes that no process had counted for its file. `counted` is history: the records that were to be
  written. It is what entitles `Found` of UploadFlow to bytes the service has.

Left out: a death between the two deletions of files of an older format, which leaves an index that
the next write replaces; errors of the file system; a write the system tears in two. The header that
stays in the buffer when a write ends with a lock error is taken to be written at once.
`ClearsBehind` is FALSE in `StoreRecords`: no user clears the files while another DioCLI has read
them. `StoreEmptied` shows what happens otherwise.

### Console (`Session`, `ConsoleProps`, `MCConsole`, `Console_proofs`)

The interactive program: the loop of `_tmain`, the action stack, the handler that is running, and the
session. Console takes the tables of commands as CONSTANTS (`Args`, `Steps`) and says what each
*kind* of step does; `MCConsole` gives it the tables of `Commands`; `Console_proofs` knows nothing
of them but the `ASSUME`s.

* `pc`: `Launch` is `StartDioCLI`, `TypeLine`, `Answer`, `Blank`, `AskUsage`, `TypeNonsense`,
  `AnswerNonsense`, `CtrlC` and `EndOfInput` are what comes from the keyboard or the file, `Submit` is
  `ProcessActionStack` up to the handler, `Finish` what it does afterwards, `Stop` and `Relaunch` the
  end of a process and the next one, which shares only the profile with it, and `Kill` an end at any
  other step. `severed` is history: a login was cut off between its two saves (`Severs`).
* `line` is the one entry of the stack. A value is the argument it was typed *for* and whether that
  argument's check accepts it; a word is *bound* to the argument at its place (`ArgAt`). That the two
  agree is what `AnswersLand` says. Texts with blanks and quotes are LineText's.
* A step of a handler is a record; its `op` names the action: `ask`, `asklogin`, `askuser` and
  `billing` ask (`AllGiven`, `AskStep`, `GiveUp`, `AskLogin`, `LoginFromProfile`, `BillingGiven`,
  `AskBilling`, `BillingGivenUp`); `gate` looks at `m_bConnected`; `do` and `download` run a task;
  `token`, `account`, `connect`, `keeplogin`, `forgetlogin`, `assumelogin`, `configure` and
  `disconnect` are the parts of logging in and out; `redirect`, `show` and `restore` are
  the output; `needtypes`, `newtypes`, `filltypes` and `usetypes` are the list of storage types; a step
  marked `maybe` may be skipped, when the code has a condition the model does not keep.
* `count` is the reprompt count, kept in each argument over calls of the handler; `blanks` is history.
* `Session` has `HandleTask` with its outcomes - answered, given back, repeated, repeated after a
  login - and the operations on login and profile. A token is the user it was issued to; it may expire
  at any time, which shows only in the answer to a task.
* `env` is the scenario, chosen once: how DioCLI is started (`system`, `batch`, `windows`), what may
  happen (`slips`, `errors`, `checks`, `again`), which commands and users, which profiles. With `checks`
  each login may check the account or not, since `setconfig` can switch this at any time; with `again`
  DioCLI may be killed and is started again.

### Commands (`Commands`, `CommandArguments`, `ServiceTasks`)

Data for Console, one definition for each function of the source. `CommandArguments` has what each
`Setup...Command` registers, `ServiceTasks` each task class with its call, whether it sends a token
and what it needs, and `Commands` each handler as the sequence of its steps (`DoOnce` is the loop of
`ProcessResetPasswordCommand`, which repeats nothing). `CommandArgs` and
`CommandSteps` are the two tables.

### Names, lines and texts (`CommandNames`, `CommandLines`, `LineText`, `CommandProps`, `CommandLines_proofs`)

`CommandNames` has the tables of `CommandDefs.h` and the ways through them: `CommandOf` is the lookup
of `ProcessActionStack`, alternate names first. `CommandLines` is `CmdLine::parse` over the arguments in
the order of registration (`Registered`), with TCLAP's blank character and what `resetArgs` leaves
(`ResetArgs`). `LineText` is a line as characters: `SplitString` in both its forms with its positions,
`AddActions`, `AddAction`, `AddQuotesToArgument`, `ClearLastArgumentFromActionStack`.

### Lists (`Listings`, `FileSearch`, `ListingProps`, `Listings_proofs`)

`Listings` has the display functions: which entries make a row, under which ID, what is added up,
where CTRL+C cuts. `FileSearch` has how a search is made of the options of a line and what it makes of
deleted files, the page size, and the search for the one file that a name, ID or hash stands for.

The parser and the displays are folds over words and entries. `LeftFolds` is what the proofs about them
share: the trace of a fold, with its operator as the parameter of the module.

These pure functions are checked by the Console run: their properties are stated of the command that is
worked on, and a scenario types every command.

## 3. Runs

| Run | Asks | Instance | Result |
|---|---|---|---|
| `WorkerSafety` | is every push run exactly once, is a `Completed` always fresh, is this the abstract executor? | 2 callers, 2 tasks handed over twice, 2 slots, POSIX event, all policies and results, abandoned tasks | holds, 663 315 states |
| `WorkerWindows` | does the thread wake for work, end when told to, refuse nothing after a first task, and is it gone before it is freed? | 1 caller that ignores refusals, 2 tasks handed over three times, 3 slots, Windows event | holds, 34 891 states |
| `WorkerLostWakeup` | does `Event` wake the thread (POSIX)? | 1 caller, 1 task | **violated** |
| `WorkerStuck` | is a caller stuck only after a task that failed? | 1 caller, 2 tasks, Windows event | **violated** |
| `LockSafety` | one holder per object, nesting, no waiting for a dead process's lock, every wait ends | 2 processes, 3 objects, 2 nested calls, failures and crashes | holds, 119 574 states |
| `LockExclusion` | do processes exclude each other? | 2 processes, no failure, no crash | **violated** |
| `UploadFaults` | no block skipped, records kept, and written or ended one at a time unless a rewrite is cut short? | 2 files of 2 blocks, 1 interval, crashes, failing and damaged resume files | holds, 1 874 921 states |
| `UploadQuiet` | is every created file finished, reported or resumable, no false success but one, are attempts bounded, and does every command end? | 2 files of 3 blocks, 3 intervals, no crash, working resume files | holds, 503 760 states |
| `StoreRecords` | do the files keep what a write returned 0 for, do they change one record at a time, who damages them, and what does that cost? | 2 processes, 2 files with records of 1 and 2 cells, deaths between any two writes | holds, 150 021 states |
| `StoreEmptied` | does a write to emptied files ask for a retry? | as before, no death, one process clears the files behind the other | **violated** |
| `Console` | does every answer land, every task have its arguments and a token of its own user, every prompt fit and end, every result go where it should; are names, lines and lists true? | all commands, in the 14 scenarios of `MCScenarios` | holds, 283 932 states |
| `UploadFalseSuccess` | is what is reported as uploaded at the service? | 1 file of 2 blocks, the 5 intervals of the code | **violated** |

**Why the bounds are enough.** For safety they only let TLC show the properties cheaply: the theorems
of section 6 hold for any bound but the history cap. The instances are chosen so that the cases meet:
with two slots the queue is full with one task in it; with three two tasks wait and are taken in
reverse order; a task is handed over again after it completed, and while another is abandoned. Two
processes and three objects give a holder, a waiter and a name removed under both. Two files give a
stale offset, ID, interval or `g_bSessionError` from the first to the second; three intervals give an
expiry, a login, one in between and a last one, in either loop, and what is recorded depends on none of
them, so that one is enough where crashes and failing files make the states many. The one property about
the number of intervals uses the five of the code. Two records of different length make a short one move when a long one goes
and a long one not fit where a short one was; two processes give every list and index that is out of
date; four cells hold both records and a lost one, and three entries both and that of a lost one.
Steps that would pass `MaxCells` or `MaxEntries` are not taken. The other bounds are `MaxSubmits`,
`MaxNested`, `MaxIDs`, `MaxFiles` and `TriesCap`, all above what the properties speak of; `retries`
stops at -1, below which the code behaves the same. Liveness is checked on the same instances, without
symmetry.

`Console` cannot afford every command with every user, slip and error at once, nor does it need to: a
handler shares only the session, the list of types, the output and the counts of its own arguments
with the others. So one scenario has every command but the lists and billing, typed with any number of
its arguments and answered in dialogue (POSIX); one the same in a batch file with slips; one on the
system command line. Two have dialogues on Windows, with CTRL+C and slips, of a command with two
arguments and the login, and of `createuser`, whose dialogue is its own. Two have the lists, with all
outcomes, output and storage types. One has `setbillinginfo` with values that are good or bad, one
`subscribe` on the system command line, one `subscribe`, `renamefile` and `login` there with the
answers from a file, one the `download` and `deletefile` dialogues with errors of the session, and
three have two people who take turns over restarts and kills: typing, on the system command line, and
with the account check. Two people are enough for a token to be another's; a third would be one of the two to
any pair. The retry budget, 1, and the number of prompts, 2, are the code's. `blanks` is capped at 3,
above what is said of it. Lines and lists have at most three words and entries, so that two can be
exchanged around a third; texts have values of at most three characters from those `SplitString` looks
for.

`StoreRecords` has only safety properties and uses the symmetry of the processes, whose names nothing
depends on.

**Deadlock** is checked for the lock, the upload and the console (a stopped program has a step of its
own, `Stopped`). The store's processes are stopped by its bounds. The worker's runs may stop: when a
thread is gone and its object freed nothing is left to do, and a caller that polls for ever has no
step either.

**Fairness.** WorkerThread: weak fairness of the worker, of each caller and of the owner (the
scheduler runs a thread that can run and a task's call to the service returns, by the SDK's timeouts
at the latest), and of the end of a wait that has been signalled. Not of a wait that ends by itself,
of a submission, of a caller who leaves early or of destruction: nothing makes them happen.
ResumeLock: weak fairness of each process's steps - a process that can run runs, and a mutex that
stays free is given to who waits for it - but not of entering, of failing or of dying. Weak fairness
is enough because, as `WaitEnds` shows, nobody can take an object again and again under a waiter.
UploadFlow: weak fairness of the command's steps as a whole, not of the user, who starts commands, nor
of crashes. Console has no fairness: whether a command ends is up to whoever is prompted, and
`NoStrayPrompt` bounds what is asked of them.

## 4. Where the code does not do what it says

The violation runs show five, each with the shortest counterexample TLC finds:

1. `WorkerLostWakeup` (`EventClass.cpp:76`): on POSIX a signal sent between the worker's last look at
   the queue and its wait is lost; the task stays in the queue and its caller polls for ever.
2. `WorkerStuck` (`Thread.cpp:345`): `Event` stores `WaitingOnQueue` after it has released the queue,
   possibly over the `Completed` of a worker that was faster. The polling caller
   is stuck with a live thread and no failed task, which the comment at `DiomedeTask.cpp:95` does not
   expect. `PollEndsUnlessOverwritten` shows that this is the only way on Windows.
3. `LockExclusion` (`ResumeNamedMutex.h:295`): the mutex whose name is removed is no longer the one
   the next process locks. What the lock does guarantee is in `LockSafety`.
4. `UploadFalseSuccess` (`ConsoleControl.cpp:6790`): when the creation of a file has taken all five
   intervals, the next connection error of the upload finds none left, the loop is skipped and its
   initial 0 is returned: the file is reported as uploaded and its record removed.
   `SuccessUnlessSpent` shows, and a theorem proves, that there is no other way.

5. `StoreEmptied` (`ResumeManager.cpp:1423`): when another DioCLI has cleared the files, the next
   write does not return the lock error its comment promises. On a first run the list of the deleted
   index stays in memory, so the record is written at its old position, the index file is not
   written, the call returns 0, and until the next block nothing can find the record.

`StoreRecords` shows what a process that dies between two writes can cost, and `ResumeRecords` states
the limit of it. Between the index and the data of a new record (`ResumeManager.cpp:1486`) it leaves an
entry that points to the end of the data file; the next new record is put there and has two
entries, of which the first has the wrong size. If that is too small, every update is refused with the
`RESUME_INDEX_RECORD_ERROR` of the comment "otherwise, we've got a coding error here" (1462); if it is
too large, the update pads over the record that follows. With the data rewritten and the index
emptied a running upload gets the lock error at every write, until a new file is entered.

The proofs found two things that the instance of `StoreRecords` is too small for. A process that dies
while it rewrites the files leaves the old index to a shorter file. An entry appended to it has the
end of that file, which may lie before the positions of older entries: the index is out of order. If
the update of that record then pads over the lines that follow, an older entry whose position lies in
the padding leads to whatever comes after it, and that may be an older record of the same file. So the
write has returned 0, and a reader finds the older one. It takes two deaths and some eight files,
which is why `WriteReadsBack` speaks of entries that are `InOrder`. In the same way a record that was
lost may be found again as it was earlier, which is why `ResumeRecords` allows older records in
damaged files.

None of this makes a record claim bytes that no process had counted for its file (`FilesAreRecords`),
which `NoBlockSkipped` of UploadFlow needs, and none of it happens to files that were not damaged:
whatever another process has written in the meantime, a step takes along
no record but complete ones, unless the files are cleared. The exception in `FinishedIsForgotten` is real as well:
when a removal finds no record, its retry has no index any more and returns 0 without a look, even if
another process wrote the record during the pause.

Three more came up while modelling and have no run of their own, because they follow from these
models at once: with the POSIX event the signal of `Stop` can be lost like that of `Event`, and
after 30 seconds `~CThread` frees the queue and the event of a live thread (`Thread.cpp:831,1048`;
`DestroyedOnlyWhenDown` with `Remembers` FALSE); after a `LockResources` that failed the matching
`UnlockResources` runs into `assert( m_pMutexUtil != NULL )` (`ResumeManager.cpp:196`; the action
`UnlockWithout`); and after a login within a resume the offset of the next attempt is the
one of before the login (`ConsoleControl.cpp:6872`; blocks are sent twice, none is skipped).

### Known deviations

Modelling every command met more. Each of these is in the model as the code has it, is excluded *by
name* in the property it breaks, and is listed here so that the exclusion can be judged
(CC is `DioCLI/ConsoleControl.cpp`).

**Dialogue** (excluded in `AnswersLand`, `TasksHaveTheirArgs`, `PromptFits`, `NoStrayPrompt`)

* A billing value that is refused takes the last value off the line, whichever that is (CC 4207), where
  the comment says "in the case of invalid data, clear the last argument" (CC 20003). A card number
  once valid is never checked again (CC 4196). `ClearLastArgument...` splits at blanks, so a refused
  value with blanks leaves an open quote (CC 20020).
* `HandleBillingDataInput` gives up and returns success (CC 4288): `subscribe` buys, and
  `setbillinginfo` ends as if it had stored; `createuser` goes on without the email address after the
  third blank, or without whatever it may no longer ask for (CC 2851).
* The reprompt counts and the mask stay after a dialogue that was broken off (CC 781, 9881): what is
  no password may then be hidden, and a handler that names its argument only the first time shows
  another prompt. CTRL+C
  looks the command up without its alternate names, so its arguments are not reset (CC 20092), and
  after the first task another handler comes first and the dialogue is not broken off at all.
* On the system command line DioCLI prompts for another command after a refused answer (CC 781, 19721).
  Batch files are prompted when the arguments are not registered as required, or a billing value is
  refused (CC 16099). The two meet when a system command line asks for billing data and its input
  comes from a file: the refused value leaves a line that is not complete, the next answer is refused
  as in a batch file, and DioCLI goes on to read commands from the file.

**Session** (excluded in `ActsAsShown`, `TokenTasksAreGated`)

* `LoginUser` saves the token and its caller the credentials after that (CC 1974, 1898). If DioCLI is
  killed in between, or the account check fails, which ends the login there, the next start may have
  one user's token and another's name; so it may if the account check has renewed the token and saved
  it, and DioCLI is killed then. `Severs` is just these cases, and each of them is needed. `createuser`
  on the system command line saves the new user beside the token of the one logged in (CC 2616).
* A renewal without a user name gets an empty token (CC 15752). Two generic errors exhaust the
  retries until the next login. After an automatic logout the dead token stays in the profile.
* `createuser` in dialogue clears the data of the automatic login. `/` in credentials does not survive
  an automatic login.

**Output** (excluded in `OutputLands`)

* `resume`, `getmyproducts`, `getmycontracts` and `getallcontracts` leave the output redirected when
  a task fails or there is nothing to show (CC 13609 and others); `getdefreplicationpolicy` ignores its `-output`
  (CC 18585). On POSIX nothing is ever restored, because `dup2` returns the descriptor and
  `StartRedirect` wants 0 (`SimpleRedirect.cpp:95`).
* `getphysicalfiles` dereferences the NULL list of storage types when it is the first command to need
  it (CC 12305; `UseTypesStep` ends in `crashed`).
* `g_bUsingCtrlKey`, set by an earlier key, cancels the next download (CC 9060) and cuts the next list
  (CC 8013).
* `DownloadTask` declares an `m_nResult` of its own (`DiomedeTask.h:667`), which is not initialised.

**Names, lines and texts** (excluded in `NamedWell`, `OptionsAreOptions`, `AnswersStayWhole`)

* `token`, `buycontract` and `buycont` are declared and not in the table; `deletefm` leads to
  `deletemetadata`.
* Eight commands register their unlabeled arguments before their options (`ValuesFirst`): an option that
  is typed first is taken for a value. Values must not contain `*`.
* `searchinvoices` reads `-status`, registered as a `DiomedeValueArg` (CC 17984), as a
  `DiomedeMultiArg` (CC 15214), which is undefined behaviour.
* Values that hold quotes are lost, in whole or part. A line that begins with a quoted word ends DioCLI
  (`substr` throws `out_of_range`, `StringUtil.cpp:597`; CC 19621 does not catch it).
  `-x="..."` is cut at a `/` at the start of its value or before it. With only a trailing quote,
  `RemoveQuotesFromArgument` cuts one character too many.
* Two blanks in a row in a value become one when a later answer is refused and taken off (CC 20019).

**Lists and searches** (excluded in `ListsAreTrue`)

* Files and records with date 0 are left out of short lists (CC 7898, 5575). If the first component of a
  contract, or the first policy or total, is NULL the ID and price, or the heading, are never shown;
  contracts without components show nothing.
* The page size of `-v` is never limited, against the comment (CC 7320), because `-v` itself counts as
  an argument (CC 7343). `-filename` does not count as one, against the comment (CC 7500), so a
  deleted file that is searched for by name stays hidden.
* `setconfig` stops at an option it refuses and leaves the earlier ones set but not saved; the SSL
  endpoint sets `bEndpointChanged` before it is tested, so `ShutdownProxyService` is not called (CC 2288).

## 5. What each property is about

Each is stated in words above its definition. The deeper ones:

* `EveryPushRunsOnce`, `CompletionIsFresh`, `ImplementsExecutor`: queue, status and counters of two
  callers agree at every interleaving, although status and queue are written under different mutexes.
* `RejectedOnlyBeforeFirstRun`: what entitles three callers to ignore the result of `Event`.
* `HeldToTheMatchingUnlock`: counter, lock and calls stay in step after any calls that failed.
* `WaitEnds`: nobody overtakes a waiter for ever.
* `NoBlockSkipped`: record, memory and attempt never run ahead of the service.
* `AttemptsBounded`, `CommandEnds`: logins give retries back and blocks reset the intervals, and the
  loops still end.
* `RecordsAsPromised`: the commands end only records of finished or reported files, one at a time, and
  never count on more than the files keep, through crashes in the middle of a rewrite and whatever is
  read back after them.
* `ImplementsRecords`: two files, a list in each process and an index kept in each record together
  behave like one record for each file, whichever process writes and however records have moved: no
  step of a living process takes along the record of another file that is not complete.
* `StaysConsistent`, `WriteReadsBack`, `FinishedIsForgotten`: every sequence of calls leaves an exact
  index, and what a 0 means for who reads the files next - in damaged files too.
* `RecordsLeaveFinished`, `UnfinishedCanResume`: what a crash, a rewrite or an error may cost.
* `AnswersLand`, `TasksHaveTheirArgs`: a handler asks for arguments by name, the line binds them by
  place, and slips, help and CTRL+C come in between; nothing in the code ties the two together.
* `TokenTasksAreGated`, `ActsAsShown`: flag, token, name, and the profile's copies of two of them, set at
  different times, through renewals, logouts, and starts with what an earlier process left, wherever it
  was killed.
* `PromptFits`, `NoStrayPrompt`: prompt, mask and counts outlive the dialogue they belong to, and every
  way out of it must put them back. Where a broken-off dialogue does not, a password is hidden all the
  same.
* `OutputLands`: every way out between `StartRedirect` and `EndRedirect`, in some fifteen handlers.
* `LinesStandAlone`, `OptionsAreOptions`, `AnswersStayWhole`: what a line is read as
  depends on the line only, for every command.
* `ListsAreTrue`: two passes over a list, with entries either may skip, agree.

## 6. Proofs

TLAPS proves, for any values of the constants that satisfy the assumptions of each module:

* `WorkerThread_proofs`: `TypeCorrect`, `PushRunsOnce`, `CompletionFresh`, `Refinement`,
  `NoTaskSleeps`, `GoneBeforeFreed`, `NeverRefusedAfterRun`.
  The invariant `IInv` strengthens the properties by what the code never says: the worker holds a
  task whenever it is past `Pop`; each slot in use holds a task; a task handed over belongs to one
  caller; a caller between `Push` and the end of `Event` has its own task; a task in the queue or in
  the worker's hands has a caller or was abandoned, and is not `Completed` unless it was just pushed
  and has not been marked as waiting. Without them `EveryPushRunsOnce` is not inductive: nothing
  would keep the same task from being pushed by two callers. Every action has a lemma. The refinement
  has one lemma for each kind of step: `Push` is `Accept`, `RunTask` is `Run`, `SeeCompleted` is
  `Return`, by `CompletionIsFresh`, `Abandon` is `Leave`, the others stutter.
  The last three hold under what their statements assume, and not without: `NoTaskSleeps` and
  `GoneBeforeFreed` want an event that keeps its signal (the lost wake-up of section 4 is what happens
  else); `GoneBeforeFreed` also callers who do not give up, because one that is refused by a thread
  that has not begun to run, and then leaves, frees it under its first step; `NeverRefusedAfterRun` one
  caller, tasks that do not end the thread, and fewer tasks than slots. Their invariants say what
  a thread that has not begun cannot have (`NotStarted`, `NobodyBack`), what `m_bRunning` and
  `m_state` mean to the owner (`Living`), and who can be refused (`EarlyRejection`).
* `ResumeLock_proofs`: `TypeCorrect`, `LocksExclude`, `NestingMatches`, `LeftoverRemoved`. The
  invariant adds where in `CreateLock` a process may have an object open and what its history says.
* `UploadFlow_proofs`: `TypeCorrect`, `BlocksContiguous`, `SuccessIsReal`, `ResumeGivesUp`,
  `RecordsAreKept`, `UnfinishedIsKept`, `UploadsKeepRecords`. The invariant adds how `pc`, `task`, `mode` and `repeat`
  go together (`Shape`), that nothing has been sent before the file exists (`NothingSent`), what the
  interval is in the resume loop (`Intervals`), and that the attempts are at most two for each
  interval left behind (`Tries`). `UnfinishedIsKept` assumes that neither crashes nor store
  failures occur; without that assumption it is false, which is `CutShort`'s point.
  `UploadsKeepRecords` is the refinement: `WriteRecord` is `Put`, `ClearRecord` is `Remove`, which may end
  other records that are complete, and the service's steps are new bytes that may be recorded; `CutShort`
  is `Die`, and the only step that is (`RecordChanges`). It wants one thing more, that the service has
  nothing of a file it has not created (`Unsent`), and rests on `NoBlockSkipped`: no record tells of bytes
  the service does not have. With `FilesAreRecords` below it closes the seam: what one side assumes of the
  records the other is proved to keep.
* `ResumeStore_proofs`: `TypeCorrect`, `OnlyDeathDamages`, `NoneAfterRemoval`, `WritesAreReadBack`,
  `FilesAreRecords`, for any processes, files, lengths of records and bounds, whoever dies when. The
  invariant `Inv` adds to the types, which are the bounds of the files as well:
  - `Fresh`: a record in hand that has no index is of a file of which the files and every other process's
    hands are empty. Without it a record that is appended might be the second of its file;
  - `Known`: whatever is in the data file, in hand or pending is of a file that was created, so that
    a new file has no record yet, and no old one can appear under its ID;
  - `Paused`: a process that waits for its retry has a record;
  - `OldIndex`: nobody has read an index of an older format.

  `FilesAreRecords` adds `Real`: every record in the data file is one that was to be written; and
  `Whole`: one that is to be removed has all the bytes of its file. From files that are `Consistent`, and
  to such, a step must be `Put`, `Remove` or `Clear` (`Benign`), and so must a death in the middle that
  leaves them `Consistent`. It does so only where it has written nothing or everything: an old index does
  not fit a new, shorter file (`Shorter`), nor an emptied one.

  The files need lemmas of their own, and most of the module is these: a sequence of lines with its
  index (`Exact`) stays one when a line is appended, when one is replaced in place by a line of the
  same length, and when the lines that are kept are written anew. The last is an induction over the
  number of entries, since `Rewritten` is a recursive function: `LeastOf` gives a set of numbers its
  least element from the library's theorem that `<` is well-founded, `UpTo` induction over a *set*,
  and `Recursion` the function. (The library's own induction takes an operator, which the provers
  cannot instantiate.) Of an exact index it follows what is recorded of each file (`RecordedExact`),
  that a method changes that of one file at most, and then the theorems, action by action.
  `WritesAreReadBack` and the half of `FilesAreRecords` about damaged files have no exact index to
  rest on. They follow an overlay cell by cell: what can be read after it is either the line that was
  written, or begins behind it, or ends before it. `OnlyDeathDamages` assumes that no user clears the
  files behind another DioCLI (`~ClearsBehind`); `StoreEmptied` is the run that shows it is false
  otherwise. The other four do not.
* `Console_proofs`: `TypeCorrect`, `AnswersAreBound`, `TasksAreGated`, `SessionIsOwn`,
  `TasksAreComplete`, `OutputIsPutBack`, `PromptsEnd`, `PromptsFit`, for any commands, arguments,
  users and scenarios. Each has an invariant of its own over the one of types, and a lemma for each
  group of steps.
  - `AnswersAreBound`: whatever is awaited is the first argument that is not bound (`AskedInTurn`), so
    the next word is bound to it. It rests on `AsksInOrder` and `ArgsDiffer`.
  - `TasksAreGated`: a handler past its gate is connected (`PastGate`), who is connected has a token
    (`HasToken`), and in the seven steps of the login there is a name on the line or in the profile
    (`LoginReady`), then a token (`LoginTaken`), then a connection (`LoginConnected`).
  - `SessionIsOwn`: token and user agree (`OwnToken`); the user is the one of the profile's credentials,
    but for steps 4 to 7 of a login, which end by saving them (`UserFits`); and the profile's token is of
    that one too (`TokenFits`), but where a login has saved the one and not yet the other (`Tearing`),
    which is where a kill is `Severs`. Without the profile the property is not inductive: a restart
    reads it, wherever the last process was killed.
  - `TasksAreComplete`, for all commands but `createuser` and `subscribe`: at step i every earlier step that has asked has been answered in full
    (`StepGiven`), because asking ends the call of the handler.
  - `OutputIsPutBack`, on Windows and without the leaking commands: the output is redirected exactly between the steps that say so (`OutputThere`).
  - `PromptsEnd` and `PromptsFit` share `DialogueInv`. Whoever is prompted has been counted: with n
    blank answers behind a prompt there is an (n + 1)th reprompt for its argument (`Tried`), reprompts
    are counted one by one (`CountInTurn`), and there are never more than two. There is room on the
    line for the answer (`Room`), so that it is not refused; a batch line that runs lacks nothing
    required (`Complete`), so that it is not prompted. And unless a dialogue is broken off nothing of
    it is left (`Clean`): counts are those of the command that is incomplete, or of billing, where no
    text depends on them; the mask is on only in a command with a password; prompt and argument agree
    in every state of the dialogue, not only at the prompt. Without the last a handler that names its
    argument only the first time could show the name of another. After a dialogue that was broken off
    `AskedShown` is left: at a prompt the text is that of the awaited argument if the handler always sets it,
    and the mask is on if a password is awaited (`AskedIsShown`). The proof attempt is what found the
    last sentence of the dialogue list in section 4, which no scenario had met.

* `LeftFolds`: `FoldTrace`, `FoldOfNone`, `FoldOfMore`, `UpTo`. A fold of a sequence is the last of a
  trace of results, one for each element. The library defines folds through a recursive function over
  sets of places; that it exists is an induction over the length (`IterExists`). No prover can be given
  an operator, so the operator is a parameter of the module, and whoever folds has an instance of it.
* `CommandLines_proofs`: first `LinesLeaveNothing` and `CommandsReadAlone`. The arguments of a command
  outlive its lines, and `resetArgs` leaves values in some of them. The proof is a simulation. Two sets of arguments
  are alike (`SameStates`) when they differ in nothing but values that are blank in both; a word offered to
  both is taken by the same argument and leaves them alike (`OfferSame`), so a whole line does
  (`WordsOK`), and what is read of it is the same. And whatever line was read and reset, accepted or not,
  what it leaves is alike to arguments that are new (`LeftIsStale`). So it goes for any arguments with any
  options, any number of lines before and a line of any length; that the commands' own tables are such arguments
  (`New`) is proved function by function of `CommandArguments`.
  `WordsComeBack`, `AnswerComesBack`, `AnswerIsTakenBack`, `AnswersAreWhole` are about the text of a line,
  for words of any letters and length. The proof follows `SplitString` from word to word: with the
  position at a word and the registers as they must be there (`AtWord`), a bare word takes one turn
  (`BareWord`), a quoted one two and the blank behind it another (`QuoteOpens`, `QuoteCloses`, `NoWord`).
  A text that stands as `Laid` says, word by word and position by position, is then read in no more
  turns than it has characters (`SplitsLaid`), and what `AddActions` writes stands so (`LineIsLaid`). To take
  off an answer DioCLI splits at blanks instead, quotes or not, and puts the pieces together again
  with single blanks; that gives back the text before when no blank follows a blank (`Single`,
  `TakenApart`). The hypotheses are the deviations of section 4: words without quotes, and a first word
  without blanks, which is always the name of a command. They are needed. The texts of
  `AnswersStayWhole` are shown to meet them, so `AnswersAreWhole` needs no bound on the line.
* `Listings_proofs`: `ShortListIsTrue`, `FullListIsTrue`, `RecordsAreShown`, `MetaDataIsShown`,
  `ComponentsAreShown`, `ContractsAreShown`, `SearchesHideNothing`, `ListsShowWhatIsFound`. The first six are
  about lists of any length. The invariant of a display (`Listed`) is that after m entries each of those
  to be seen has a row, in order and under its ID, or the list has been cut; `Walked` and `WalkedOn` are the
  induction, with and without CTRL+C, over any display that goes that way. That the ID in a row is that of
  the row's entry, although it was noted in an earlier pass, is `TextsOf`. The hypothesis of
  `ShortListIsTrue` - no file is hidden that the service returned - is what `SearchesHideNothing` proves of every
  filter a search can have; `ListsShowWhatIsFound` puts the two together.

The assumptions are the `ASSUME`s of the component modules: non-empty queues, natural numbers, lengths
of records above 0, `NoTask`, `NoObject` and `NoFile` outside their sets. TLC evaluates them in every
run. For Console they also say what the tables must look like: handlers ask in the order of
registration (`AsksInOrder`) for arguments that differ (`ArgsDiffer`); `LoginUser` is whole and
nowhere else (`LoginInOrder`); a task with a token comes after a gate (`GatesFirst`); only
`createuser` makes a login of its line (`CreatesLogin`); a step that may leave out the next has a next
(`LeavesOut`); what a task needs has been asked for (`AsksBefore`); the output is restored on every
way out (`RestoresOutput`); a handler hides its passwords and nothing else (`MasksPasswords`); one
that names its argument only the first time has just one (`NamesOnce`); only login asks without end,
and echo asks nothing (`AsksForLogin`); a profile at first holds its own user's token
(`OwnTokenAtFirst`). TLC evaluates all of them of the real tables, which is the static half of the
argument - a review of seventy handlers - and the theorems are the dynamic half: in a table that
passes the review nothing goes wrong, in whatever order commands, answers, slips, errors and restarts
come. `TablesAssumption` says that the console's tables are those of DioCLI; only `CommandsReadAlone` uses
it. `BoundInOrder` ties the console's binding by place to the parser of CommandLines.

Only model-checked:

* everything temporal beyond `[]` - `EventWakesThread`, `StopEndsThread`, `PollEndsUnlessOverwritten`,
  `WaitEnds`, `CommandEnds` - since liveness under fairness is beyond the prover;
* `OptionsAreOptions`, and the assumption `NamesLeadHome`, which are about the options and names of the
  commands there are. TLC evaluates all of the names, and each option at each place of a line; a proof
  would be the same evaluation by other means.

## 7. Plan

Done: WorkerThread, ResumeLock, UploadFlow, ResumeStore, Session and Console with all commands, their
arguments, names, lines, texts and lists. Next, in this order:

1. Compositions: two DioCLI on one ResumeStore whose methods are steps under ResumeLock, which shows
   what its failure costs; a cancelled upload whose callback runs on (UploadFlow with WorkerThread).
2. The last part of the download: status callbacks, and the wait for the last of them.
3. Two DioCLI that save one profile.

## 8. Not modelled

* The status callbacks of uploads and downloads as far as they print, progress timers, the layout and
  wording of results, help and errors; `GetMaskedCommand`, which only serves the log.
* The file format, the encryption and the other settings of the profile; logs; the enumeration of
  directories (file system calls); that the profile or an output file cannot be written, or a save of
  the profile is cut short.
* Hashes and ciphers, string and date helpers but `SplitString` and those a list or a search depends on;
  build tools; the service SDK and vendored headers.
* Interval-driven and specialized threads, restarted threads and thread-creation failures of `CThread`
  (DioCLI creates none of the first two; the last ends the command).
* Tokens that expire by the local clock: in the model they expire at any time, which includes it.
