# MyPasswordSafe: TLA+ models, checks and proofs

MyPasswordSafe is a Qt program that keeps passwords in encrypted files.  These
modules model what its correctness hangs on: what survives a save that fails or
is cut short, what the main window believes about the safe it has open, when a
password leaves the clipboard, when the window asks for the pass-phrase, what
the four file formats keep of a safe, and whether its tree, its UUIDs, its
encryption and its settings are sound.

    tlc -workers 2 -config SafeFile_careful.cfg MCSafeFile.tla
    tlapm SafeFile_proofs.tla

`PROJECT.json` lists the components, the runs, the lines of code each definition
models (`map`), a mutation of the model that breaks each property (`mutants`),
the hazards, the theorems, and the disagreements found (`findings`).

## 1. Inventory

Paths are below `src/src/` unless they begin with `src/`.

| Part | State | Operations | Talks to | Module |
|---|---|---|---|---|
| `Safe` files (`safe.cpp`, `serializers.cpp`, `xmlserializer.cpp`, `plaintextlizer.cpp`) | `m_path`, `m_type`, `m_changed`, the items; the file and its backup `path~` | `checkPassword`, `load`, `save` (two forms), `makeBackup` | serializers, the file system | `SafeFile`, abstractly `SafeStore` |
| Serializer registry (`safeserializer.cpp`) | the static list of serializers | `createByExt`, `createByName`, `getNextExt` | used by `Safe` | `Serializers` |
| Record format (`serializers.cpp`) | the records written, read position, what the last read left in its variables | `writeEntry`, `readEntry`, `saveGroup`, `load` of both versions | `FILE` | `RecordFile` |
| Contents of the formats (`serializers.cpp`, `xmlserializer.cpp`, `plaintextlizer.cpp`, `safeserializer.cpp`) | none | the conversions of fields, times and groups | `Safe` | `Formats` |
| Group paths (`myutil.cpp`, `safe.cpp`, `serializers.cpp`) | none | `escapeGroup`, `unescapeGroup`, `thisGroup`, `parentGroup`, `findOrCreateGroup`, `groupName`, `readyGroup`, `parseGroup` | serializers | `GroupPath` |
| Tree of items (`safe.cpp`, `safetreemodel.cpp`) | child lists, parent and safe pointers, Qt's own object tree | constructors, `addItem`, `takeItem`, `setParent`, `empty`, destructors, `removeRows`, the model's indexes | Qt's model/view | `SafeTree` |
| Main window (`mypasswordsafe.cpp`, `pwordeditdlg.cpp`) | `m_safe`, `m_children` (open edit dialogs), enabled actions | New, Open, Save, Save As, Make Default, close, add/edit/delete, change pass-phrase | `Safe` (signal `changed()`), dialogs (signals `accepted()`, `rejected()`) | `MyPasswordSafe` |
| Start-up and settings (`main.cpp`, `startupdlg.cpp`, `preferencesdlg.cpp`, `mypasswordsafe.cpp`) | window members, statics, check marks, `QSettings` | `readConfig`, `writeConfig`, preferences, default safe, pass-phrase prompts | main window, clipboard | `Startup` |
| Clipboard (`clipboard.cpp`) | `last_copy`, `m_time_out`, a periodic `QTimer` | `copy`, `clear`, `setTimeOut`, `timerFired` | the system clipboard and the X11 selection, shared with all programs | `Clipboard` |
| Locking (`mypasswordsafe.cpp`, `tools/idle/idle.cpp`) | `m_do_lock`, single-shot timers under way, nested event loops | `lock`, `hideEvent`, `showEvent`, `checkMinimization`, `slotSecondsIdle` | window system events, the idle timer, edit dialogs, the clipboard | `Lock`, with the clipboard `Desk` |
| Strings kept encrypted (`encryptedstring.cpp`, `securedstring.cpp`) | encrypted text, its hash, its length | `set` (three forms), `get`, copy, clear, comparison | Blowfish, SHA-1 | `Secret` |
| Cryptography (`crypto/`, `pwsafe/`) | P-array, S-boxes, digest contexts, the chaining block | rounds, key schedule, `update`/`final`, `GenRandhash`, `writeCBC`, `readCBC` | files, strings | `Blowfish`, `Digest`, `Cbc`, `Secret` |
| UUIDs (`uuid.cpp`, `src/uuid-1.0.0/`) | per object: last time, sequence, node, an open random device | make, load nil, copy, import, export, compare, destroy | the clock, `/dev/urandom` | `Ui64`, `Uuid` |

What is hard in this code:

* **failure and crashes** - a save replaces `m_path` and `m_type`, copies the
  backup, truncates the file and fills it; it can fail, or the process die, at
  every one of those steps, and several results are not looked at;
* **records that are cut short** - a reader that keeps its variables from record to
  record, and looks at none of the results of `fread`, meets a file that stops
  anywhere;
* **two records of one fact** - `m_changed`, the enabled state of Save, and what
  is really on disk; child lists and parent pointers; a setting in up to four
  places: all kept in step by hand;
* **destructors that call each other** - `~SafeItem`, `takeItem`, `empty` and
  `QObject`'s own deletion of children;
* **non-modal dialogs** - an edit dialog keeps a raw pointer while its entry, its
  group or the whole safe is deleted in the main window;
* **nested event loops** - `lock()` waits in `exec()`, and `showNormal()` delivers
  `showEvent` before it is through;
* **stale timers** - five-second single shots of earlier hides fire after the
  window has been restored, locked or minimized again;
* **shared clipboard** - other programs overwrite it, and put old text back;
* **escapes and conversions** - four formats, each with characters of its own that
  it treats specially, applied in any order over the life of a safe;
* **limits and boundaries** - a clock tick that holds eleven UUIDs where ten are
  counted, padding at 55, 56 and 64 bytes, one open device per UUID.

What makes each part correct:

* files: there is a good copy on disk at every moment; an unmarked safe can be
  got back from disk; every load comes back; load gives what save took,
  and of a file that is cut a prefix;
* formats: passwords survive, and the other fields and groups as far as the
  format can hold them; texts and groups change no more after the first round;
* tree: lists, parents and model indexes describe one tree, and a deletion frees a
  subtree, each item once;
* window: no change is dropped without an answer of the user; a changed safe can
  be saved; one entry is edited in one dialog;
* settings: a session starts with what the user saw when the last one ended in order;
* clipboard: a secret is gone when its time is over, and also when it is put back;
* lock: the window asks for the pass-phrase exactly when it should, once, comes
  back, and no secret is on the clipboard meanwhile;
* encryption: the right pass-phrase and no other opens a file, and every record
  comes back; a string gives the text it was set to;
* UUIDs: no object makes one twice, and both written forms read back.

## 2. Modules

    Serializers <- SafeFile <- MCSafeFile, SafeFile_proofs
        |             +-- INSTANCE SafeStore         (what it implements)
        +-- RecordFile <- MCRecordFile, RecordFile_proofs
    GroupPath   <- Formats <- MCFormats
    SafeTree, Formats <- Tree_proofs
    MyPasswordSafe <- MCMyPasswordSafe, MyPasswordSafe_proofs
    Startup        <- Startup_proofs
    Lock           <- Desk (Lock, INSTANCE Clipboard) <- Desk_proofs
    Blowfish <- Cbc; Cbc, Digest <- Secret <- MCSecret, Secret_proofs
    Ui64     <- Uuid <- MCUuid, Uuid_proofs

The MC modules give values to the constants, and hold the reference definitions
that only a run needs.

### Files and formats

**`Serializers`** has the registry in the order in which the static objects of
`safeserializer.cpp` register (which decides who is asked first for `.dat`), the
ways a serializer is picked, and what each answers when pointed at a file.  A file
is its format, the revision it holds, whether that is intact, and how much of it
is there.  `getNextExt` is as compiled: the `if` that compares the extensions ends
in a stray semicolon.

**`SafeFile`** is one `Safe` and its files.  `SaveBegin` is `Safe::save` up to
`makeBackup`; then `BackupSkip`/`BackupOpen`/`BackupCopy`, `WriteOpen` (`fopen`
"wb"), `WriteSome`, and `WriteDone`, `WriteFails` or `WriteLost` follow, with
`Crash` possible between any two.  `WriteFails` is the one failure a serializer tells of, an
entry of which no byte was written; `WriteLost` is every other one, after which `save`
answers Success.  `LoadTry` is one round of the loop of
`Safe::load` over `getNextExt`.  The constant `Faults` says what the environment
may do; every fault is a guard `"name" \in Faults`.  `before` is a history
variable.

**`SafeStore`** is what a user expects of those files: a map from paths to what
can be got back, changed in one step by a save and by nothing else, read by an
open.  `SafeFile` implements it with `kept[p]` = the file if it is whole, else the
backup if that is whole, and `memory` = the safe.

**`RecordFile`** writes and reads the two Blowfish formats record by record: `WriteRecord`
is one `writeCBC` of `writeEntry`, `ReadField` and `ReadEntry1` are what `readEntry` of version 2
and 1 does with `readCBC`; the disk may fill, the last buffer be lost or the process die between any two.  It EXTENDS
`Serializers`, and its property `LoadsAsAbstracted` is the justification of
`SafeFile`: whatever is on the disk, the load it computes is one that
`loadErrors` allows for the four kinds of file `SafeFile` knows, also for the filter of the
other version.  A raw field (UUID, times, policy) of a new entry is `Made`, what `SafeEntry::init`
gave it; the test for a nil UUID at the end of `readEntry` is dead code for that reason.  NUL
bytes are meant among those the reader uses: `setTime_t` takes 32 bits, so of the eight bytes of a
time on a 64-bit machine the upper four do not count.  A negative length stops all reading here, where the code
ends the record; no file the program writes has one.

**`GroupPath`** has the escaping and splitting of group names, `findOrCreateGroup`
over a tree, and Password Safe's dotted names.  Here the characters are the subject, so a
string is a sequence of them; only those that some function tells apart are used.
The calls of `findGroup` and `findOrCreateGroup` inside themselves are recursive functions over
lengths: `findGroup` goes on with an end of its path, `findOrCreateGroup` with a beginning.
**`Formats`** puts them together: `Save` writes the current safe in one of the
four formats and `Load` reads it again, so that a behaviour is the life of a safe through
any sequence of formats.  `LastId` is the number of entries, `Letters` and `Stamps` are what texts,
times and UUIDs are made of.  Each load has times (`NowAt`) and UUIDs (`FreshAt`) of its own for
what it sets anew; `FirstNul` and `CString` say what a C string leaves of the bytes of
a stamp.  `SetDefaultUser` is the preferences dialog, at any time between a save and a load:
version 1 leaves out a user who is the default one (`file.user`) and puts in the one of the
time it is loaded.  `Seen` is what parsing XML leaves of a text: nothing, if it is white space.

**`SafeTree`** has one action per public operation, and the destructors call by call:
`Destroy` takes one step of the innermost call on `stack`, which calls `takeItem`,
`empty` in turn; `qparent` is the second tree that `QObject` keeps and deletes along.
`before` is a history variable with what there was when the outermost call began and
which items should go.  The rows, counts and parents the model answers are operators of
the same state.

### Window

**`MyPasswordSafe`** has one action per slot.  A modal dialog inside a slot is a
choice inside the action: `closeSafe` is the set of ways out of the C++ function
(what happened to the files, its result, the answer given).  A save is one step
here - `SafeFile` shows how far that is justified - and writes all of the safe
(XML) or all but its empty groups (the version 2 and the text formats).  The content of a safe maps
each entry, group and the pass-phrase to a version, so that "is what is in memory
in some file" can be asked.  `slot` is a history variable with what the last slot
did and asked.  A dialog's `live` flag is down when its pointer dangles; `window`
goes to `"hung"` where `iter = iter++` loops forever, and to `"crashed"` where a
NULL or dangling pointer is used.

**`Startup`** is the life of the program from one start to the next: `main`, the
start-up dialog, `readConfig`, the preferences dialog, the check marks, Open with
its prompts, Make Default, and `closeEvent` with `writeConfig`.  `stored` is the
settings file, and `kept` the history variable with what the user saw when a
session last ended in order.

**`Clipboard`** counts time in ticks.  The timer is periodic, as a `QTimer` that is
not single-shot is; `due` is a history variable that counts down from the timeout
in force at the fetch.  `Foreign` is any other program, and any text, the old
secret included.

**`Lock`** has the window (`visible`, `minimized`), the mark `m_do_lock`, the
number of single shots under way and the number of `lock()` calls that wait.
`x11` chooses between the two builds of `isMinimized`: with X11 the answer comes
from the window manager and is false for a hidden window.  `lock()` is the operator
`Locks`, entered by `SecondsIdle`, `LockAction` and - while another action is
still under way - by `showEvent`.

**`Desk`** composes the two.  A step is one of `Lock`, one of `Clipboard`, or, where
`lock()` is entered, one of both: `lock()` clears the clipboard after hiding the
window.  The clipboard's timer runs only while the process has an event loop, so
`Desk` is where a hang of the window meets the promise of the timer.

### Encryption and UUIDs

**`Blowfish`** has the rounds, the key schedule and the packing of bytes into words of
both Blowfish classes; the width of a byte, xor, addition and the tables are
constants.  **`Cbc`** chains blocks as `writeCBC` and `readCBC` do, writer and reader each
with its own `ipthing`.  **`Digest`** has how the two SHA-1s cut, pad and count their
data; the compression function is a free symbol, a state being the list of the
blocks it has taken.  **`Secret`** puts the three together: `EncryptedString`, the
check value and the key of a pass-phrase, and records in a file.

**`Ui64`** is the 64-bit arithmetic the UUID library needs, as sequences of
digits, and **`Uuid`** the objects of a process: `MakeV1` is `uuid_make` of version 1 with
its wait for the clock, the tick counter and the clock sequence; the rest are copies,
import and export of both forms, and the open file of every random source.

## 3. Runs

| Run | Result | Properties |
|---|---|---|
| `SafeFile_careful` | holds | `CleanIsRecoverable`, `OneGoodCopy`, `StoreSpec`, `BackupIsPrevious`, `LoadReturns` |
| `SafeFile_anything` | holds | `TypeOK`, with every fault |
| `RecordFile_cut` | holds | `LoadsAsAbstracted`, `AddedIsPrefix`, `RawFieldsKept`, `OnlyTheLastIsCut`, `WholeFileLoads` |
| `Formats_rounds` | holds | `SecretsSurvive`, `NeverThrows`, `FieldsKept`, `GroupsKept`, `StableAfterOne` |
| `SafeTree_items` | holds | `TreeIsSound`, `ViewAgrees`, `DeletesTheSubtree`, `DeletionEnds` |
| `MyPasswordSafe_session` | holds | `SaveEnabledWhenChanged`, `OneDialogPerEntry`, `CleanHidesOnlyDeletions`, `DiscardNeedsNo` |
| `MyPasswordSafe_quit` | violated | `QuitKeepsChanges`: the close event is never ignored, so Cancel quits |
| `Startup_sessions` | holds | `SettingsSurvive` |
| `Clipboard_timer` | holds | `HeldInTime`, `PutBackIsCleared` |
| `Desk_lock` | holds | `OneLockWaits`, `LockedIsForgotten`, `RestoreLocks`, `LockEnds` |
| `Secret_saved` | holds | `ReadsBack`, `HoldsItsText`, `OpensAgain`, `FormatKept` |
| `Uuid_made` | holds | `UniqueInObject`, `TimeIsReadBack`, `FormsAgree`, `SaveHasAFile` |

Properties that say something weaker than one would wish say so because the code
does: `CleanHidesOnlyDeletions` allows for a deletion, which does not mark the
safe as changed; `CleanIsRecoverable` is checked without the failures that `save` does not
tell of (`OnlyTheLastIsCut` says how much the one inside an entry can cost); `AddedIsPrefix` for a last version 1 entry that is incomplete; `FieldsKept` and
`GroupsKept` name, format by format, what is lost, and `SecretsSurvive` what XML drops; `UniqueInObject` speaks of one
object, since two may draw the same node and clock sequence.

### Bounds, and why they are enough

* `SafeFile_careful`: two file names and the extension `.dat` that two formats share, so
  that a Save As that fails leaves the safe pointing at a file it is not in, and two
  revisions, so that file, backup and memory can all differ.  Faults: failing opens, a disk that is
  full before an entry begins, UUID exceptions, crashes.  `"reuse"` is left out: a file cut between
  two entries loads as Success with fewer entries, and saving that over its own
  backup does lose data; the run therefore has the user restore a torn file from
  its backup first.  So are `"write"` and `"flush"`, after which `save` answers Success for a
  file that is cut short; `OneGoodCopy` and `BackupIsPrevious` hold with them too, by the
  theorems of section 4.
* `SafeFile_anything`: all faults at once, in the two text formats, which look at no write.
  Nothing is promised about data then; the run fires the steps that `SafeFile_careful` leaves out.
* `RecordFile_cut`: entries of three kinds (everything filled in, without a NUL; empty texts, and a
  UUID and times that begin with NUL; a NUL inside the UUID and the times), two to a file, so that what one entry
  leaves in the reader's variables can end up in the next; the disk fills up before every record,
  and the file is cut after every record and inside every one.
* `Formats_rounds`: two entries, every tree of at most two groups over ten names made
  of letters, `/`, `\`, `.` and the empty name, and every text of a field that some format
  treats specially, a lone TAB for what XML drops included; a time and a UUID with a NUL byte, at
  the start and further on; two default users, each of them the user of some entry; three rounds, so
  that "the second round changes no text or group more" is also asked after a round in another
  format.  Times count seconds: what ISO dates and `time_t` cut off below is not there.
* `SafeTree_items`: three groups, so that a group moves into and out of one that is
  itself inside another, and two entries, so that a list has an item left when one goes.
* `MyPasswordSafe_session`: one entry in a group and one outside, so that a deletion
  can take one or both; two dialogs, the least for a conflict; two files, the least
  for a Save As elsewhere; two versions, the least for memory and file to differ.
  The files are interchangeable (no definition or property names one), so they are
  a symmetry set; the run has no liveness property.  `MyPasswordSafe_quit` needs one
  entry, one file and one dialog.
* `Startup_sessions`: two files, the least for a default that is not the one opened;
  the two generate marks that are read at start; one switch, as all go the same
  way; tries and timeouts at zero and above it, and a settings file that was
  edited to hold a number of tries above the cap of 10.
* `Clipboard_timer`: three ticks and two secrets, so that a fetch can come before,
  in the middle of and at the end of another's time, with a new timeout below,
  at or above the ticks left.
* `Desk_lock`: the same clipboard, with three single shots, so that stale ones of two
  earlier hides meet the current one, and two nested `lock()`s, one more than should
  happen.  More shots than `MaxShots` count as `MaxShots`; the proofs need no bound.
* `Secret_saved`: bytes of two bits, hash blocks of 16 bytes and counters to the base
  4, so that padding, carry and the block boundary are all met by texts of 0, 4 and 22
  bytes; two of the texts have one length, so that the hash has to tell them apart.  With two
  records the chaining block passes from one to the next.  The tables of the S-boxes are
  small permutations: no property depends on their strength, and `Secret_proofs` shows
  for every table that decryption undoes encryption.  There is one seed, salt and first block,
  so a copied string that forgot its own first block would not show in the run;
  `SecretHoldsItsText` is for any.
* `Uuid_made`: two objects, two open files, two ticks to the microsecond and two instants on
  either side of the end of a second, so that the tick counter overflows into the next
  instant and the time carries; the clock is set back once, which is what the
  clock sequence is for.  The objects are a symmetry set.

`Desk_lock`, `Formats_rounds`, `RecordFile_cut`, `Secret_saved` and `Uuid_made` do not check for
deadlock: in `Desk_lock` the program can hang or die and nothing restarts it; the other four
come to an end when the last round or record within the bounds is done, the clock stands at
its last instant, or a reader is caught in a file that stops inside an entry.

### Fairness

* `SafeFile`: weak fairness of `LoadTry` - a program that is in the
  middle of a load goes on with it.  Saves, the user's actions, failures and
  crashes have none.
* `RecordFile`: weak fairness of `Write` and `Read`, and `SafeTree` of `Destroy`, for the same
  reason: a call that has begun is carried on.
* `Clipboard`: weak fairness of `Tick` and `TimerFired` - time passes and the event
  loop delivers the timer.  Other programs have none.
* `Lock`: weak fairness of `Unlock` and `UnlockCrashes` - a user who is asked for the
  pass-phrase gives it in the end (`dlg.hideCancel(true)` leaves no other way out).
  `Desk` has the fairness of both, the clipboard's only while there is an event loop.
* `MyPasswordSafe`, `Startup`, `Formats`, `Secret`, `Uuid`: none, and no liveness property.

## 4. Proofs

All are checked by TLAPS for every value of the constants allowed by the `ASSUME`s
of the modules.

**`SafeFile_proofs`**
* `TypeCorrect`: `TypeOK` is inductive.  It includes that a load under way has a
  file and a serializer of the registry, and a save a path and a type, so the lemmas
  on `First`, `createSerializer` and `getNextExt` come first.
* `CopySurvives` (assuming `BackupsWork`: the file to back up can be read, and the
  copy is not cut short): `OneGoodCopy`.  It is not inductive, because it does not
  say *which* copy is good when; `BackupInv` does: up to the truncation the file is
  still the one the save found, and from the end of the copy on the backup is.
* `SaveLeavesBackup` (`BackupIsPrevious`), from the same invariant: once the file is truncated
  nothing touches the backup or the path.
* `ImplementsStore` (assuming `BackupsWork` and `CarefulUser`: no torn file is used before it is
  restored, and no filter but the file's own is picked): `Spec` implements
  `SafeStore`.  Every step but three kinds maps to a stutter: `WriteDone` is
  `Put`, a successful `LoadTry` is `Open`, and the steps that lose the safe are `Drop`.
  `StoreInv` adds what makes the map work: a file that a save is about to replace
  is not torn, so that what can be got back from the backup is what could be got
  back from the file; and a load that runs looks at a whole file with its own
  serializer, or with one that will say BadFormat and lead to it.  The run
  `SafeFile_careful` has both assumptions, and the hazards record what happens
  without them.
* `CleanIsSafe` (assuming all that and `NoSilentLoss`: no error inside the last entry, no lost last
  buffer, and no failing writes in the text formats, which look at none): `CleanIsRecoverable`.  Only three actions
  change what can be got back or what is in memory without marking the safe; by the
  lemmas of `ImplementsStore` every other step leaves `KeptMap` alone.  `FormatInv`,
  that every format met is one in use, is what rules out the text formats when
  writes may fail.

**`MyPasswordSafe_proofs`**: `ChangesCanBeSaved` (`SaveEnabledWhenChanged`), from the
lemma that a save leaves the mark on only if it failed (`KeepsMark`), and that there
is no safe in the start-up dialog; `EntriesHaveOneDialog` (`OneDialogPerEntry`),
from `OneEdits`: at most one of the open dialogs is for an entry that is there;
`CleanIsHeld` (`CleanHidesOnlyDeletions`), from `HeldInv`: an unmarked safe differs
from what one file holds by deletions only; and with it `ReplacedOnlyIfHeld`
(`DiscardNeedsNo`), by `SavedOrKept`, the ways out of `closeSafe`.

**`Startup_proofs`**: `SessionsKeepSettings` (`SettingsSurvive`) from two facts that no
property states: what is stored is what was last seen, up to the cap on the
tries (`StoredAsSeen`), and while a session runs the members, statics and check marks
agree (`MarksAgree`), so that `closeEvent` writes what the user sees.
`StartupTypeCorrect` goes with it.

**`Desk_proofs`** has `Lock` first: `OneLock`, `RestoreAsks`, `LockTypeCorrect`.  `OneLockWaits`
needs that a `lock()` that waits has hidden the window (`WaitingIsHidden`), which keeps out the
three other entries.  `RestoreLocks` needs `MarkIsCurrent`: the mark is only ever on
a minimized window, and there it is what the checks found, however many stale
timers fired in between.  Then `Clipboard`: `ClearedInTime` (`HeldInTime`) and
`ClipboardTypeCorrect`.  `HeldInTime` compares what is owed with the clock; the invariant `ClipOwed`
relates it to the timer: while something is due the timer runs with as many ticks left, and the
text is still what `timerFired` will look for.  Then both: every step of `Desk` is one of `Lock` or leaves the window alone
(`DeskStep`), so that invariant holds in the composition too.  With it, `LockForgets`
(`LockedIsForgotten`): who enters `lock()` clears the clipboard before it is one more that
waits, and a window with a `lock()` waiting is hidden, so nothing is fetched.

**`RecordFile_proofs`** is what the use of `SafeFile` rests on: whatever the entries, and wherever
a file stops, `PrefixIsLoaded` (`AddedIsPrefix`), `RawFieldsComeBack` (`RawFieldsKept`),
`CutIsTheLast` (`OnlyTheLastIsCut`) and `AbstractionIsRight` (`LoadsAsAbstracted`).  The invariant has two halves.  `Writer`: the file is
what `writeEntry` writes for the entries in their order, without a gap, so that a position alone
(`Spot`) says which record of which entry is there.  `Reader`: the reader is where its position
says it is within an entry; each entry it has added is the one written at that place
(`AddedHolds`); and of the entry under way its variables hold what was read, or what the last
entry left (`ItemHolds`).  `RawFieldsComeBack` also says what becomes of a field whose first byte is NUL:
the entry keeps what it was made with, and never has the UUID of the entry before.  The one assumption, `TextAssumption`, is that a text has no NUL in it:
texts come from widgets and C strings.  `CutIsTheLast` has an invariant of its own, `CutInv`: while a
safe is written, `wrote` says that the stream has the first record of the entry under way, every
entry before it has begun, and all of them are there in full unless the disk is full, the last of
them was cut by that, and nothing has been written since.

**`Tree_proofs`**, about `SafeTree`:
* `TreeStaysSound` (`TreeIsSound`) and `DeletionTakesSubtree` (`DeletesTheSubtree`), from two
  invariants.  `TreeInv` is about the tree: lists and parent pointers agree, there is no cycle (each
  item has a depth), Qt's own tree follows the lists, and what was deleted has left nothing behind.
  `CallInv` is about the destructors in the middle of their work, where `TreeIsSound` does not
  hold: the calls on the stack are of items that contain one another, what is still to go is
  the least set that the outermost call must take (`GoingIsLeast`), and what is not to go
  keeps its list (`ListsAreKept`).
* `ViewStaysRight` (`ViewAgrees`): what `totalNumItems` counts by recursion is the number of items
  below a group.  The subtrees of the items of one group have nothing in common, and the
  recursion is followed by induction on the number of items in a subtree, of which there are
  finitely many at any time (`FiniteAlways`).

and about `Formats` and `GroupPath`, for any number of entries, any letters, texts and safes, trees
of any depth, and any number of rounds:
* `SecretsComeThrough` (`SecretsSurvive`) and `FieldsComeThrough` (`FieldsKept`).  The invariant
  `FormatsInv` says that the open safe is a safe (`SafeIs`: every entry has its texts, and its group is
  one of the tree), that a closed one is what the file holds, and that each secret is the first
  one, as far as white space and `\n` go (`ReadAs`).  That the safe stays a safe is the long
  part, because `findOrCreateGroup` must answer a group of the tree it leaves behind (`FoundIs`, `MadeIs`,
  `PlacedIs`).  Below it are a lemma for each conversion: what is joined is split again in the same
  places if no part holds the separator (`SplitJoins`), so that a line `Readable` accepts gives back its
  fields (`LineBack`); the notes come back through the text format with `\n` as a line break
  (`NotesBack`), and a second time there is nothing left to turn (`NotesTwice`); through XML they come
  back line by line, but for lines of white space (`SeenOfLines`), and a second time there is none
  left (`LinedTwice`); that the two do not disturb each other (`NotesSeen`) is why `ReadAs` can compare
  the notes after both; and a user behind its mark comes back from version 1 if no letter looks
  like a mark (`UserBack`).
* `LoadsNeverThrow` (`NeverThrows`).  A string is `Sound` if `unescapeGroup` does not throw on it.  What
  `escapeGroup` and `readyGroup` write is sound, each escape with its character (`SoundAtoms`), and so is
  what sound strings make when put one after the other (`SoundConcat`), hence every `groupName`.
  `findGroup`, `thisGroup` and `parentGroup` cut at separators that have no escape before them, where
  none is waiting for its character (`Opens`), and a sound string cut there has sound parts
  (`SoundPart`): what is waiting does not depend on what was cut off (`OpensAgree`).  So all the
  strings that `Unescaped` collects are sound (`UnescapedSound`).  It does not need that the names
  come back, which for names that end in an escape they do not.
* `GroupsComeBack` (`GroupsKept`), in three steps.  The text of a path comes back: what is escaped and
  closed can be scanned piece by piece (`ScanConcat`), so that `parseGroup` undoes `readyGroup` on
  anything put together from escaped names and separators (`Returns`, `ReturnsConcat`), and
  `unescapeGroup` undoes `escapeGroup` (`EscapeIs`).  A path is cut where the names were joined: a plain
  name leaves no separator without its escape and no escape at the end (`Whole`), so the first section
  and the last name of a path are those names (`FirstSection`, `NameBelow`), the search down a path is
  the search down its parts one after the other (`Walks`, `LedOnto`), and the groups that are made for
  it are those made for its parent and at most one more (`MadeOnto`).  The tree only grows: `At` is where
  the path of a group of the old safe leads in another tree; what it leads to stays when the
  tree grows (`AtGrows`) and has the same names (`SameNames`); and `findOrCreateGroup` answers where
  the path leads *afterwards* (`MadeAlong`), for a new group is the first of its name because
  its parent either had no such child or is new itself, last in the tree, with nothing in it
  (`LastIsEmpty`).  So each entry is in the end where the path of its group leads in the last
  tree (`PlacedAt`), which says both parts of `GroupsKept`.
* `Descent` is `Iteration` for recursion that goes back further than by one, which is how the tree,
  the paths and the sections are followed.

**`Secret_proofs`** has the four invariants of `Secret`, for any width of byte, any tables, any block
of the hash, any number of stirrings, texts, records and objects: `SecretHoldsItsText`
(`HoldsItsText`), `SecretFormatKept` (`FormatKept`), `SecretOpensAgain` (`OpensAgain`) and
`SecretReadsBack` (`ReadsBack`).  From the bottom up:
* The cipher.  `DecryptUndoes`: decryption undoes encryption whatever is in the P-array and the
  boxes, by the argument for Feistel networks: each round is undone by the same round with the
  halves swapped (`Mirror`).  `CiphersAgree`: the round of the one class is that of the other, with the
  word of the P-array xored in one round early (`Ahead`).  A key schedule is then the same steps
  for both (`KeysAgree`), and so is the stirring (`StirsAgree`).  Both loops are recursive functions;
  `Iteration` shows that a function with such steps exists, `IteratesOne` that it is the only one, so
  that the CHOOSE behind a recursive definition is known.
* The digests.  `UpdateTaken` and `WriteWritten`: what either context has taken is the message,
  wherever the calls cut it, whatever is in the buffer, for every length; and both end in the digest
  of the padded message (`FinalTaken`, `FinalWritten`).  `DigestDetermines`: one digest, one
  message, since the padding can be taken off again and the compression is a free symbol.
* `EncryptedString`.  `Holding` says what an object is that was last given a text: unless its length is
  0, it has the sealed blocks of the text, its length and its hash; an empty one may have a block, or
  none, and a hash that was never set, which is why `operator==` must look at the length first.
  `TextInv`, that every object holds its text, is inductive.
* Records.  `LengthRead`: four bytes of a length are read as that length as long as it is below
  2^31.  A reader is between two records or so many blocks into one (`Between`, `Midway`), and
  `WholeRecordRead` takes it through a record.
* The file.  `FileInv`: while a file is written, the blocks sent and those still to be written are
  read as the records given to `save` (`ReadsAs`); from `Save` on the header has the check value of
  the text, and writer and reader have the key of the text (`HeaderInv`, `OpenInv`); `IInv`
  of `Cbc`, with `Chain`, that reader and writer have seen the same encrypted block before each.
  `CbcReadsBack` states `ReadsBack` for `Cbc` by itself.

The assumptions are on the constants.  Of xor the laws that hold bit by bit (`ByteAssumption`); of
addition and tables only their types; of a digest that it comes to twenty bytes
(`DigestAssumption`); that the length of a record is below 2^31 (`SecretAssumption`).  `CollisionAssumption` is one about the world: no two of the texts that may be
typed have one check value, which is a digest of what a key of twenty bytes made of eight.  It is false of
all byte strings, and is there for one half of `OpensAgain`, that no other text opens a file (`CheckTells`,
the only proof that cites it); with the real hash that half is as true as collisions are far.  TLC
evaluates all of these for the constants of `Secret_saved`.

**`Uuid_proofs`**: `UniqueUuids` (`UniqueInObject`), `TimesReadBack` (`TimeIsReadBack`),
`FormsStandForUuids` (`FormsAgree`) and `FilesAreLeft` (`SaveHasAFile`), for any number of objects,
any node addresses and draws, and any order in which the clock takes its instants.
* The loops of `Ui64` first: what `ui64_n2i`, `s2i`, `add`, `addn`, `sub`, `muln`, `divn`, `rol` and `or` make of
  eight digits is the number one expects wherever it fits into 64 bits (`Value`).  A time in
  a UUID fits into 60, so its three fields lose nothing (`TimeOfIs`, `TimeFieldsAre`), and
  `uuid_export_txt` computes back what went in (`TimeShownIs`).  The assumptions are on the
  clock: the seconds fit into 31 bits (the year 2038), and `UUIDS_PER_TICK` is at most 10.
* Bytes and text are read back (`BytesComeBack`, `StringComesBack`), so writing is one-to-one, and
  `uuid_compare` looks at the bytes in their written order (`CompareIs`).
* Of the invariant `Inv`, `ClocksAscend` is what keeps UUIDs apart: from one random clock
  sequence on, each UUID an object makes has the next sequence, and after 0 comes a random one
  again.  The time is not needed for that, and so eleven UUIDs in a tick do no harm.
  `TimeKept` says which instant's fields an object carries, also through copies, and
  `FilesCounted` that every file is free or held by one object.

Induction over data is done with sets: the library's induction theorems take an operator as a
parameter, which no prover here can instantiate, so each proof that needs one shows instead that
the set of numbers (`SetInduction`, `Iteration`), of prefixes of a sequence (`SeqSetInduction`) or of
sizes without a counterexample (`LeastOf`) is everything.

Only model-checked:
* what must happen in the end (`LoadReturns`, `WholeFileLoads`, `DeletionEnds`,
  `PutBackIsCleared`, `LockEnds`): liveness under fairness is out of the prover's reach;
* `StableAfterOne` of `Formats`: it speaks of all names, also of those that do not come back under
  their names.  The argument of `GroupsComeBack` is for paths of plain names, where the cuts of
  `findGroup`, from the front, and those of `findOrCreateGroup`, from the back, are the same; with
  an empty name they are not (`findGroup` skips all separators in a row, and never finds a path that
  ends in one).

Every invariant that a run checks is proved; `HeldInTime` of `Clipboard_timer` is the
`Clip!HeldInTime` of `ClearedInTime`, `Clip` being `Clipboard` as it stands.

## 5. What was met on the way

One disagreement is shown by a run (`findings`):

* `QuitKeepsChanges`: the close event is never ignored, so Cancel quits and the changes are lost.

Reading the
code for the models also brought up the following.  What has a hazard is there with its
line; where a property would be broken, the property or an assumption leaves it out by name.

* `saveGroup` takes an entry for written if any byte of it was (`serializers.cpp` 400, 622), so a disk that
  fills up inside the last entry is a Success, and the safe is marked unchanged over a file that is
  cut short.
* `hideChildren` never advances (`iter = iter++`), so with an edit dialog open `lock()` hides
  the window and hangs before it asks for the pass-phrase or clears the clipboard.  `showChildren` has the
  same loop.
* The result of `fclose` is dropped, so a save can answer Success for a cut file.
* `readEntry` of version 2 never ends on a file that stops inside an entry.
* A deletion does not mark the safe as changed.
* Open checks the pass-phrase before `closeSafe` may rewrite the file it then loads.
* A password, a name or a line of the notes that is nothing but white space is empty after a save and a
  load in XML (`setContent` drops such text nodes).
* An entry saved in version 1 for the default user gets whoever is the default user when it is loaded.
* A UUID or time that begins with a NUL byte is not read back in version 2, and one with a NUL further
  on is cut short.
* Every load of the text format sets the modification time of every entry.
* `clear()` clears the clipboard but not the X11 selection; the timer does both.
* `getNextExt` ignores the extension because of a stray semicolon; it happens to end.
* `PlainTextLizer::saveGroup` looks at the item past the end of each group.
* Each UUID keeps the random device open as long as its entry lives, and eleven
  are made per tick where ten are counted.
* `UINT4` of `src/uuid-1.0.0/uuid_md5.c` has eight bytes on LP64, and `ui64_div` loses the top digit; the
  program calls neither, nor
  `uuid_export_txt`, whose arithmetic `TimeIsReadBack` uses to read a time back.
* The expansion in `SHA1Transform` overwrites its input; only copies are passed to it.
* A cancelled Open Default without a default makes the previous file the default
  while the menu entry stays disabled; Make Default on a safe that has no file yet
  enables Open Default with an empty path; a number of tries of 0 opens with
  an empty pass-phrase.

## 6. Not modelled

* **`SmartPtr`**: its table of counts has four users (`serializers.cpp` 311, 378, 492, 588), each
  a local with one owner that is never copied; no count ever leaves 1.
* **Idle detection** (`tools/idle/`, the platform files): third-party code; what it reports is a
  choice of the environment in `Lock`.
* **Code that is not built**: `attic.cpp`, `safelistview.cpp`, `safedragobject.cpp`, left from the Qt 3
  version; no build file names them.
* **UUID library beyond what the wrapper calls**: versions 3 and 4, MD5, the formatter,
  the command line, multiplication and division of 64-bit numbers.
* **Cryptography**: the compression function of SHA-1 (a free symbol), the values of the
  tables, password generation, `MakeBlowFish`, `_writecbc` and `_readcbc` (for big-endian files
  only), the self tests.
* **Window**: selection and filtering of the view, drag and drop, the about and manual
  dialogs, which change nothing, and the window geometry among the settings.
* **Composition of the session with the steps of a save**: the session's one-step save
  hides nothing that another slot could see, as a save has no event loop.

What is left: a proof of `StableAfterOne`; and Save As under a name without extension,
where the overwrite question is asked for the name as typed and `Safe::save` then appends the extension.
