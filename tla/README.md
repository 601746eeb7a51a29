# KeePassB: models, model checking and proofs

KeePassB is a password manager for BlackBerry 10 that opens and edits KeePass 1
(`.kdb`) and KeePass 2 (`.kdbx`) databases; C++ with Qt 4, and a user interface in
QML. This directory holds TLA+ models of its stateful parts, the TLC configurations
that check them, and theorems about them that TLAPS checks. All paths below are
relative to the repository.

The project was built from the outside in: what a user must not lose (the database
file, the session, the clipboard, the tree of entries) first, then the inside of the
file formats and the transformation of the key. *Plan*, at the end, says what is left.

## 1. Inventory of the system

Everything runs on the UI thread, except one half of the key transformation. What
interleaves is: handlers of user actions, timers (inactivity, clipboard), the sensor,
application states (minimised, restored, exit), the system's clipboard and other
applications, and - between any two file operations - failures and the end of the
process.

| Component | State it keeps | Operations | Interacts with |
|---|---|---|---|
| **Database facade** `src/db/PwDatabase.cpp` | `db`, `_locked`, `_searchResultDataModel`, the path; files on disk | `unlock`, `createDatabaseV4`, `lock`, `search`, `save`, `changeMasterKey` | owns a V3 or V4 database; its signals `dbLocked`, `dbUnlocked`, `dbSaveError`... drive the pages |
| **Application UI** `src/applicationui.cpp`, `assets/main.qml`, `UnlockDbPage`, `QuickUnlockPage`, `ChangeMasterKeyPage`, `PageWithWatchdog` | `quickLocked`, `quickPassHash`, the watchdog timer, the stack of pages and the sheets | open, create, quick lock and unlock, lock, watchdog, minimise, restore, re-key | calls the facade and the clipboard, reads the settings, hears `dbLocked` |
| **Timed clipboard** `src/util/TimedClipboard.cpp` | three texts, which of them is selected, `modified`, a timer | `insertWithTimeout`, `insertPair`, `activateAlternative`, `clear` | the system's clipboard, which other applications write to |
| **Multi-copy** `src/applicationui.cpp` | the proximity sensor, `sensorWasClose` | start on minimise, swap on a wave, stop on restore | the clipboard |
| **Settings** `src/util/Settings.cpp` | persistent options, recent files | getters and setters | read by all of the above |
| **KeePass 2 tree** `src/db/PwGroup.cpp`, `v4/PwGroupV4.cpp`, `PwDatabaseV4.cpp` | child lists, parent pointers, deleted flags, `deletedObjects`, the UUID of the Recycle Bin | create, delete with and without backup, search, read, write | called from the pages, which save after every change |
| **KeePass 2 entries** `v4/PwEntryV4.cpp` | fields, history, attachments | `backupState`, `maintainHistorySize`, `attachFile`, `deleteAttachment`, extra fields | the meta data's limits and pool of binaries |
| **KeePass 2 meta data** `v4/PwMetaV4.cpp` | the pool of binaries, custom icons, limits | `updateBinaries`, read, write | rebuilt from the entries at every save |
| **KeePass 2 file** `v4/PwDatabaseV4.cpp` | header, keys, stream cipher | `load`, `save` in phases, hashed blocks | key transformation, cryptography, gzip |
| **KeePass 1 tree and file** `src/db/v3/` | groups with ids and levels, entries with group ids, the Backup group | the same operations, `createNewGroupId`, `backupState` | as above |
| **Key transformation** `src/db/PwDatabase.cpp` | two halves, two threads, a progress observer | `transformKey` | called by `load` and `save` of both formats |
| **Cryptography** `src/crypto/` | cipher state | encrypt, decrypt, digests | |
| **Others** | `PasswordGenerator`, `Util` (gzip, hex), `ProgressObserver`, `ActiveFrame`, the pages' layout | | |

### What is hard here, and what makes each component correct

* **Facade.** `save()` copies the file to a backup whose name is the current second,
  truncates the file, writes, flushes, and only then may remove the backup. Each of
  these can fail, and the process can die between any two. Correct: what was last
  wholly saved can be recovered at *every* moment; a session that is unlocked has a
  database that was really read, and search results do not outlive it.
* **Application UI.** Five pages start, stop and re-time the same timer; the quick
  lock, the database lock, the watchdog and minimising come in any order and from
  any page. Correct: no page outlives its session, a session left alone is guarded by
  its time out, the quick password is that of the session, no file is saved without a
  key, and a key changes only when the user changed it.
* **Clipboard.** Other applications write to the same clipboard, between any two calls of
  it, any of which may fail, and every copy re-times the one timer. Correct: content of
  others is not taken for ours, ours is recognised and removed after its time out, expired
  text never comes back.
* **KeePass 2 tree.** Two child lists, a parent pointer and a flag are updated apart;
  each deletion is followed by a save that may fail, after which memory and file
  differ; flags are recomputed when a file is read. Correct: nothing the file holds
  is lost unless it is mentioned as deleted; the flag is exactly "in the Recycle Bin"
  as far as search is concerned.
* **KeePass 2 entries and meta data.** The history is bounded, trimmed by time and not
  by place, written from the top and read into the reverse order; attachments refer to a
  pool by numbers that every save assigns anew, also for the versions in the history.
  Correct: no version but the oldest is lost to the limit, every reference in the file
  has its binary, reading gives what was written, deleted data do not stay in the file.
* **KeePass 2 file.** Seeds, key, stream cipher, header, hash of the header, document,
  blocks and padding depend on one another in this order, at every save and load, and a
  save that failed in the middle leaves some of them new. Correct: a file opens as it
  was saved or is refused; an undamaged one is never refused.
* **KeePass 1 tree and file.** The file has no tree: it is found again from the order and
  levels of the groups and the ids in the entries, each of which is kept twice in
  memory. Correct: what is read is the tree that was written, there is one Backup group,
  which is known and flagged, and no entry is ever lost.
* **Key transformation.** Half of the key is worked on by another thread, through a
  pointer into the frame of the caller. Correct: the frame outlives the thread, the key
  has all rounds of both halves in it, and the call returns.

`PROJECT.json` lists these hazards one by one (`hazards`), at their lines, with the
properties that cover each.

## 2. The modules

| Module | Models | EXTENDS / INSTANCE |
|---|---|---|
| `DurableStore` | the promise of saving, seen from outside: one stored content per path, replaced in one step | |
| `PwDatabaseFacade` | the facade and the multi-step `save()` | INSTANCEs `DurableStore` under a refinement mapping |
| `ApplicationUI` | sessions, quick lock, watchdog, pages; every operation of the facade is reached through a page here | EXTENDS `PwDatabaseFacade` |
| `TimedClipboard` | the clipboard's operations, as actions and operators | |
| `MultiCopy` | the multi-copy, sensor and application states around them | EXTENDS `TimedClipboard` |
| `GroupTreeV4` | groups and entries of an open KeePass 2 database, its Recycle Bin, its file | |
| `EntryV4` | the entries of a KeePass 2 database: fields, attachments, the bounded history, the pool of binaries, their part of the file | |
| `TreeV3` | the groups and entries of a KeePass 1 database, its Backup group and its file of flat lists | |
| `KeyTransform` | `transformKey()` and its two threads | |
| `FileV4` | `load()` and `save()` of KeePass 2, step by step, around the key transformation | EXTENDS `KeyTransform` |
| `MC*` | instances for TLC: model values, first files, symmetry, one action constraint | |
| `PwDatabaseFacadeProofs`, `ApplicationUIProofs`, `MultiCopyProofs`, `GroupTreeV4Proofs`, `EntryV4Proofs`, `TreeV3Proofs`, `FileV4Proofs` | theorems and their proofs | EXTENDS the component's module and `TLAPS` |
| `FoldLemmas` | what a `FoldLeft` computes, by its intermediate results | INSTANCEd by `EntryV4Proofs` and `TreeV3Proofs` for each loop of the code |

Names of variables and actions are those of the code where TLA+ allows it. Operators
whose comment begins with *Mutant:* are not part of any specification: each is a
definition of the model with a plausible mistake in it, and stands next to the
definition that it would replace.

### `PwDatabaseFacade`

* `files`, `backups` - the database file of each path and its backup copies by second.
  A file is absent, whole (`[ver, key]`) or `Torn`: truncated or partly written.
* `locked`, `db`, `searchResult` - the facade's `_locked`, `db` and whether its search
  results hold entries. `db.loaded` is FALSE for the instance that `load()` leaves
  behind when it cannot even build the composite key (`UnlockAborts`).
* `pc`, `bakTime` - the next file operation of the running `save()` and the second in
  its backup's name. `Save` is everything before the first file operation, including
  encryption; `CopyToBackup`, `OpenForWriting`, `Write`, `Flush`, `Cleanup` are one
  call each, `SaveFails` the early return of each. Only `SaveStep`, `Tick` and `Crash`
  can happen while `pc # "idle"`, since the UI thread is in the call. `QFile::copy`
  does not overwrite, so a second save in the same second fails, as it does in the
  program.
* `committed` is a history variable: the last content wholly written to each path.

`Edit` makes a fresh version, which abstracts every change of groups and entries; a key
is an opaque value; decryption succeeds exactly with the key the file was saved with.

### `ApplicationUI`

`top`, `sheet` and `quickPage` are the page on top of the stack (the group, entry and
search pages are one), the master key sheet and the Quick Unlock page. A handler of a
page is an action whose guard says that the page can be touched (`OnGroupPage`, ...);
what several handlers do is one operator (`OnDbLocked`, `AppLock`,
`PrepareQuickUnlock`, `RestartWatchdog`). `quickHash` is the password and the type that
were hashed; `watchdog` is whether the timer is active, its interval being abstracted:
an active timer may fire at any time. `autoLockTimeout` has the three values that the
code tells apart. `acceptedKey` is history: the key of the session as far as the user
knows.

### `TimedClipboard` and `MultiCopy`

`system` is the text in the system's clipboard. `content` and `selected` are the three
texts and `selectedContentType`. `ours`, `stuck`, `expiring` and `copies` are history:
whether this process has put there what the clipboard holds, whether a call of the
system's `clear()` has failed to take it out since, whether the last copy asked for a time
out, and how many copies were made. Every call of the system's clipboard may fail.

The app's own `clear()` makes three calls of a clipboard that other applications write to,
and is three steps, with `clearing` for how far it has got: `Clear` compares the clipboard
with the selected text and forgets the texts, `Replaced` inserts the "0", `ClearEnds` calls
the system's `clear()`. Between them only other applications act, or the process is killed
(`Idle` keeps the handlers of the UI thread out). `quitting` is the same for the end of the
app: the `clear()` of `onAboutToQuit()` goes to its end before `ProcessEnds`, whose
destructor finds nothing selected. The inserts of a copy or a swap, also a
`Clipboard::clear()` and an `insert()`, remain one step: what another application writes
between the two is replaced, or is as if it had been written after both; and a process
killed between them leaves what `NotInserted` and `Killed` leave.

`sensorWasClose`, which the constructor does not initialise, starts with any value.

### `GroupTreeV4`

A node is a UUID. `children` and `parent` are the child lists (groups and entries in
one set, no property being about their order) and the parent pointers, `deleted` the
flag, `deletedObjects` the list in memory, `file` what the last successful save wrote.
`Create` and `Dismiss` are the edit sheet of a new node, which is in the tree before it
is confirmed; `Delete` is `deleteGroup()` and `deleteEntry()` with the
`moveToBackup()` of both classes and the save that follows; `Saved` is a save that may
fail. `Reopen` reads the file: flags are set as `readFromStream()` does, where
`clear()` takes back what the parent had set, so groups below the Recycle Bin are *not*
flagged after reading, and neither are their entries. `used` is history: the UUIDs that
`PwUuid::create()` does not return again. The groups below a group are defined as a
closure, without recursion, so that the module can be proved about.
`BinMayBeNested` says whether a file may hold its Recycle Bin inside another group,
which other programs allow and this one never does.

### `EntryV4`

`entry` and `history` are the current and the earlier versions of every entry, index 1
of a history being the top of the list on screen; `binaries` is the pool of `PwMetaV4`,
`file` what the last successful save wrote, with attachments as numbers. A version is
its title, which stands for the standard fields, its extra fields, its attachments and
its modification time; the copies that `clone()` makes share these. The actions are the
handlers of the pages, with the backup and the save each of them ends in, in the order
in which each does them: `EditEntry`, `RemoveField`, `AttachFile`, `RemoveAttachmentAt`
register the modification and then back up (`RegisterThenBackup`), `EditField` the other
way round. `Saving` is what a save leaves in memory and in the file: it may fail before
the pool is rebuilt, or after, when every attachment has a new number and the file has
not. `OldFilesAssumption` says what a file of another program may be: no entry twice,
and attachments that are numbers; its histories may have any order and any length.
Times are whole seconds, since a file keeps no more, and `Tick` gives every edit a
second of its own.

### `TreeV3`

`db` holds the groups (both child lists, parent, level, id, and whether the name is the
reserved one) and entries (group and group id), and `backupGroup`. The state changes
are operators on `db` with the names of the methods: `AddSubGroup` sets the level,
`AddEntry` and `MoveEntry` the group id, `EntryToBackup` and `GroupToBackup` are
`moveToBackup()`, `BackupState` is the clone that goes to the Backup group, and
`WithBackupGroup` is `getBackupGroup(true)`, which may make the group. `Content` and
`Written` are the lists of the file in the order of `getAllChildren()`; `Hierarchy`
rebuilds the tree level by level as `readContent()` does. A new group gets any of the
`Ids`, that of another group as well, which `createNewGroupId()` does not notice (section 5).

### `KeyTransform` and `FileV4`

`callerPc` and `workerPc` are the places of the two threads; `subKey1` and `subKey2` the
buffers in the frame of `transformKey()`, which is `Gone` when the frame is; `workerKey`
and `callerKey` the copies both threads work on. Cryptography is symbolic: a half key is
the record of its rounds, a hash is what was hashed, an encrypted body comes out only
under the key it went in with.

`stage`, `header`, `combinedKey`, `salsa`, `values` are the state of `PwDatabaseV4` (the
protected values, in document order, are all of the document that matters to the file).
`Unlock` and `Save` are `load()` and `save()` up to `transformKey()`; the threads follow;
`PaddingError`, `StartBytesError`, `ContentError`, `Unlocked`, `Saved`, `SaveError` are
the ways in which they go on, in the order of the checks in the code. `Damage` changes
any one part of a file that is not open: a field of the header, the start bytes, a number, a
hash or the data of a block, the padding, or the length of the file. The last 16 bytes
of something garbled may end like a padding, so the choice between the first two
errors is open. `drawn` and `written` are history: how many random values were drawn,
which are never repeated, and what the file was made of.

## 3. What is checked

Each passing run also checks the type invariant of its module, alone or as a part of the
inductive invariant.

| Run | Question | Result |
|---|---|---|
| `facade` | Does the facade, with failures, crashes and the clock at every step, keep what was saved? | passes: `Recoverable`, `SessionConsistent`, `IInv`, `BackupsOutliveFailedSaves`, and the refinement `SaveIsAllOrNothing` |
| `app` | Whatever pages, timers and locks do: are sessions, pages and quick passwords consistent? | passes: `AppInv`, `PagesDieWithTheSession`, `NoKeylessFile`, `QuickCodeMatchesSession`, `SessionIsGuarded` |
| `multi_copy` | While other applications write and any call fails: is our content recognised and removed in time, is that of others not taken for ours, and does expired text stay away? | passes: `OwnContentTracked`, `MultiCopyInv`, `OtherContentRecognised`, `NothingComesBack`, and `ExpiringContentRemoved` under fairness. The exception in the first and the last is a text that a failed `clear()` of the system has left behind (`stuck`), for which the code has no second try |
| `group_tree_v4` | Is anything lost by deleting, dismissing, failed saves and re-reading? Is search exact? | passes: `TreeInv`, `RecycleInv`, `NothingLost`, `OnlyRecycledIsFlagged`, `SearchSkipsRecycled`, `DeletionIsMentioned` |
| `entry_v4` | In whatever order the histories are: does an edit, a failed save or reading back ever lose a version or an attachment, or leave data behind? | passes: `EntryInv`, `ReferencesResolve`, `SaveKeepsEverything`, `DeletedDataIsGone`, `EditsLeaveABackup`, `OldestGoesFirst` |
| `tree_v3` | Are levels, ids and lists kept so that the tree is found again in the flat file, also when ids repeat? | passes: `TreeV3Inv`, `LevelsAndIdsAgree`, `BackupGroupIsKnown`, `ReadsBackTheTree`, `EntriesStay`, `EditsLeaveACopy` |
| `file_v4` | Whatever the schedule of the threads, the key given and the damage: is a file opened as saved, or refused? | passes: `FrameOutlivesWorker`, `KeyIsComplete`, `OpensAsSaved`, `IntactOpens`, and `CallsReturn` under fairness |
| `app_key_changes` | Does `changeMasterKey()` returning false leave the key alone? | violated: the new key stays in memory, and the next ordinary save writes it |
| `group_tree_v4_nested` | "Moves the group's whole branch to Backup group" | violated: a group that contains the bin is moved into its own branch, out of the tree, and the save drops it |
| `tree_v3_meta_streams` | "also write the meta-stream entries" | violated: they are written but not counted in the header, so reading the file loses them |
| `multi_copy_other_content` | "leaving any other content intact" | violated: what another application copies after the comparison is replaced by the "0" and cleared |
| `entry_v4_history_order` | "most recent entries should be at the top" | violated: saved from the top and read with each version on top of those before it, a history is upside down after one save and load |

The last five are runs whose property states what a comment of the repository says,
and which TLC refutes with a trace of the model; `findings` in `PROJECT.json` quotes
the comment and the code. Section 5 has the smaller disagreements between comments and
code that need no run to be seen.

### Bounds, and why they are enough

* `facade`: one path, since operations of different paths touch disjoint files and
  share only the session; two keys (the old and the new one); `MaxVersion` 3 edits, so
  that a save can fail between two saved versions; `MaxTime` 2, so that there are
  saves within one second, in neighbouring seconds, and with one between them.
* `app`: three keys - two with different passwords, one that is a key file only, for
  which Quick Unlock is switched off; two types of quick password; one edit; two
  seconds, and the action constraint `ClockWaits`, by which the clock advances before
  the first session only. The clock matters to the names of backups alone, which
  `facade` checks without the constraint. Passwords (with their keys) and types are
  symmetric.
* `multi_copy`: two texts, one foreign text, `MaxCopies` 3: one to be replaced, one to
  fail, one to expire. One copy is enough for `multi_copy_other_content`.
* `group_tree_v4*`: a root and three groups, one of which may be the Recycle Bin,
  and two entries: enough for a branch of depth two next to, inside, or (with
  `BinMayBeNested`) around the bin. All trees over these nodes are initial states, with
  and without a bin, enabled or not, found or dangling. Groups and entries are
  symmetric; the properties are safety properties, so symmetry is sound.

* `entry_v4`: two entries (two must share or not share a binary), two extra fields, two
  values, two contents of attachments and up to two attachments, a limit of two versions
  and three edits (`MaxTime`): one more than the history holds. The first file has a history longer than the
  limit, in another program's order, and a pool with gaps in its numbers; or no entry at
  all. The limit is 2 because 1 and 0 lose the backup itself (section 5).
* `tree_v3*`: a root and three groups, so that there are three levels or a Backup group
  beside a nested one; three entries, so that an entry, its copy and another one exist
  together; three ids, so that all groups have one of their own, or any two the same; two
  first files, one nested and with a meta stream, one with a Backup group that has an entry.
  UUIDs, titles and ids are symmetric in `tree_v3`.
* `file_v4`: two keys, one or two rounds, up to two protected values (their order and
  their number matter, what they are does not), a document in two blocks, one save over
  a first file that another program wrote with or without a header hash
  (`MaxSaves` 2 bounds the draws, the first of which is the first file's), one damaged part.
  So no save succeeds after one that failed in the run; the theorems of section 4, which
  hold without these bounds, include it.

Deadlock is checked in all runs.

### Fairness

Two specifications assume any. `MultiCopySpec` has `WF_mcVars(OnTimeout)`: a `QTimer`
that is active fires as long as the event loop runs, and it keeps running in the
background (`bar-descriptor.xml` asks for `run_when_backgrounded`); and weak fairness of
`OnClear` and `ProcessEnds`: a handler that is running goes on to its end, and an app that
has left its event loop ends. Nothing is assumed of
the user, other applications or the sensor; that the user stops copying is the bound
`MaxCopies`. `FileV4` has weak fairness of the other thread (`QtConcurrent::run` queues
the call for a thread of the pool, which has no other work in this program), of the
caller (it computes, and then `QFuture::result()` wakes it when the other thread is
done), and of the code that follows `transformKey()` in `load()` and `save()`. Nothing is
assumed about when a user unlocks, saves or locks. All other specifications are safety
only.

## 4. What is proved

The proofs hold for every value of the constants under the named assumptions of the
modules, which only say that sentinels differ from values, that bounds are natural
numbers, and (`OldFilesAssumption`) what may be in the first file. Theorems that need
more say so in their ASSUME.

* **`PwDatabaseFacadeProofs`.** `Invariance`: `Spec => []IInv`. `Recoverable` alone is
  not inductive: that the copy made by this save is the *newest* backup follows from
  the clock (`BackupsInThePast`), and that it equals the file about to be truncated
  follows from the step before (`SaveProgress`). From it: `TypeCorrect`,
  `AlwaysRecoverable`, `SessionsAreConsistent`, `FailedSavesKeepBackups`. The module
  also proves the refinement, `SaveImplementsDurableStore`: with `stored` mapped to
  what is recovered and `session` to the unlocked database, initial states map to
  initial states and every step to a step of `DurableStore` or a stutter. The step that
  stores is `Write` or `Flush`, whichever leaves the file whole.
* **`ApplicationUIProofs`.** `ApplicationUsesFacade`: every step of the application is a
  step of the facade or leaves it alone, so `ApplicationIsSafe` carries the facade's
  invariants over. `PagesNeverOutliveSessions` is proved directly.
  `ApplicationInvariance`: `AppSpec => []AppInv`, which makes the rest inductive: while a
  new database has no key, Quick Unlock is switched off, and only the first page, which
  has no session under it, can switch it on; so no path leads from the zero key to a save
  (`FilesHaveKeys`), and a code can only have been made of the key that was last accepted
  (`QuickCodesAreNeverStale`). `SessionsAreGuarded`: after every handler, of any page, in
  any order, a session that can be touched has its timer, or the user is choosing one.
* **`MultiCopyProofs`**, all but the liveness property of the run, for any behaviour of the
  system's clipboard. `ExpiryInvariance`, and from it `ForeignIsRecognised` and
  `ExpiredTextsStayAway`; `TrackingInvariance` (`MultiCopyInv`: clipboard, texts, timer and
  history in step) and from it `OwnContentIsTracked`. The strengthening is that a text of
  ours is never the empty one, so that an insert that fails after a clear that did not is
  no danger to what is recognised. That other applications' content is safe is not a
  theorem, since it is not true: `multi_copy_other_content`.
* **`GroupTreeV4Proofs`.** `TreeInvariance`: `Spec => []TreeInv`, wherever the bin is:
  child lists and parents agree (`ListsAlwaysAgree`), unknown UUIDs have no children,
  the enabled bin is flagged - hence never deleted - and the file has one place for
  every node. With the bin in the root group, `NothingIsLost` and
  `DeletionsAreMentioned`. The argument is `MembersKept`: a closed set that contains the
  root contains the tree, so it is enough to show that whatever a step takes out of a
  list is still in the new tree, or is below what was mentioned as deleted.
  `group_tree_v4_nested` shows that the assumption on the bin is needed.
  `RecycleInvariance`, and from it `OnlyRecycledIsAlwaysFlagged` and `SearchesSkipTheBin`,
  also with the bin in the root group: `RecycleInv` adds that the bin is never the root and
  that what an edit sheet creates is not flagged. A search goes down from the root and
  stops at flagged groups; that it stops nowhere else is `OnlyRecycledIsFlagged`, that it
  stops before everything in the bin is that the bin is flagged, and that a group of the
  bin has no way from the root past it, since every node has one parent.
* **`EntryV4Proofs`**, all six properties of the run. The loops of the code
  (`updateBinaries()`, `maintainHistorySize()`, `readHistory()`) are folds. A fold has a
  sequence of intermediate results, which `FoldLemmas!FoldLeftSteps` constructs, and
  induction over *numbers* (a set that holds 0 and with every number its successor,
  `NatSetInduction`) then goes along it; this needs none of the theorems with an operator
  parameter. The lemmas say what each loop computes for all inputs: `PoolOfSeq` (each
  data once, and no other), `MaintainedHistory` (nothing kept is older than what went, and
  nothing goes while there is room), `ReadUpsideDown` (`Reverse`), `FlattenMembers`.
  `SavesKeepEverything` says that a history keeps its versions, each as often (`SameItems`);
  that reading turns their order around is no part of it, and `entry_v4_history_order` shows
  what that order should be and is not.
  `EntryInvariance` (memory, pool and file are well formed and the file can be loaded)
  rests on `SavedMemory`, which says of any save of well-formed memory that what is
  written reads back; every action but `Reopen` is such a save (`NextIsSaveOrReopen`).
  From these: `EntryTypeCorrect`, `ReferencesAlwaysResolve`, `SavesKeepEverything`,
  `DeletedDataIsAlwaysGone` (the pool is injective, so each number belongs to a version),
  `OldestAlwaysGoesFirst` for any limit and any first file.
  `EditsAlwaysLeaveABackup` needs two assumptions, both of which are needed: a limit that
  is neither 0 nor 1 (section 5), and `OldTimes`, that the histories of the first file are
  older than their entries, at most one item being as new as its entry: from a clock that
  was set back, for example, the backup itself can be the oldest. `HistoriesAreOlder` is
  the invariant that makes it inductive: then there are, with more items than the limit,
  always others that are older than the backup on top (`TopStays`).
* **`TreeV3Proofs`**, all six properties of the run, for trees of any shape and depth:
  `TreeInvariance` (`TreeV3Inv`), `LevelsAndIdsAlwaysAgree`, `BackupGroupIsAlwaysKnown`,
  `SavesAreReadBack`, `EntriesAlwaysStay`, `EditsAlwaysLeaveACopy`. The inductive invariant
  says that there is a tree in memory (`IsTree`: lists and parents, levels, group ids, the
  flags and `backupGroup` agree), that the file is read back as some tree
  (`WellFormed`), and that its entries are in memory. The argument has four parts.
  (1) `getAllChildren()` is a walk of as many levels as there are groups. By induction on
  the levels (`WalkOrder`), its list has each group once, a parent before its
  subgroups, subgroups in the order of their parent, and no group of the same level between
  a group and its subgroups; `TreeForest` uses the levels to show that no group is below
  itself, and so that the walk is long enough. (2) Every operation makes a tree of a tree
  (`GroupCreated`, `EntryPut`, `GroupTaken`, `AllMoved`, ...), the loop over the entries of
  a deleted group by induction along its fold. (3) The tree is found again from
  the written lists: `HeadsFold` (the groups as they are read, with no links), `LevelPlaced`
  and `HierarchyFold` (after a level, exactly the groups up to it are linked, and each
  parent has those of its subgroups that the loop has passed, in order: this is
  where the order of the walk is needed), and `EntriesFold` (what the loop over the entries leaves).
  Together `WrittenIsReadBack`: all links, levels, ids and flags are those of memory, and
  the groups are refilled (`IsRefilled`): an entry goes to the last group read with its group
  id, behind those before it. A group whose id no other group has gets back the very list it
  had; groups with one id have their entries in one of them after reading, which is still a
  tree, and still has every entry. (4) Every action but `Reopen` is one of these
  operations and a save that succeeds or fails.
  None of the six assumes that ids differ: `createNewGroupId()` promises it and does not
  ensure it. They rest on `OldFilesAssumption`, that the first file is `WellFormed` itself.
* **`FileV4Proofs`.** `Invariance`: `Spec => []IInv`, where `IInv` says how many rounds
  each thread has done (`ThreadsInv`) and what the file was made of, whatever of it has
  been damaged since (`FileInv`): there is *one* header and *one* document from which all
  of its parts come. The properties alone are not inductive, because a damage and a load
  are far apart. From it: `FrameAlwaysOutlivesWorker` and `KeyIsAlwaysComplete` for any
  number of rounds; `FilesOpenAsSaved` (the start bytes come out only under the
  right key; every block that passes is a piece of the one document; the header hash then
  says that all of the header is the one it was saved with, and so the stream key)
  and `IntactFilesOpen`, for any number of blocks, values, saves and damages.

Only model-checked: `ExpiringContentRemoved` and `CallsReturn`, because liveness under
fairness is out of the prover's reach. Every other property of a passing run is proved;
the inductive invariants were checked by TLC before they were proved (`IInv`, `AppInv`,
`MultiCopyInv`, `TreeInv`, `RecycleInv`, `EntryInv`, `TreeV3Inv`).

## 5. What is not modelled, and what was found on the way

Not modelled:

* Cryptography (`src/crypto`), gzip and hex conversions: arithmetic on bytes without
  state of interest, symbolic where the file formats need them; Rijndael, Twofish and
  Salsa20 are third-party code. `Rijndael::init()` cannot fail with the arguments it gets
  from `transformKey()`, so the error of the other thread that `PwDatabase.cpp:146`
  would drop cannot occur; error codes of the two halves are not modelled.
* How a password and a key file become a composite key: a pure function of bytes. The
  KeePass 1 file's encryption and hash: the same steps as in KeePass 2.
* The order in which the elements of the XML document are written and read, and the
  recursion through groups that gives it: the document is one sequence of protected values on
  both sides, so of the stream cipher the runs see its set-up and its state, not a
  disagreement about the order. Damage to the size field of a block is left out as well.
* Layout, translations, sorting, icons, custom data, auto-type, and the times but that of the
  modification: data that is copied along and that no property tells apart.
* The progress observer and the list of recent files: nothing else depends on their
  values. (`setPhaseProgressRawTarget()` takes 32 bits of a 64 bit number of rounds, and
  `PwDatabaseV3.cpp:533` reads two variables before they are set; both only move the
  progress bar.)
* `flush()` hands the data to the operating system; a power failure after it can lose
  the data although the backup was removed. The code has no call that would order the
  two, so a model could only restate the loss.
* Another program replacing the database file while it is open: nothing in the code
  compares the file with what was loaded.
* The invocation of the app with a file, the cover, start-up, the password generator.

Disagreements between the code and its comments that the models follow (the model does
what the code does), without a run of their own:

* `QuickUnlockPage.qml:43`: Cancel locks the database and leaves the application
  quick-locked; `applicationui.cpp:295` says "either app or DB can be locked, but not both".
* `QuickUnlockPage.qml:67`: the length of the code is that of the type in the settings,
  which may have been changed since the code was hashed.
* `applicationui.cpp:222`: choosing a time out sets the interval of a timer that may not
  be running; until the next touch or change of page nothing locks.
* `TimedClipboard.cpp:75`: when both `Clipboard::clear()` and `insert()` fail, the text that
  is still in the clipboard is no longer recognised by `clear()`.
* `TimedClipboard.cpp:53`: `clear()` forgets its texts before it tries to remove them, and
  looks at the result of neither `insert()` nor `Clipboard::clear()` but to return it; when
  both fail, the text stays in the clipboard and nothing tries again.
* `PwDatabaseV3.cpp:564`, "Generates a new group ID (guaranteeing it is not being used
  already)": the `continue` at line 579 goes on with the next group instead of drawing again,
  and whatever was drawn is taken. `qrand()` is seeded with the milliseconds of the time of day
  (`applicationui.cpp:49`), so there are 1000 sequences, and an id of a former session is
  drawn again when its seed is. The entries of two groups with one id are all in the last
  of them once the file is read; `ReadsBackTheTree` says what is still kept then.
* `PwDatabaseV4.cpp:751`: the deleted objects of a file are read and thrown away, and are
  not in the next file.
* `maintainHistorySize()` with a limit of zero removes the backup just made, and with a
  limit of one it does so too when the only other version has the same time, since the
  first of them goes: an edit of a field backs up before it registers the modification, so
  its backup has the time of the one before. `ViewEntryExtrasTab.qml:130` says of a removed
  field that it "will remain in the entry history".
* A wrong key is most often reported as a padding error (`dbLoadError`), before the start
  bytes are compared, although `PwDatabase.h:148` has a signal of its own for it.

## 6. Plan

All of the components that carry the program's own logic have a module. What is left, in order:

1. Composition of `EntryV4` with the deletions of `GroupTreeV4`: entries in the Recycle Bin
   with their history and attachments.
