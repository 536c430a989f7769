# Bookshelf in TLA+

Bookshelf is a self-hosted library for e-books: one Go process that serves a
web front end, a JSON API and an OPDS catalogue from one SQLite database and
one data directory, and a shell script that restores a backup while the server
is stopped. This directory holds TLA+ modules of the parts whose order of steps
matters, the TLC configurations that check them on small instances, and TLAPS
proofs of what holds for instances of every size.

    tlc -workers 2 -config MCLibrary_concurrent.cfg MCLibrary.tla
    tlapm LibraryProofs.tla

Paths below are relative to `src/`; Go paths to `src/backend/internal/`.

## 1. The system

Every HTTP request runs in a goroutine of its own. There is no lock in the
program around the library, the accounts or the backups: handlers share

* the database (SQLite in WAL mode with a busy timeout, through GORM), where a
  statement or a transaction is atomic and only one transaction writes at a
  time;
* the data directory (`books/`, `imports/`, `trash/`, `trash/files/`,
  `backups/`, `config/`), where a system call is atomic and nothing else is.

What is read in one step may be stale in the next, an error may come back from
any call, and the process may end between any two: killed, or ten seconds after
a shutdown began (`cmd/server/main.go`).

| Component | State it keeps | Operations | What must hold |
|---|---|---|---|
| Storage (`storage/storage.go`) | directories and files of the data directory | `SafePath`, `EnsureDir`, `TempFile`, `Move` | a move neither overwrites nor loses a file |
| Book service (`book/service.go`, `book/handler.go`) | `books`, `book_files`, `import_jobs`; `books/<id>/`, `trash/` | Create, AddFile, Update, Delete, Restore, DeleteFile, Import | catalogue and disk agree when nothing runs; no content twice; no acknowledged file lost; what is in the trash can be restored; a job tells the truth; every request ends |
| Session secret (`config/session_secret.go`) | `config/session_secret` | ResolveSessionSecret at each start | all starts use one secret; one that was used survives kills and power failures; none is half written |
| Accounts (`auth/`) | `users`, `sessions` | login, logout, authentication, password change | a password change ends the sessions of the old password |
| First initialisation, OPDS settings (`settings/`, `system/handler.go`) | `system_settings`, `users` | Initialize, EnsureExistingInstall, Update | one administrator; settings exactly when there is one; OPDS never open without a password |
| Backups (`backup/service.go`) | `backups/`, `backup_records` | Create, Validate, retention | a backup on record validates while it is retained; it holds the files its database names |
| Restore (`scripts/restore.sh`) | the data directory, STAGE, OLD, SAFETY | run once per restore | switched, or as before; nothing lost |
| Covers and `metadata.json` (`book/service.go`) | `cover_path`, `books/<id>/cover.*`, `books/<id>/metadata.json` | SetCover, saveCover, writeMetadata | the cover recorded is there, and the last one; the file says what the book's row and links say |
| Catalogue of authors and tags (`catalog/`, links in `book/service.go`) | `authors`, `tags`, link tables | create, rename, delete, replaceLinks, find-or-create | no link dangles; imports share authors |
| Scanner and manifest (`scanner/service.go`) | a report and its status | Scan, ExportManifest | a report tells nothing that never was so and all that was so throughout |
| Rate limiter (`middleware/middleware.go`) | windows by address, under a mutex | LoginRateLimit | no more than the limit in a window, nobody refused early |
| Migrations and the start (`database/database.go`, `cmd/server/main.go`) | `schema_migrations` and the tables | Open at each start | each version with its row, in order; a server listens only on a current database; starts at once do not all fail |
| OPDS (`opds/`), proxy resolver (`proxy/resolver.go`) | none; the reader's walk from page to page | BasicAuth, navigation and acquisition feeds, the addresses of links | a walk misses and repeats no more than changes account for; https_only lists to TLS only; links lead to what is served |
| Metadata parser, configuration | none | pure functions | see section 7 |
| Front end, deployment files | in the browser, none | - | see section 7 |

The book service calls Storage for every path. A backup reads the database and
the directories the book service writes, without asking it. Restore replaces
both under a stopped server. The session secret is in the data directory too.

The hard behaviours are listed line by line as `hazards` in `PROJECT.json`;
they come in five groups:

1. a handler asks the database, acts on the disk, and tells the database, with
   other handlers, failing calls and the end of the process in between;
2. a compensation (a move back, a purge) runs in a state that is not the one
   the original step left;
3. two starts, two first initialisations or two backups race for one name;
4. a shell trap runs between two commands and the script goes on;
5. one answer is put together from several reads (a scan, a page, a walk over
   pages, a backup, a clock and a map), and what is read changes in between.

## 2. The modules

| Module | Models | Runs | Proofs |
|---|---|---|---|
| `Storage` | the data directory: directories, and where each file's bytes are | with Library | with Library |
| `Library` (extends `Storage`) | the book service and its import jobs | `MCLibrary_*.cfg` | `LibraryProofs` |
| `Details` | links to authors and tags, the catalogue of these, covers, `metadata.json` | `MCDetails_links_covers.cfg` | `DetailsProofs` |
| `Scanner` (extends `Library`) | a scan beside the requests of the library | `MCScanner_scan.cfg` | `ReadersProofs` |
| `Backups` (extends `Library`) | backups beside the requests of the library | `MCBackups_pair.cfg` | `ReadersProofs` |
| `Opds` | a reader that walks through an OPDS listing, with its admission and the addresses of links | `MCOpds_walks.cfg` | `OpdsProofs` |
| `RateLimit` | the fixed window of logins, uploads and imports | `MCRateLimit_windows.cfg` | `RateLimitProofs` |
| `OneSecret` | abstract: one secret is chosen, each server runs with it | as `PromiseKept` | `StartupProofs` |
| `SessionSecret` | `ResolveSessionSecret` over a file system with kills and power failures; implements `OneSecret` | with Startup | `StartupProofs` |
| `Startup` (extends `SessionSecret`) | the start of the server: the secret, then the migrations | `MCStartup_starts.cfg` | `StartupProofs` |
| `Accounts` | accounts, sessions, first initialisation, OPDS settings | `MCAccounts_race.cfg` | `AccountsProofs` |
| `RestoreScript` | `scripts/restore.sh` with its trap | `MCRestoreScript_*.cfg` | `RestoreScriptProofs` |

The `MC*` modules add symmetry sets, the inputs of a run, and what may overlap
or fail in it. Definitions with a name like `UDropOpen` or `SaveSkipped`, which
stand before the definition they vary and are used nowhere, are versions of it
with a plausible mistake; `PROJECT.json` lists under `mutants` which property
notices which mistake.

`Library` and `Details` are two views of the same handlers: `Library` has what
moves files and directories (and the trash, and the purge of imports), `Details`
what is written about a book, so that neither is too large for TLC. Both have
Create, AddFile, Update and Import, each with the calls that its view concerns.

### Library

`pc[r]` is the next step of request `r`. Its letter names the handler, the rest
the call:

| Operation | Steps | Code |
|---|---|---|
| Create | `c_dir c_tx c_meta c_get`, undone by `c_unrow c_rmdir` | `book/service.go` `Create` |
| AddFile | `u_check u_temp u_dup u_insert u_mkdir u_rename u_commit`, undone by `u_unplace u_drop` | `AddFile` |
| Delete | `d_check d_move d_mark`, undone by `d_undo` | `Delete` |
| Restore | `r_check r_move r_mark`, undone by `r_undo` | `Restore` |
| DeleteFile | `f_check f_move f_unrow`, undone by `f_mkdir f_back` | `DeleteFile` |
| Update | `e_check e_tx e_meta` | `Update` |
| Import | `j_new`, Create, `i_parse`, Update, AddFile, `i_finish`; `p_files p_book p_dir j_failed` when one fails | `Import`, `purgeImport`, `book/handler.go` |

A step is one SQL statement, one transaction or one file system call with the
pure code around it, and each may fail (`Fail`). AddFile keeps its transaction
open over `u_insert .. u_commit`; `writer` is who holds SQLite's write lock, and
statements that write wait for it (`Free`). A uuid is named after the request
that mints it, a file's content is a value that SHA-256 tells apart, and an
imported book is named after its import, as is its file.

### Details

| Operation | Actions | Code |
|---|---|---|
| Create | `KDir KTx`, `writeMetadata`, undone by `DeleteRow RemoveFolder` | `book/service.go` `Create` |
| Update | `Check ETx`, `writeMetadata` | `Update`, `replaceLinks` |
| AddFile | the trailing `writeMetadata` | `AddFile` |
| SetCover | `Check VOpen VWrite VRow`, undone by `VUndo` | `SetCover`, `saveCover` |
| Import | `IFile IFind IMake`, Update, `VOpen VWrite VRow`; `PAuthors PTags DeleteRow RemoveFolder` when one fails | `Import`, `purgeImport` |
| authors and tags | `CreateTerm RenameTerm DeleteTerm` | `catalog/handler.go` |

`writeMetadata` is four steps: read the row (`ReadBook`), read the links
(`ReadLinks`), truncate the file (`OpenMetadata`), write it (`WriteMetadata`).
`ETx` and `KTx` are transactions: they check that the authors and tags exist and
write the links. A file that `os.WriteFile` has opened is `"empty"`, a cover or a
`metadata.json`, and whoever writes over what another has written since leaves
his own or a `"mixed"` one. What undoes a Create or an import goes on when a call
of it fails, as the code does, and `unpurged` remembers the imports whose links
stayed. `met` and `latest` are history too: which requests ran at once, and whose
cover was recorded last.

### Scanner

`SBooks` (the active books), `SMetadata` (is there a `metadata.json`), `SRows`
(rows of their files), `SFile` (is the file there), `SList` and `SEnter` (the
walk over `books/`) and `SEnd` are the reads of `Scan` in order; `SFail` is a
query that fails or a file that cannot be read. The code has one issue for every
file the scan does not know; here that of a book file (`untracked_file`) and that
of a `metadata.json` (`untracked_metadata`) are told apart, because a book file is
known by its row and a `metadata.json` by the books read first. `SRequest` is a step of `Library`. `Wrong` says what a scan
that took no time would report; `ever` and `always` are the union and the
intersection of it over the moments of the scan.

### Opds

`Admit` is `BasicAuth` (mode, HTTPS, password), `Count`, `Find`, `Get`, `Listed`
the statements of `book.Service.List`, `Slice` the in-memory page of a navigation
feed, `Feed` the answer with its next link, `Follow` the reader asking for it.
`Change` adds, removes or moves one book of the listing, `Configure` changes the
settings. Page and offset arithmetic is that of a signed int of `IntMax`, which
wraps. `HTTPS`, `Trusted`, `Origin` are the proxy resolver's.

### RateLimit

`Arrive` reads the clock; `Pass` and `Refuse` are the body under the mutex, up to
`Delay` later. An entry that was never there is one with its window over.

### SessionSecret

A start goes through `Environment`, `Load`, `CreateTemp`, `Write`, `Sync`,
`Link`, `Again` (when another start was first) and `SyncDir`, the calls of
`ResolveSessionSecret` in order. A power failure may take, or not, each name and
each byte that was not synced. `OneSecret` is implemented with
`secret <- entry, given <- Running`, what the servers that are up run with.

### Startup

After `Link` or `Load` gave it the secret (`pc = "serving"`), a start looks for
the table of versions (`Open`, `CreateSchema`), and for each version counts its
row (`Count`), begins a transaction (`BeginTx`), writes (`Insert`) and commits
(`Commit`). Of SQLite's WAL mode: a transaction reads a snapshot, and its first
write fails when another one committed since or holds the lock. An error ends
the server (`Fail`), a kill or a power failure ends it anywhere. It begins with
an empty database or the one of any earlier release.

### Accounts

`SCount`, `STx` are `settings.Initialize`; `LFind`, `LStore` are `Login`;
`ASession`, `AUser` the authentication that every protected handler begins with;
`XDelete` `Logout`; `CFind`, `CTx` `ChangePassword`; `OCurrent`, `OSave`
`settings.Update`. `overtaken` is history: the logins that stood between `LFind`
and `LStore` when the password of their user changed. `Boot` is `EnsureExistingInstall`; `Expire` lets a session
get old. A bcrypt hash is the password it was made from.

### RestoreScript

One action per command of the script: `Checks`, `Verify`, `MakeStage`,
`Extract`, `CheckFiles`, `QuickCheck`, `MakeDirs`, `Save`, `Aside`, `Moved`,
`Install`, `Finish`, `Drop`; `CleanStage`, `MoveBack` are the trap, `Resume`
what happens after it (the script ends if it was ending, and goes on where it
was after a signal). `Signal` comes between two commands; `Kill` ends the shell
without a trap.

### Backups

`BSnap` (VACUUM INTO, then the list of files), `BOpen` (O_EXCL), `BList`,
`BDir`, `BPack` (the walk over `books/`), `BSum`, `BSide`, `BStat`, `BRecord`,
and `BOld`, `BFiles`, `BRow` for the retention. `BRemove` and `BDrop` are the
error paths, which remove files by name. Requests of `Library` take their steps
in between (`Request`).

## 3. What the runs check

"v" marks the run that ends in a counterexample; section 6 says what it means.

| Run | Properties | Question |
|---|---|---|
| concurrent | `UniqueContent`, `FilesKept`, `UploadKept`, `IInv` | what holds of files and contents whatever overlaps, fails and crashes? |
| overlaps | `JobsTruthful`, `Consistent` | which requests may overlap, and which calls may fail, and still leave catalogue and disk in agreement and jobs that tell the truth? |
| live | `Answered` | does every request end, though a writer waits for whoever holds the write lock? |
| links_covers | `LinksResolve`, `LinksOwned`, `MetadataCurrent`, `CoverThere`, `CoverCurrent`, `AuthorsShared` | do links, covers and `metadata.json` survive deletions, purges, two covers and writers that overtake each other? |
| scan | `NoFalseAlarm`, `NothingMissed` | is a report true, though it is read while the library changes? |
| walks | `TypeOK`, `MissedAtMost`, `RepeatedAtMost`, `FailedForCause`, `ListedBySecure`, `Followable` | what does a reader miss or get twice, who is listed to, and do links lead where the server answers? |
| windows | `TwiceTheLimit`, `RefusedLate` | how many requests pass, and is anybody refused early, with stale clocks? |
| starts | `Recorded`, `Ready`, `OneGoesOn`, `Agreement`, `CreatedLasts`, `NeverTorn`, `PromiseKept` | do overlapping, killed and powerless starts agree on one secret, as `OneSecret` says, and migrate the database whole? |
| accounts_race | `OneAdmin`, `Initialised`, `SettingsSound`, `SessionsCurrent`, `IInv` | what holds of accounts, sessions and settings when requests overlap and the server stops? |
| restore_runs | `Rollback`, `NothingLost`, `SwitchInv` | does a run that ends by itself switch or roll back, and is the data somewhere whatever happens? |
| restore_terminated v | `AtomicSwitch` | is the switch atomic? |
| backups_pair | `Retained`, `SnapshotArchived` | do backups that overlap validate while they are retained, and hold their snapshot's files? |

### Bounds, and why they are enough

* `Library`: one book with one file to begin with (`Seeded`), two contents (one
  of them that book's, so that duplicates happen), two to four requests. A
  conflict here is between two requests over one book, one file or one content;
  a third or fourth makes or removes what the two fight over. `concurrent`
  lets any two of three requests run at once, with all seven operations, a
  failing call in each and a crash. `overlaps` has four requests, of which up to
  three run at once as `Harmless` allows: creates, uploads, updates and file
  deletions; creates, imports and updates; deletes and updates; creates,
  restores and updates; and any of these groups after another. In each a call
  may fail, so that every error path is taken beside the others and before them;
  what may not happen is what `Calm` excludes (a crash, a second failing call, a
  failing call in an import, a request for a book whose Create is taking it
  back). These are the hypotheses of the theorems, and no less.
  `FaultsPerReq = 1` reaches every error path; `MaxCrashes = 1` stops the process
  anywhere.
* `Details`: one book with an author and a tag, three requests of which two run
  at once, two names, two extensions, an imported file with an author's name and
  a cover and one with neither. A race is between two; the third makes what they
  fight over, or looks at what they left. A call fails only of a request that
  runs alone and is the last (`FailsAlone`), which takes every error path once;
  one fault is enough for a purge that leaves links, because `IFile` lets an
  import fail without one. Of the three at most two make a book, and two only
  where the third is about authors and tags (`MakesApart`), which is all that
  books share. The proofs have no such limits.
* `Scanner`: one scan beside two requests that may overlap, of any kind but two
  imports (`OneImport`; a create beside an import makes two books at once too), one
  of which may have a failing call (`OneFailure`). Content does not change in place.
* `Backups`: two backups, at once or one after the other, and one request, four
  seconds and a retention of one, so that the second finds the first expired, or
  not, or has its name.
* `Opds`: three books in pages of one or two, so that a walk has up to three
  pages; three changes, before, in and after the page that is read; an int of
  four bits, whose largest page (7) overflows when it is multiplied. Either the
  shelf or the settings change in one walk (`WalkSpec`): the two concern
  different properties.
* `RateLimit`: two requests at once of two clients, a limit of two in a window of
  two, a wait of one, and three windows, so that one is before and one after the
  one in question.
* `SessionSecret` and `Startup`: three starts: one creates, one loses to it, one
  comes later; two power failures, so that the second may hit what the first
  left; a new database and those of the four earlier releases.
* `Accounts`: three requests (on an old installation two logins and a change of
  the password; two set-ups and a login; a login and two changes of the
  settings, and so on), all three at once if need be, two passwords, two names,
  new and old installations.
* `RestoreScript`: two runs, so that the second works on what the first left,
  one failing command, one kill, two signals (the second may hit the trap).

Requests, runs and starts are told apart by nothing but their arguments, so
they are symmetric, and so are archives in `Backups` and books in `Opds`.
`live`, the run with a liveness property, uses no symmetry. The bounds on
overlaps are bounds of the runs only: the proofs hold for every `Overlap`,
unless section 4 says otherwise. Deadlock is not checked, because clients send
finitely many requests.

### Fairness

Only `live` assumes fairness: weak fairness of each request's `Work`. The Go
scheduler runs every goroutine that is not blocked. A request blocked on the
write lock is disabled in the model, so weak fairness promises it nothing until
the lock is free, and the property is that it becomes free. Where `writer` is
passed on again and again TLC still has to find that the request gets it: with
finitely many requests it does, and in the program the busy timeout ends the
wait with an error otherwise. Clients need not send anything and crashes need
not happen.

## 4. What is proved

Proofs are for every value of the constants under the named `ASSUME`s (`None`
and the sets of names are disjoint, bounds are naturals, `Ops` are operations
of the program). In each case the `*Inv` of the module is the invariant that is
inductive. TLC found it to hold on the small instance before it was proved; those
of `Library`, `Accounts` (`IInv`) and `RestoreScript` (`SwitchInv`) stay in their
runs, as do the types of `Opds`. The other types are proved and not checked again.

* `LibraryProofs`. `UniqueContent` needs `InsertsAlone`: between its insert and
  its commit AddFile holds the write lock and nobody has its content.
  `FilesKept` needs `SlotsFit`, a slot in the trash is used only for the book
  whose Delete made it, and `FilesLocated`, which says of the file a transaction
  is about to commit what `FilesKept` says of the rows, and excludes books that
  a failed Create or Import removes. `NoEarlyRow` keeps a row from existing
  before its commit; `Shapes` ties arguments to steps. `UploadKept` rests on
  `RowKept` (the only deletions of rows of files are DeleteFile's, of the file it
  names, and the purge of an import, of its own book), on `Lasting` (a book
  without a row is not born, or was taken back by its Create or Import), and on
  `FilesKept`: what a row of an accepted book names is somewhere.

  `Orderly` is invariant too, whatever overlaps, fails and crashes: a book has a
  row only once its request got to it, its files are in its own directories, and
  those directories are there (`FilesKeepToTheirBooks`). `Ordered` needs
  `DeletesApart`: a Delete runs beside nothing but updates and deletes, a Restore
  not beside a DeleteFile. A Delete then finds the book as it left it when it
  takes its move back, and so does a Restore.

  `Consistent` and `JobsTruthful` are proved from two hypotheses, because both
  are false without them (section 6). `Agreeable` says which operations run at
  once: each pair in a set of `Overlap` is in `Beside`, which has the pairs of
  `overlaps`. `Calm` says what does not fail: no crash, one call of
  a request, none of an import (a failing purge leaves what it was to remove), and
  none of a Create whose book another request asks for. The invariant is
  `Settling` on top of `Orderly` and `Ordered`. It says, request by request, which
  of them accounts for a book directory that has no row, or a row that has no
  directory (`Shelved`), for a slot (`Binned`), for a file without a row or a
  row without a file (`Filed`), and for a job that is behind (`Recorded`); that a
  request which writes holds a book that stays active (`Held`); and that one
  which takes something back has had its failure (`Quiet`), so that the taking
  back succeeds. When nothing runs, nobody accounts for anything, and what is
  left is `Consistent`.
* `StartupProofs`, the secret. `CreatedLasts` (a secret reported as created is synced
  under its name) is part of the invariant, with `LinkedWhole` (only a synced
  file is linked), `Progress` and `Sourced`. `KeepsPromise` is the refinement:
  each step of the detailed module, kills and power failures included, is a step
  of `OneSecret` or a stutter. A secret that was linked and not yet synced may be
  lost in a power failure and another chosen; then no server runs with it any
  more, which is what `OneSecret` asks.
* `AccountsProofs`. `OneAdmin` and `Initialised` rest on `Installed`: the
  transaction of Initialize inserts the settings row, whose key is fixed, with
  the user, so the second of two fails as a whole. `SettingsSound` rests on
  `Drafts`: a settings row a request is about to save was validated against a
  row whose hash, once set, is never cleared. `SessionsCurrent` is proved for every
  overlap: `SessionsInv` says that a login between the comparison and its session
  compared with the password of now, or is in `overtaken` (`Compared`), and that a
  session, expired or not, is of the password of now or of such a login.
* `DetailsProofs`. `LinksResolve` is inductive by itself, because the checks and
  the links are one transaction, and the deletion of an author and of its links
  another. `LinksOwned` needs when a new book's row is there (`Births`), that two
  requests that run at once know it (`Meetings`), that an Update in flight works
  on a book that is there or excused (`Aims`), and what an import that purges has
  unlinked so far, if its calls succeeded (`Sweeps`). `CoverThere` needs `Images`: between the opening of
  a cover and its record nobody removes the file, as long as no call fails.

  `Current` is inductive on top of these. `MetadataCurrent` is `Texts` when
  nobody writes: as long as the title of a book is that of a request that had
  the book to itself, nobody else is writing a title, whoever
  reads the book reads the title and the links of now, and whoever writes finds
  the file empty; the file has them, or that request, or an AddFile that has
  truncated it, has still to write. Only AddFiles that cross find what the other
  wrote (`Crossing`). `CoverCurrent`
  is `Covers` when nobody writes: the cover recorded last is in its file, or
  another request has that file open; `Takes` is what a request that has the book
  to itself finds in between. `AuthorsShared` is `Makers`: of two imports that
  made authors of one name, each has met the other (`met`).
* `OpdsProofs`. `WalkInv` says that a request is admitted by the row it has read
  (`Verdict(row, asks)`), which no other settings follow under one number, and
  that the link of a page leads to what that row admits. `ListedBySecure` and
  `Followable` follow.

  `ReadInv` counts, for a shelf of any size, any page size and any number of
  changes. `Missed`: of what was there all the time and stands where the pages so
  far have been, no more is missing from them than entries went or moved, or came
  between Count and Find. `Repeated`: what is on pages read and on pages to come
  is no more than entries came or moved. `Failed` says where an offset beyond the
  listing comes from. Each change moves each of these sets by at most one, which
  is what the lemmas about `InsertAt` and `RemoveAt` are for; `Pages` says that a
  walk from the first page never has an offset that is not an int.
* `RateLimitProofs`. The invariant splits the requests let pass into those
  counted in the open window, those in the one before (at most `Limit`), and
  earlier ones, and bounds the times of each; the clock a request read is at
  most `Delay` old.
* `StartupProofs`, the whole start. `Recorded` needs `Locked` (the
  write lock is held from the insert to the commit, on the last state) and `Come`
  (versions are taken in order). `OneGoesOn` needs `OneLeads`: when a start has
  failed, or has read what is no longer so and will fail, there is one that goes
  on, or was killed. `MainKeepsPromise` carries the refinement of `OneSecret`
  over to the whole start: the steps at the database are stutters of it, and a
  database that cannot be migrated stops the server.
* `RestoreScriptProofs`. `NothingLost` rests on `Packed` (the safety archive
  packs what was moved aside) and `Ahead` (before `save` nothing was moved).
  `Rollback` is proved for at most one failing command (`MaxFaults <= 1`, the
  move back being one), from `SwitchInv`, which is proved with it: `Switch` says
  for each place of the script, the trap included, whether the data directory is
  untouched, away, or new.
* `ReadersProofs`, backups. The invariant of `Library` is shown to hold beside backups,
  and with it the types of both, whatever overlaps. `Retained` is proved for
  backups that overlap in any way, beside any requests: `EntriesOwned` makes an
  archive that of its name, so that where no two have one name (`Namesake`) what a
  backup opens, sums and records is its own; `Summed` carries its checksum to its
  record, `OldOnly` keeps prune to what is too old. `SnapshotArchived` is proved
  where clients delete nothing (a delete between snapshot and walk breaks it):
  `InPlace` keeps files in the directories of their books, `SnapKept` the rows of
  a snapshot, but for books that are being undone (`Doomed`), and `WalkCovers` says
  that what is not packed yet is still to come.

* `ReadersProofs`, scans. The types, `Reads` and `Sought` hold beside any requests:
  what has been wrong since the scan began is in the report, or the scan has not
  come to it yet (`NothingMissed`). `NoFalseAlarm` is proved under `DeletesApart`,
  from `Ordered` and `Explained`: whatever is no longer as the scan read it was
  wrong when it became so, or is excepted by name. The hypothesis is
  needed. The run lets any two requests but imports overlap and finds nothing, but with three
  a Delete, an upload that makes the directory again and another Delete, or a
  Restore beside a DeleteFile, make a report that no moment bears out.

Only model-checked: `Answered`, which is liveness, beyond what TLAPS proves here,
as is everything with ENABLED and induction over recursive definitions.

## 5. What the models leave out

* `Library`. The bytes of `metadata.json`, links to authors and tags, titles
  and covers are in `Details`; that `writeMetadata` can fail and undo a Create is
  here as well. AddFile ignores the error of its trailing `writeMetadata`, and so
  does the model. An unsupported format is one of the ways `u_check` refuses.
  DeleteFile is asked with the book the file belongs to. A trashed book
  has a `trash_path`: `RCheck` refuses one without, as the code does, and none is
  ever so. `RemoveAll` is one
  step. Removing one's own temporary file succeeds. A Move is one step after
  its Stat.
* `Details`. The trash (which moves a directory as a whole), `page_count`, and
  what else a book's row has. `books/<id>/` of the other operations is there. A
  call that removes a directory halfway is taken as one that leaves it. The rows
  of files, which the purge deletes first, are in `Library`.
* `Scanner`. The issues about covers, checksums and formats, the count of the
  trash, `ExportManifest`, and two scans at once. A cover saved while the scan
  runs is reported untracked for the reason a `metadata.json` is (section 6): only
  those of the rows read at first are known.
* `Backups`. A file is packed in one step; removing files in prune succeeds;
  `books/` entries other than book files are packed as part of their directory,
  and one that vanishes there counts as one of the failing calls; `manifests/`.
* `Opds`. Root, Book, Cover, Download and OpenSearch are single reads behind the
  same admission; XML, dates and search terms are formatting. A proxy is trusted
  or not; that the server itself never has TLS is so in `cmd/server/main.go`.
* `RateLimit`. The three routes have a map each; a client is an address on one.
* `Startup`. `EnsureExistingInstall` is in `Accounts`.
* `Accounts`. Tokens are random and never guessed. Names and passwords that
  fail validation are refused before any step and not sent.
* `RestoreScript`. Runs do not overlap, `STAMP` and `$$` are new in each, the
  server stays stopped, a signal reaches the shell and not the command it
  waits for.
* `SessionSecret`. Syncing `config/` does not depend on syncing its parent.

## 6. Where the code does not do what its documents say

The run `restore_terminated` ends in a counterexample, and `PROJECT.json` quotes
the document: INT or TERM runs the trap of restore.sh, which removes STAGE and
does not exit; the script makes STAGE again, empty, installs it and reports
success.

Other disagreements the models showed, without a run of their own:

* AddFile has checked its book, Delete moves the directory to the trash, AddFile's
  Move makes `books/<id>` again: Restore fails with "destination already exists"
  from then on.
* ChangePassword accepts the OPDS password, though README.md:59 wants the two to
  differ: Initialize and Update compare them, ChangePassword does not.
* The second backup of one second cannot create its archive and removes the file
  of that name, which is the first one's: `Retained` and `SnapshotArchived` except
  backups that share a name.
* A large page number overflows the offset: a navigation feed panics with a
  negative slice bound, an acquisition feed serves the first page under it.
* Under https_only a PUBLIC_BASE_URL with `http` makes links the server refuses.

What the passing runs leave out on purpose, because the code does not promise
it either:

* A process that ends between Delete's move and its update leaves an active book
  without its directory, and no start repairs it: `Consistent` is checked without
  crashes, `FilesKept` with them.
* A Delete that overlaps a Restore of the same book may leave it active with its
  directory in the trash; a Delete of a book whose Create is still writing
  `metadata.json` may leave a trash slot no row names; an upload or a DeleteFile
  may make the directory of a trashed book again. `overlaps` keeps these apart.
* An import that fails after another client uploaded to its new book deletes that
  upload as well, and so does a Create whose `metadata.json` could not be written:
  it deletes the row of the book and the directory, and leaves the row of the
  uploaded file, which leads nowhere. `UploadKept` excepts both. A purge with a
  failing call leaves rows or the directory behind: no call of an import fails in
  `overlaps`. A job whose process ended stays "processing": nothing looks at it.
* A Login that has compared the old password while a ChangePassword commits
  stores a session that outlives it; `SessionsCurrent` excepts it (`overtaken`).
  Two overlapping `settings.Update` write whole rows over each other, and the last
  one wins; `SettingsSound` says that the row is sound all the same.
* A kill between the two `mv` of restore.sh leaves no data directory, and nothing
  puts one back; `NothingLost` says that what was there is still in OLD.
* A Delete between the snapshot of a backup and its walk leaves an active book in
  the archived database whose files are not in the archive; `backups_pair` has
  creates and uploads only.
* A Create undone because `metadata.json` could not be written deletes the row
  of its book alone, not the links; an Update beside a purge may link the book
  again that the purge has unlinked; and a purge goes on to the row when it could
  not delete the links. `LinksOwned` excepts the three by name.
* Writers of one `metadata.json` overtake each other, and as the file is truncated
  and then written in place, may leave a mix of two texts: `MetadataCurrent` is
  about an Update that ran alone, after whatever did not, and excepts what two
  AddFiles at once make of the file afterwards.
* Two imports at once both find no author of a name and both create one:
  `AuthorsShared` is about imports one after the other. A rename to the name of
  another author is refused, by a check and a statement.
* A saveCover whose record fails removes the file, the old cover's bytes with it:
  `CoverThere` is about runs without a failing call.
* A scan reports files and directories of a book whose Create or Import is being
  undone, and those an upload committed to a book that a failed Delete puts
  back. It also reports as untracked the `metadata.json` of a book that was created
  or restored after it read the books, though Create writes that file after the
  row and it never was untracked (`scanner/service.go:57`, 65-66, 116-118).
  `NoFalseAlarm` excepts the three by name. With three requests that the code lets
  overlap there are more (section 4), which nothing excepts. A scan that fails
  leaves its status at "running".
* A reader misses and repeats entries when the listing changes under it; the
  properties say that each one has a change of its own.
* Around the end of a window twice the limit passes, less a wait for the mutex.

## 7. What is not modelled, and why

* Metadata parser: EPUB, PDF and file-name parsing, pure functions on bytes with
  no state or order; `Library` takes from it that it may fail, `Details` whether
  it tells an author and a cover.
* Configuration: read once; `OPDS_*` reach `Accounts` as the defaults `Boot` may
  find, the trusted networks and the public address reach `Opds`.
* Web server and static files: routing. That `Shutdown` gives handlers ten
  seconds is why `Crash` may come at any step.
* `ExportManifest`: six reads that are no transaction and one file written in
  place, which no other part reads.
* Front end: state of Vue pages in the browser; the server relies on none of it.
* Deployment files and the other scripts: pure I/O around the API.

## 8. Plan

What is left, in this order:

1. `Shelf`, an abstract specification of a library (a book is absent, there or
   in the trash, with a set of files; each operation one atomic step), and
   `Library` without crashes and imports shown to implement it, over the
   committed rows.
2. The manifest, and the issues of a scan about covers.
