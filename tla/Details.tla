------------------------------ MODULE Details ------------------------------
(***************************************************************************)
(* What a book has besides its files: the authors and tags it is linked to *)
(* (internal/catalog and replaceLinks), its cover, and the metadata.json   *)
(* beside it.  Requests run at once; a step is one statement, one          *)
(* transaction or one file system call.                                    *)
(*                                                                         *)
(* A uuid is named after the request that mints it.  The trash moves the   *)
(* directory of a book as a whole and is modelled in Library.              *)
(***************************************************************************)
EXTENDS Naturals, FiniteSets

CONSTANTS
    Seeded,       \* books, authors and tags there are to begin with
    Req,          \* requests, each handled once
    Name,         \* names of authors and tags
    FirstName,    \* the name the seeded ones have
    Ext,          \* extensions of covers
    Imported,     \* what imported files tell: an author's name, a cover
    Ops,          \* the operations clients use
    MaxInFlight,  \* requests that run at once
    MaxFaults,    \* calls that fail
    None          \* no row, no file, no argument

Id     == Seeded \cup Req
Author == {"author"} \X Id
Tag    == {"tag"} \X Id
Term   == Author \cup Tag

BookOps == {"create", "update", "add_file", "cover", "import"}
TermOps == {"create_term", "rename_term", "delete_term"}

ASSUME SeededApart  == Seeded \cap Req = {}
ASSUME DetailOps    == Ops \subseteq BookOps \cup TermOps
ASSUME DetailNames  == FirstName \in Name
ASSUME DetailBounds == MaxInFlight \in Nat /\ MaxFaults \in Nat
ASSUME DetailImports ==
    Imported \subseteq [name : Name \cup {None}, ext : Ext \cup {None}]
ASSUME NoneIsApart  == None \notin Id \cup Name \cup Ext \cup BookOps \cup TermOps

VARIABLES
    pc,       \* pc[r]: the next step of request r, or how it ended
    arg,      \* arg[r]: what it asks for
    read,     \* read[r]: the book writeMetadata has read so far
    authors,  \* authors[r]: the author ids an import has found or made
    row,      \* row[b]: who wrote the title of book b, and its cover_path
    name,     \* name[t]: the row of an author or a tag
    links,    \* the rows of book_authors and book_tags
    folders,  \* the books that have a directory
    meta,     \* meta[b]: the metadata.json of book b
    image,    \* image[b][e]: who wrote the file cover.e of book b
    faults,   \* calls that have failed
    met,      \* history: met[r], the requests about books that ran beside r
    latest,   \* history: latest[b], whose cover was recorded last
    unpurged  \* history: the imports whose links the purge failed to delete

mine    == <<arg, read, authors>>
rows    == <<row, name, links>>
files   == <<folders, meta, image>>
history == <<met, latest, unpurged>>
vars    == <<pc, mine, rows, files, faults, history>>

Row      == [text : Id, cover : Ext \cup {None}]
Metadata == [text : Id, terms : SUBSET Term]

\* A file that is truncated, or that two have written at once.
Torn  == {"empty", "mixed"}
Json  == [text : Id \cup Torn, terms : SUBSET Term]
Empty == [text |-> "empty", terms |-> {}]
Mixed == [text |-> "mixed", terms |-> {}]

ASSUME NoneIsNoRow == None \notin Row \cup Json
ASSUME NoneIsWhole == None \notin Torn
ASSUME TornIsNoId  == Torn \cap Id = {}

Making   == {"k_dir", "k_tx", "k_book", "k_links", "k_open", "k_write", "k_unrow",
             "k_rmdir"}
Editing  == {"e_check", "e_tx", "e_book", "e_links", "e_open", "e_write"}
Adding   == {"a_book", "a_links", "a_open", "a_write"}
Covering == {"v_check", "v_open", "v_write", "v_row", "v_undo"}
Parsing  == {"i_file", "i_find", "i_make"}
Purging  == {"p_authors", "p_tags", "p_row", "p_dir"}
Running  == Making \cup Editing \cup Adding \cup Covering \cup Parsing \cup Purging

InFlight == {r \in Req : pc[r] \in Running}
Settled  == InFlight = {}

There(b)  == row[b] # None
Linked(b) == {t \in Term : <<b, t>> \in links}

-----------------------------------------------------------------------------
At(r, l) == pc[r] = l
Go(r, l) == pc' = [pc EXCEPT ![r] = l] /\ UNCHANGED <<arg, faults, met, unpurged>>

Step(r, l) == Go(r, l) /\ UNCHANGED <<read, authors, rows, files, latest>>

Fail(r, l) ==
    /\ faults < MaxFaults
    /\ faults' = faults + 1
    /\ pc' = [pc EXCEPT ![r] = l]
    /\ UNCHANGED <<mine, rows, files, history>>

Importing(r) == arg[r].op = "import"
Refused(r)   == IF Importing(r) THEN "p_authors" ELSE "error"

\* Service.replaceLinks inside a transaction: every author and tag must exist.
Exist(terms) == \A t \in terms : name[t] # None
ReplaceLinks(b, terms) ==
    links' = {l \in links : l[1] # b} \cup ({b} \X terms)

-----------------------------------------------------------------------------
(* Service.writeMetadata: the row, then the authors and tags, each by a    *)
(* query of its own; then the file is truncated, and written.  Nothing     *)
(* joins these to the transaction before, or keeps another writer out.     *)

ReadBook(r, l, next, failed) ==
    LET b == arg[r].book IN
    /\ At(r, l)
    /\ \/ /\ There(b)
          /\ read' = [read EXCEPT ![r] = [text |-> row[b].text, terms |-> {}]]
          /\ Go(r, next)
          /\ UNCHANGED <<authors, rows, files, latest>>
       \/ ~There(b) /\ Step(r, failed)
       \/ Fail(r, failed)

ReadLinks(r, l, next) ==
    /\ At(r, l)
    /\ read' = [read EXCEPT ![r].terms = Linked(arg[r].book)]
    /\ Go(r, next)
    /\ UNCHANGED <<authors, rows, files, latest>>

\* Mutant: a metadata.json that is there is not written again.
OpenMetadataOnce(r, l, next, failed) ==
    LET b == arg[r].book IN
    /\ At(r, l)
    /\ \/ /\ b \in folders /\ meta[b] = None
          /\ meta' = [meta EXCEPT ![b] = Empty]
          /\ Go(r, next)
          /\ UNCHANGED <<read, authors, rows, folders, image, latest>>
       \/ meta[b] # None /\ Step(r, failed)

OpenMetadata(r, l, next, failed) ==
    LET b == arg[r].book IN
    /\ At(r, l)
    /\ \/ /\ b \in folders
          /\ meta' = [meta EXCEPT ![b] = Empty]
          /\ Go(r, next)
          /\ UNCHANGED <<read, authors, rows, folders, image, latest>>
       \/ b \notin folders /\ Step(r, failed)
       \/ Fail(r, failed)

\* Over what another request has written since, both may show.
Write(found, by) ==
    CASE found = None  -> {None}
      [] found = Empty -> {by}
      [] OTHER         -> {by, Mixed}

WriteMetadata(r, l, next, failed) ==
    LET b == arg[r].book IN
    /\ At(r, l)
    /\ \/ /\ \E m \in Write(meta[b], read[r]) : meta' = [meta EXCEPT ![b] = m]
          /\ read' = [read EXCEPT ![r] = None]
          /\ Go(r, next)
          /\ UNCHANGED <<authors, rows, folders, image, latest>>
       \/ Fail(r, failed)

-----------------------------------------------------------------------------
(* Service.Create.                                                         *)

KDir(r) ==
    /\ At(r, "k_dir")
    /\ folders' = folders \cup {r}
    /\ Go(r, "k_tx")
    /\ UNCHANGED <<read, authors, rows, meta, image, latest>>

KTx(r) ==
    /\ At(r, "k_tx")
    /\ \/ /\ Exist(arg[r].terms)
          /\ row' = [row EXCEPT ![r] = [text |-> r, cover |-> None]]
          /\ ReplaceLinks(r, arg[r].terms)
          /\ Go(r, "k_book")
          /\ UNCHANGED <<read, authors, name, files, latest>>
       \/ ~Exist(arg[r].terms) /\ Step(r, "k_rmdir")
       \/ Fail(r, "k_rmdir")

\* What undoes a request goes on when a call of it fails.
DeleteRow(r, l, next) ==
    /\ At(r, l)
    /\ \/ /\ row' = [row EXCEPT ![r] = None]
          /\ Go(r, next)
          /\ UNCHANGED <<read, authors, name, links, files, latest>>
       \/ Fail(r, next)

\* Removing a directory halfway is taken as not removing it.
RemoveFolder(r, l) ==
    /\ At(r, l)
    /\ \/ /\ folders' = folders \ {r}
          /\ meta' = [meta EXCEPT ![r] = None]
          /\ image' = [image EXCEPT ![r] = [e \in Ext |-> None]]
          /\ Go(r, "error")
          /\ UNCHANGED <<read, authors, rows, latest>>
       \/ Fail(r, "error")

Create(r) ==
    \/ KDir(r) \/ KTx(r)
    \/ ReadBook(r, "k_book", "k_links", "k_unrow")
    \/ ReadLinks(r, "k_links", "k_open")
    \/ OpenMetadata(r, "k_open", "k_write", "k_unrow")
    \/ WriteMetadata(r, "k_write", IF Importing(r) THEN "i_file" ELSE "ok", "k_unrow")
    \/ DeleteRow(r, "k_unrow", "k_rmdir") \/ RemoveFolder(r, "k_rmdir")

-----------------------------------------------------------------------------
(* Service.Update, and what AddFile does once its file is committed.       *)

Check(r, l, next) ==
    /\ At(r, l)
    /\ Step(r, IF There(arg[r].book) THEN next ELSE "error")

Terms(r) == arg[r].terms \cup ({"author"} \X authors[r])

ETx(r) ==
    LET b == arg[r].book IN
    /\ At(r, "e_tx")
    /\ \/ /\ Exist(Terms(r))
          /\ row' = IF There(b) THEN [row EXCEPT ![b].text = r] ELSE row
          /\ ReplaceLinks(b, Terms(r))
          /\ authors' = [authors EXCEPT ![r] = {}]
          /\ Go(r, "e_book")
          /\ UNCHANGED <<read, name, files, latest>>
       \/ ~Exist(Terms(r)) /\ Step(r, Refused(r))
       \/ Fail(r, Refused(r))

\* Import goes on to the page count, which may fail, and to the cover.
AfterUpdate(r) ==
    IF ~Importing(r) THEN {"ok"}
    ELSE {IF arg[r].ext = None THEN "ok" ELSE "v_open", "p_authors"}

Update(r) ==
    \/ Check(r, "e_check", "e_tx")
    \/ ETx(r)
    \/ ReadBook(r, "e_book", "e_links", Refused(r))
    \/ ReadLinks(r, "e_links", "e_open")
    \/ OpenMetadata(r, "e_open", "e_write", Refused(r))
    \/ \E l \in AfterUpdate(r) : WriteMetadata(r, "e_write", l, Refused(r))

AddFile(r) ==
    LET next == IF Importing(r) THEN "i_find" ELSE "ok" IN
    \/ ReadBook(r, "a_book", "a_links", next)
    \/ ReadLinks(r, "a_links", "a_open")
    \/ OpenMetadata(r, "a_open", "a_write", next)
    \/ WriteMetadata(r, "a_write", next, next)

-----------------------------------------------------------------------------
(* Service.saveCover: the file is truncated, written, and recorded; when   *)
(* it cannot be recorded it is removed, whoever has written it since.      *)

SetImage(r, by) == image' = [image EXCEPT ![arg[r].book][arg[r].ext] = by]

VOpen(r) ==
    /\ At(r, "v_open")
    /\ \/ /\ arg[r].book \in folders
          /\ SetImage(r, "empty")
          /\ Go(r, "v_write")
          /\ UNCHANGED <<read, authors, rows, folders, meta, latest>>
       \/ arg[r].book \notin folders /\ Step(r, Refused(r))

\* Over what another request has written since, both may show.
VWrite(r) ==
    LET found == image[arg[r].book][arg[r].ext] IN
    /\ At(r, "v_write")
    /\ \/ /\ \/ found = None /\ UNCHANGED image
             \/ found # None /\ SetImage(r, r)
             \/ found \notin {None, "empty"} /\ SetImage(r, "mixed")
          /\ Go(r, "v_row")
          /\ UNCHANGED <<read, authors, rows, folders, meta, latest>>
       \/ Fail(r, Refused(r))

\* Mutant: a book keeps the cover_path it has.
VRowFirst(r) ==
    LET b == arg[r].book IN
    /\ At(r, "v_row")
    /\ row' = IF There(b) /\ row[b].cover = None
              THEN [row EXCEPT ![b].cover = arg[r].ext] ELSE row
    /\ latest' = [latest EXCEPT ![b] = r]
    /\ Go(r, "ok")
    /\ UNCHANGED <<read, authors, name, links, files>>

\* Mutant: covers with other extensions are removed.
VRowCleaning(r) ==
    LET b == arg[r].book IN
    /\ At(r, "v_row")
    /\ row' = IF There(b) THEN [row EXCEPT ![b].cover = arg[r].ext] ELSE row
    /\ image' = [image EXCEPT ![b] =
                    [e \in Ext |-> IF e = arg[r].ext THEN @[e] ELSE None]]
    /\ latest' = [latest EXCEPT ![b] = r]
    /\ Go(r, "ok")
    /\ UNCHANGED <<read, authors, name, links, folders, meta>>

VRow(r) ==
    LET b == arg[r].book IN
    /\ At(r, "v_row")
    /\ \/ /\ row' = IF There(b) THEN [row EXCEPT ![b].cover = arg[r].ext] ELSE row
          /\ latest' = [latest EXCEPT ![b] = r]
          /\ Go(r, "ok")
          /\ UNCHANGED <<read, authors, name, links, files>>
       \/ Fail(r, "v_undo")

VUndo(r) ==
    /\ At(r, "v_undo")
    /\ \/ /\ SetImage(r, None)
          /\ Go(r, Refused(r))
          /\ UNCHANGED <<read, authors, rows, folders, meta, latest>>
       \/ Fail(r, Refused(r))

SetCover(r) ==
    Check(r, "v_check", "v_open") \/ VOpen(r) \/ VWrite(r) \/ VRow(r) \/ VUndo(r)

-----------------------------------------------------------------------------
(* Service.Import around Create, AddFile, Update and saveCover.            *)

\* The file is refused, or cannot be parsed, or is not an EPUB or a PDF.
IFile(r) == At(r, "i_file") /\ \E l \in {"a_book", "p_authors"} : Step(r, l)

NamedBy(n) == {a \in Id : name[<<"author", a>>] = n}

\* Mutant: authors are not looked up.
IFindNever(r) ==
    /\ At(r, "i_find")
    /\ authors' = [authors EXCEPT ![r] = {r}]
    /\ name' = [name EXCEPT ![<<"author", r>>] = arg[r].name]
    /\ Go(r, "e_tx")
    /\ UNCHANGED <<read, row, links, files, latest>>

\* First by name finds any of that name; when there is none, the author is
\* created, by a statement of its own.
IFind(r) ==
    /\ At(r, "i_find")
    /\ \/ arg[r].name = None /\ Step(r, "e_tx")
       \/ \E a \in NamedBy(arg[r].name) :
            /\ authors' = [authors EXCEPT ![r] = {a}]
            /\ Go(r, "e_tx")
            /\ UNCHANGED <<read, rows, files, latest>>
       \/ arg[r].name # None /\ NamedBy(arg[r].name) = {} /\ Step(r, "i_make")

IMake(r) ==
    /\ At(r, "i_make")
    /\ \/ /\ authors' = [authors EXCEPT ![r] = {r}]
          /\ name' = [name EXCEPT ![<<"author", r>>] = arg[r].name]
          /\ Go(r, "e_tx")
          /\ UNCHANGED <<read, row, links, files, latest>>
       \/ Fail(r, "p_authors")

\* Mutant: the links of the authors are left.
PAuthorsKept(r) == At(r, "p_authors") /\ Step(r, "p_tags")

Unlink(r, l, kind, next) ==
    /\ At(r, l)
    /\ UNCHANGED <<mine, row, name, files, met, latest>>
    /\ pc' = [pc EXCEPT ![r] = next]
    /\ \/ /\ links' = {k \in links : k[1] # r \/ k[2][1] # kind}
          /\ UNCHANGED <<faults, unpurged>>
       \/ /\ faults < MaxFaults
          /\ faults' = faults + 1
          /\ unpurged' = unpurged \cup {r}
          /\ UNCHANGED links

PAuthors(r) == Unlink(r, "p_authors", "author", "p_tags")
PTags(r)    == Unlink(r, "p_tags", "tag", "p_row")

Import(r) ==
    \/ IFile(r) \/ IFind(r) \/ IMake(r) \/ PAuthors(r) \/ PTags(r)
    \/ DeleteRow(r, "p_row", "p_dir") \/ RemoveFolder(r, "p_dir")

-----------------------------------------------------------------------------
(* internal/catalog: each handler is one statement or one transaction.     *)

NoArg == [op |-> None, book |-> None, terms |-> {}, name |-> None, ext |-> None]

Answer(r, o, l) ==
    /\ At(r, "idle")
    /\ o \in Ops
    /\ arg' = [arg EXCEPT ![r].op = o]
    /\ pc' = [pc EXCEPT ![r] = l]
    /\ UNCHANGED <<read, authors, row, files, faults, history>>

\* Tag names are unique, author names are not.
Taken(t, n) == t \in Tag /\ \E u \in Tag \ {t} : name[u] = n

CreateTerm(r) ==
    \E kind \in {"author", "tag"}, n \in Name :
        LET t == <<kind, r>> IN
        /\ UNCHANGED links
        /\ IF Taken(t, n)
           THEN Answer(r, "create_term", "error") /\ UNCHANGED name
           ELSE Answer(r, "create_term", "ok") /\ name' = [name EXCEPT ![t] = n]

RenameTerm(r) ==
    \E t \in Term, n \in Name :
        /\ UNCHANGED links
        /\ IF name[t] = None \/ Taken(t, n)
           THEN Answer(r, "rename_term", "error") /\ UNCHANGED name
           ELSE Answer(r, "rename_term", "ok") /\ name' = [name EXCEPT ![t] = n]

\* Mutant: only the row of the author or tag is deleted.
DeleteTermRow(r) ==
    \E t \in Term :
        /\ name[t] # None
        /\ Answer(r, "delete_term", "ok")
        /\ name' = [name EXCEPT ![t] = None]
        /\ UNCHANGED links

DeleteTerm(r) ==
    \E t \in Term :
        IF name[t] = None
        THEN Answer(r, "delete_term", "error") /\ UNCHANGED <<name, links>>
        ELSE /\ Answer(r, "delete_term", "ok")
             /\ name' = [name EXCEPT ![t] = None]
             /\ links' = {l \in links : l[2] # t}

-----------------------------------------------------------------------------
FirstStep ==
    [o \in BookOps |->
        CASE o \in {"create", "import"} -> "k_dir"
          [] o = "update"               -> "e_check"
          [] o = "add_file"             -> "a_book"
          [] o = "cover"                -> "v_check"]

\* Clients name what a listing has shown them.
Shown == {t \in Term : name[t] # None}
OneOf(S) == {{}} \cup {{x} : x \in S}

Asks(r, o) ==
    LET A(b, T, n, e) == [op |-> o, book |-> b, terms |-> T, name |-> n, ext |-> e]
        B == {b \in Id : There(b)}
    IN CASE o = "create"   -> {A(r, T, None, None) : T \in OneOf(Shown)}
         [] o = "update"   -> {A(b, T, None, None) : b \in B, T \in OneOf(Shown)}
         [] o = "add_file" -> {A(b, {}, None, None) : b \in B}
         [] o = "cover"    -> {A(b, {}, None, e) : b \in B, e \in Ext}
         [] o = "import"   -> {A(r, {}, i.name, i.ext) : i \in Imported}

Meet(r) ==
    met' = [q \in Req |-> IF q = r THEN InFlight
                          ELSE IF q \in InFlight THEN met[q] \cup {r} ELSE met[q]]

Start(r) ==
    /\ At(r, "idle")
    /\ Cardinality(InFlight) < MaxInFlight
    /\ \E o \in Ops \cap BookOps : \E a \in Asks(r, o) :
          /\ arg' = [arg EXCEPT ![r] = a]
          /\ pc' = [pc EXCEPT ![r] = FirstStep[o]]
    /\ Meet(r)
    /\ UNCHANGED <<read, authors, rows, files, faults, latest, unpurged>>

Init ==
    /\ pc = [r \in Req |-> "idle"]
    /\ arg = [r \in Req |-> NoArg]
    /\ read = [r \in Req |-> None]
    /\ authors = [r \in Req |-> {}]
    /\ row = [b \in Id |-> IF b \in Seeded THEN [text |-> b, cover |-> None] ELSE None]
    /\ name = [t \in Term |-> IF t[2] \in Seeded THEN FirstName ELSE None]
    /\ links = {}
    /\ folders = Seeded
    /\ meta = [b \in Id |-> IF b \in Seeded THEN [text |-> b, terms |-> {}] ELSE None]
    /\ image = [b \in Id |-> [e \in Ext |-> None]]
    /\ faults = 0
    /\ met = [r \in Req |-> {}]
    /\ latest = [b \in Id |-> None]
    /\ unpurged = {}

Next ==
    \E r \in Req :
        \/ Start(r) \/ Create(r) \/ Update(r) \/ AddFile(r) \/ SetCover(r)
        \/ Import(r) \/ CreateTerm(r) \/ RenameTerm(r) \/ DeleteTerm(r)

Spec == Init /\ [][Next]_vars

-----------------------------------------------------------------------------
\* Every variable has its type.
TypeOK ==
    /\ pc \in [Req -> Running \cup {"idle", "ok", "error"}]
    /\ read \in [Req -> Metadata \cup {None}]
    /\ authors \in [Req -> SUBSET Id]
    /\ row \in [Id -> Row \cup {None}]
    /\ name \in [Term -> Name \cup {None}]
    /\ links \subseteq Id \X Term
    /\ folders \subseteq Id
    /\ meta \in [Id -> Json \cup {None}]
    /\ image \in [Id -> [Ext -> Req \cup Torn \cup {None}]]
    /\ faults \in 0..MaxFaults
    /\ met \in [Req -> SUBSET Req]
    /\ latest \in [Id -> Req \cup {None}]
    /\ unpurged \subseteq Req

\* No link leads to an author or a tag that is gone, however deletions race
\* with the transactions that check and write links.
LinksResolve == \A l \in links : name[l[2]] # None

\* No link is left of a book that is gone, but for three ways the code has to
\* leave some: a Create undone because metadata.json could not be written
\* deletes the book's row alone; an Update of a book that an import is purging
\* may link it again after the purge has unlinked it; and the purge deletes the
\* row even when it could not delete the links.
UndoneCreate(b)  == arg[b].op = "create" /\ pc[b] \in {"k_rmdir", "error"}
PurgedBeside(b)  == Importing(b) /\ \E q \in met[b] : arg[q].op = "update" /\ arg[q].book = b
Excused(b)  == b \in Req /\ (UndoneCreate(b) \/ PurgedBeside(b) \/ b \in unpurged)
LinksOwned  == \A l \in links : There(l[1]) \/ Excused(l[1])

\* Nobody else had the same book in hand while r ran.
Alone(r) == \A q \in met[r] : arg[q].book # arg[r].book

\* Two AddFiles of a book ran at once.
Adds(r, b)  == arg[r].op = "add_file" /\ arg[r].book = b
Crossing(b) == \E r, q \in Req : q \in met[r] /\ Adds(r, b) /\ Adds(q, b)

\* Once the last Update of a book to commit ran alone on it, its metadata.json
\* is whole and of the last title, with every author and tag the book still
\* has: the race of two earlier writers does not outlive it.  Only two AddFiles
\* at once can leave the texts of both in it, as nothing excludes them.
Tells(b, w) == meta[b] # None /\ meta[b].text = w /\ Linked(b) \subseteq meta[b].terms
MetadataCurrent ==
    Settled /\ faults = 0 =>
        \A b \in Id : There(b) =>
            LET w == row[b].text IN
            w \in Seeded \/ Alone(w) => Tells(b, w) \/ (meta[b] = Mixed /\ Crossing(b))

\* Unless a call fails, a recorded cover has its file, whatever other covers
\* are set, imported or purged meanwhile.
CoverThere ==
    faults = 0 =>
        \A b \in Id : There(b) /\ row[b].cover # None => image[b][row[b].cover] # None

\* The cover a book serves is the one recorded last, whole, when that request
\* ran alone on the book.
CoverCurrent ==
    Settled /\ faults = 0 =>
        \A b \in Id :
            There(b) /\ latest[b] # None /\ Alone(latest[b]) =>
                row[b].cover # None /\ image[b][row[b].cover] = latest[b]

\* Two imports that did not run at once share an author of the same name.
AuthorsShared ==
    \A r, q \in Req :
        /\ r # q /\ Importing(r) /\ Importing(q)
        /\ name[<<"author", r>>] # None
        /\ name[<<"author", r>>] = name[<<"author", q>>]
        => q \in met[r] \/ \E x \in Req : arg[x].op = "rename_term"

-----------------------------------------------------------------------------
(* The inductive invariant.                                                *)

Arg == [op : BookOps \cup TermOps \cup {None}, book : Id \cup {None},
        terms : SUBSET Term, name : Name \cup {None}, ext : Ext \cup {None}]

StepsOf(o) ==
    CASE o = "create"   -> Making
      [] o = "update"   -> Editing
      [] o = "add_file" -> Adding
      [] o = "cover"    -> Covering
      [] o = "import"   -> Running
      [] OTHER          -> {}

Writing == {"k_open", "k_write", "e_open", "e_write", "a_open", "a_write"}
Reading == {"k_links", "e_links", "a_links"} \cup Writing

\* Each operation keeps to its steps, with the arguments they need.
Shaped(r) ==
    /\ pc[r] \in Running => pc[r] \in StepsOf(arg[r].op)
    /\ pc[r] = "idle" => arg[r] = NoArg
    /\ arg[r].op \in {"create", "import"} => arg[r].book = r
    /\ arg[r].op \in {"update", "add_file", "cover"} => arg[r].book \in Id
    /\ Importing(r) => arg[r].terms = {}
    /\ pc[r] = "i_make" => arg[r].name # None
    /\ pc[r] \in Covering => arg[r].ext # None
    /\ pc[r] \in Reading => read[r] # None
    /\ pc[r] = "v_undo" => faults > 0
Shapes == arg \in [Req -> Arg] /\ \A r \in Req : Shaped(r)

Before == {"idle", "k_dir", "k_tx"}
After  == {"k_rmdir", "p_dir"}

\* The row of a new book lives from k_tx to the end of what undoes it, and
\* nobody else has the book in hand before.
Born(b) ==
    /\ pc[b] \in Before \/ (pc[b] \in After /\ faults = 0) => ~There(b)
    /\ pc[b] \in Before => \A r \in Req \ {b} : arg[r].book # b
    /\ arg[b].op \in {"create", "import"} /\ pc[b] \in Running \ (Before \cup After) =>
          There(b)
Births == \A b \in Req : Born(b)

\* Requests that run at once know it.
Meetings == \A r, q \in InFlight : r # q => q \in met[r]

\* An Update works on a book that is there, or that was taken from under it.
Aims ==
    \A r \in InFlight :
        arg[r].op = "update" => There(arg[r].book) \/ Excused(arg[r].book)

\* What an import has unlinked stays so, unless an Update beside it links it.
Unlinked(b, t) ==
    pc[b] \in Making \/ pc[b] = "p_row" \/ (pc[b] = "p_tags" /\ t \in Author)
Sweeps ==
    \A l \in links :
        l[1] \in Req /\ Importing(l[1]) /\ Unlinked(l[1], l[2]) =>
            PurgedBeside(l[1]) \/ l[1] \in unpurged

\* A cover that is about to be recorded has its file.
Images ==
    \A r \in Req :
        pc[r] \in {"v_write", "v_row"} /\ faults = 0 /\ There(arg[r].book) =>
            image[arg[r].book][arg[r].ext] # None

IInv ==
    /\ TypeOK /\ Shapes /\ Births /\ Meetings /\ Aims /\ Sweeps /\ Images
    /\ LinksResolve /\ LinksOwned /\ CoverThere

-----------------------------------------------------------------------------
(* The inductive invariant of what is current, on top of IInv.             *)

\* Requests meet only those that have begun.
Met ==
    \A r \in Req :
        /\ pc[r] = "idle" => met[r] = {}
        /\ \A q \in met[r] : pc[q] # "idle"

\* A book that is there, or is about to be, has its directory.
Folders ==
    faults = 0 =>
        \A b \in Id : There(b) \/ (b \in Req /\ pc[b] = "k_tx") => b \in folders

Telling == {"k_book", "k_links", "k_open", "k_write",
            "e_book", "e_links", "e_open", "e_write"}

\* While the last title is that of a request that had the book to itself, no
\* other is writing one; whoever reads the book reads that title and the links
\* of now, and finds metadata.json empty, unless AddFiles cross; and the file
\* has them too, or somebody has still to write them.
Fresh(b, w) ==
    /\ \A r \in Req :
          arg[r].book = b /\ (pc[r] \in Telling \/ (pc[r] \in Running /\ Importing(r)))
          => r = w
    /\ \A r \in Req : pc[r] \in Reading /\ arg[r].book = b =>
          /\ read[r].text = w
          /\ pc[r] \in Writing => Linked(b) \subseteq read[r].terms
          /\ pc[r] \in {"k_write", "e_write"} => meta[b] = Empty
          /\ pc[r] = "a_write" => meta[b] = Empty \/ Crossing(b)
    /\ \/ w \in Req /\ pc[w] \in Telling
       \/ Tells(b, w)
       \/ meta[b] = Empty /\ \E r \in Req : pc[r] = "a_write" /\ arg[r].book = b
       \/ meta[b] = Mixed /\ Crossing(b)
Told(b) ==
    LET w == row[b].text IN
    /\ w \in Req => arg[w].book = b /\ pc[w] # "idle"
    /\ faults = 0 /\ (w \in Seeded \/ Alone(w)) => Fresh(b, w)
Texts == \A b \in Id : There(b) => Told(b)

\* A request that has the book to itself finds its cover as it left it.
Takes ==
    \A r \in Req :
        pc[r] \in {"v_write", "v_row"} /\ faults = 0 /\ There(arg[r].book) /\ Alone(r) =>
            image[arg[r].book][arg[r].ext] = IF pc[r] = "v_write" THEN "empty" ELSE r

\* The cover recorded last is the one in the file, or another request is
\* writing that file.
Replacing(b, e) ==
    \E r \in Req : pc[r] \in {"v_write", "v_row"} /\ arg[r].book = b /\ arg[r].ext = e
Serves(b, q) ==
    /\ pc[q] = "ok" /\ arg[q].book = b /\ arg[q].ext # None
    /\ faults = 0 /\ There(b) /\ Alone(q) =>
          /\ row[b].cover = arg[q].ext
          /\ image[b][arg[q].ext] = q \/ Replacing(b, arg[q].ext)
Covers == \A b \in Id : latest[b] # None => Serves(b, latest[b])

\* An import makes an author when it has found none of that name, so the other
\* that has made one since ran beside it.
Renamed == \E x \in Req : arg[x].op = "rename_term"
Made(r) == name[<<"author", r>>]
Together(r, q) == q \in met[r] /\ r \in met[q]
Makers ==
    /\ \A r \in Req : pc[r] = "idle" => Made(r) = None
    /\ \A r, q \in Req :
          /\ r # q /\ Importing(r) /\ Importing(q) /\ Made(q) # None /\ ~Renamed
          /\ Made(q) = Made(r) \/ (pc[r] = "i_make" /\ Made(q) = arg[r].name)
          => Together(r, q)

Current == Met /\ Folders /\ Texts /\ Takes /\ Covers /\ Makers
=============================================================================
