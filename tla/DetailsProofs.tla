--------------------------- MODULE DetailsProofs ---------------------------
(***************************************************************************)
(* Links and covers of Details, for any number of requests, authors, tags  *)
(* and failing calls: IInv is inductive, and so is Current beside it.      *)
(***************************************************************************)
EXTENDS Details, TLAPS

USE DEF There, Importing, At, Go, Step, mine, rows, files, history, Torn, Writing

\* Initially there are the seeded books, without links and covers.
LEMMA InitIInv == Init => IInv
<1> SUFFICES ASSUME Init PROVE IInv
  OBVIOUS
<1> USE DEF Init
<1>1. \A r \in Req : pc[r] = "idle" /\ arg[r] = NoArg /\ r \notin Seeded
  BY SeededApart
<1>2. TypeOK
  <2>1. row \in [Id -> Row \cup {None}]
    BY DEF Row, Id
  <2>2. name \in [Term -> Name \cup {None}]
    BY DetailNames
  <2>3. meta \in [Id -> Json \cup {None}]
    BY DEF Json, Id
  <2>4. faults \in 0..MaxFaults
    BY DetailBounds
  <2>5. QED BY <2>1, <2>2, <2>3, <2>4 DEF TypeOK, Id
<1>3. InFlight = {}
  BY <1>1 DEF InFlight, Running, Making, Editing, Adding, Covering, Parsing, Purging
<1>4. Shapes
  <2>1. NoArg \in Arg
    BY DEF NoArg, Arg
  <2>2. ASSUME NEW r \in Req PROVE Shaped(r)
    BY <1>1, <1>3, NoneIsApart
    DEF Shaped, NoArg, InFlight, Covering, Reading, BookOps
  <2>3. QED BY <2>1, <2>2 DEF Shapes
<1>5. Births
  <2> SUFFICES ASSUME NEW b \in Req PROVE Born(b)
    BY DEF Births
  <2>1. ~There(b)
    BY <1>1 DEF Id
  <2>2. \A r \in Req \ {b} : arg[r].book # b
    BY <1>1, NoneIsApart DEF NoArg, Id
  <2>3. pc[b] \notin Running
    BY <1>3 DEF InFlight
  <2>4. QED BY <2>1, <2>2, <2>3 DEF Born
<1>6. Meetings /\ Aims
  BY <1>3 DEF Meetings, Aims
<1>7. Sweeps /\ LinksResolve /\ LinksOwned
  BY DEF Sweeps, LinksResolve, LinksOwned
<1>8. Images
  BY <1>1 DEF Images
<1>9. CoverThere
  <2>1. \A b \in Id : There(b) => row[b].cover = None
    OBVIOUS
  <2>2. QED BY <2>1 DEF CoverThere
<1>10. QED BY <1>2, <1>4, <1>5, <1>6, <1>7, <1>8, <1>9 DEF IInv

-----------------------------------------------------------------------------
\* Which operations have which steps.
LEMMA OpOf ==
  ASSUME Shapes, NEW r \in Req
  PROVE  /\ pc[r] \in Making => arg[r].op \in {"create", "import"}
         /\ pc[r] \in Editing => arg[r].op \in {"update", "import"}
         /\ pc[r] \in Adding => arg[r].op \in {"add_file", "import"}
         /\ pc[r] \in Covering => arg[r].op \in {"cover", "import"}
         /\ pc[r] \in Parsing \cup Purging => arg[r].op = "import"
         /\ pc[r] \in Running => arg[r].book \in Id
         /\ arg[r] \in Arg
  BY DEF Shapes, Shaped, StepsOf, Id,
         Running, Making, Editing, Adding, Covering, Parsing, Purging

\* The steps to which a request may go that touches neither rows nor links.
Allowed(r, l) ==
    /\ pc[r] \in Running
    /\ l \in StepsOf(arg[r].op) \cup {"ok", "error"}
    /\ l \in Before => pc[r] \in Before
    /\ l \in After => ~There(r) \/ faults' > 0
    /\ arg[r].op \in {"create", "import"} /\ l \in Running \ (Before \cup After) =>
          There(r)
    /\ l \in Making => pc[r] \in Making
    /\ l \notin {"p_tags", "p_row"}
    /\ pc[r] \in After => l = "error"
    /\ l = "i_make" => arg[r].name # None
    /\ l \in Covering => arg[r].ext # None

\* A step that touches no links, and neither adds nor deletes a book.
LEMMA Quiet ==
  ASSUME IInv, NEW r \in Req, NEW l, Allowed(r, l),
         pc' = [pc EXCEPT ![r] = l], UNCHANGED <<arg, met, unpurged, links>>,
         \A b \in Id : row'[b] # None <=> There(b),
         \A t \in Term : name[t] # None => name'[t] # None,
         faults' \in Nat, faults' >= faults, l = "v_undo" => faults' > 0,
         l \in Reading => read'[r] # None, \A q \in Req \ {r} : read'[q] = read[q]
  PROVE  /\ Shapes' /\ Births' /\ Meetings' /\ Aims' /\ Sweeps'
         /\ LinksResolve' /\ LinksOwned'
<1>1. pc \in [Req -> Running \cup {"idle", "ok", "error"}] /\ faults \in Nat
  BY DetailBounds DEF IInv, TypeOK
<1>2. /\ pc'[r] = l
      /\ \A q \in Req \ {r} : pc'[q] = pc[q]
  BY <1>1
<1>3. {"ok", "error"} \cap (Running \cup Before \cup After) = {}
  BY DEF Before, After, Running, Making, Editing, Adding, Covering, Parsing, Purging
<1>4. Making \subseteq Running /\ Covering \subseteq Running /\ "idle" \notin Running
      /\ {"i_make", "v_undo"} \subseteq Running /\ Reading \subseteq Running
      /\ \A o : StepsOf(o) \subseteq Running
  BY DEF StepsOf, Reading,
         Running, Making, Editing, Adding, Covering, Parsing, Purging
<1>5. InFlight' \subseteq InFlight
  BY <1>1, <1>2 DEF InFlight, Allowed
<1>6. \A b : Excused(b) => Excused(b)'
  <2>1. \A b \in Req : pc[b] \in After \cup {"error"} => pc'[b] \in {"k_rmdir", "error"} \/ b # r
    BY <1>2, <1>3 DEF Allowed
  <2>2. QED BY <2>1, <1>2 DEF Excused, UndoneCreate, PurgedBeside, After, Allowed
<1>7. Shapes'
  <2>1. arg' \in [Req -> Arg]
    BY DEF IInv, Shapes
  <2>2. ASSUME NEW q \in Req PROVE Shaped(q)'
    <3>1. Shaped(q)
      BY DEF IInv, Shapes
    <3>2. CASE q # r
      <4>1. pc'[q] = pc[q] /\ read'[q] = read[q]
        BY <3>2, <1>2
      <4>2. QED BY <3>1, <4>1, <1>1 DEF Shaped
    <3>3. CASE q = r
      <4>1. l \in Running => l \in StepsOf(arg[r].op)
        BY <1>3 DEF Allowed
      <4>2. l # "idle"
        BY <1>4 DEF Allowed
      <4>3. QED BY <3>1, <3>3, <4>1, <4>2, <1>2 DEF Shaped, Allowed
    <3>4. QED BY <3>2, <3>3
  <2>3. QED BY <2>1, <2>2 DEF Shapes
<1>8. Births'
  <2> SUFFICES ASSUME NEW b \in Req PROVE Born(b)'
    BY DEF Births
  <2>1. Born(b) /\ (row'[b] # None <=> There(b))
    BY DEF IInv, Births, Id
  <2>2. CASE b # r
    BY <2>1, <2>2, <1>1, <1>2 DEF Born
  <2>3. CASE b = r
    BY <2>1, <2>3, <1>2, <1>3 DEF Born, Allowed, Before, After
  <2>4. QED BY <2>2, <2>3
<1>9. Meetings'
  BY <1>5 DEF IInv, Meetings
<1>10. Aims'
  <2> SUFFICES ASSUME NEW q \in InFlight', arg[q].op = "update"
               PROVE  There(arg[q].book)' \/ Excused(arg[q].book)'
    BY DEF Aims
  <2>1. q \in InFlight /\ arg[q].book \in Id
    BY <1>5 DEF IInv, Shapes, Shaped, InFlight
  <2>2. QED BY <2>1, <1>6 DEF IInv, Aims
<1>11. Sweeps'
  <2> SUFFICES ASSUME NEW k \in links, k[1] \in Req, Importing(k[1]),
                      Unlinked(k[1], k[2])'
               PROVE  PurgedBeside(k[1])' \/ k[1] \in unpurged'
    BY DEF Sweeps
  <2>1. Unlinked(k[1], k[2])
    BY <1>2 DEF Unlinked, Allowed
  <2>2. PurgedBeside(k[1]) \/ k[1] \in unpurged
    BY <2>1 DEF IInv, Sweeps
  <2>3. QED BY <2>2 DEF PurgedBeside
<1>12. LinksResolve'
  BY DEF IInv, LinksResolve, TypeOK
<1>13. LinksOwned'
  <2> SUFFICES ASSUME NEW k \in links PROVE There(k[1])' \/ Excused(k[1])'
    BY DEF LinksOwned, Excused
  <2>1. k[1] \in Id /\ (There(k[1]) \/ Excused(k[1]))
    BY DEF IInv, TypeOK, LinksOwned, Excused
  <2>2. QED BY <2>1, <1>6
<1>14. QED BY <1>7, <1>8, <1>9, <1>10, <1>11, <1>12, <1>13

\* A step that takes no cover away from a book that is there.
LEMMA Pictures ==
  ASSUME IInv, NEW r \in Req, NEW l,
         pc' = [pc EXCEPT ![r] = l], UNCHANGED <<arg, row>>,
         faults' \in Nat, faults' >= faults,
         \A b \in Id, e \in Ext :
            There(b) /\ faults' = 0 /\ image[b][e] # None => image'[b][e] # None,
         l \in {"v_write", "v_row"} /\ faults' = 0 /\ There(arg[r].book) =>
            image'[arg[r].book][arg[r].ext] # None
  PROVE  Images' /\ CoverThere'
<1>1. /\ pc \in [Req -> Running \cup {"idle", "ok", "error"}] /\ faults \in Nat
      /\ row \in [Id -> Row \cup {None}]
  BY DetailBounds DEF IInv, TypeOK
<1>2. faults' = 0 => faults = 0
  BY <1>1
<1>3. Images'
  <2> SUFFICES ASSUME NEW q \in Req, pc'[q] \in {"v_write", "v_row"}, faults' = 0,
                      There(arg[q].book)
               PROVE  image'[arg[q].book][arg[q].ext] # None
    BY DEF Images
  <2>1. CASE q = r
    BY <2>1, <1>1
  <2>2. CASE q # r
    <3>1. pc[q] \in {"v_write", "v_row"}
      BY <2>2, <1>1
    <3>2. arg[q].book \in Id /\ arg[q].ext \in Ext
      BY <3>1, OpOf DEF IInv, Shapes, Shaped, Arg, Running, Covering
    <3>3. QED BY <3>1, <3>2, <1>2 DEF IInv, Images
  <2>3. QED BY <2>1, <2>2
<1>4. CoverThere'
  <2> SUFFICES ASSUME NEW b \in Id, There(b), row[b].cover # None, faults' = 0
               PROVE  image'[b][row[b].cover] # None
    BY DEF CoverThere
  <2>1. row[b].cover \in Ext
    BY <1>1 DEF Row
  <2>2. QED BY <2>1, <1>2 DEF IInv, CoverThere
<1>5. QED BY <1>3, <1>4

\* A quiet step that keeps the invariant's types and covers.
LEMMA InvQuiet ==
  ASSUME IInv, NEW r \in Req, NEW l, Allowed(r, l), TypeOK',
         pc' = [pc EXCEPT ![r] = l], UNCHANGED <<arg, met, unpurged, rows>>,
         faults' \in Nat, faults' >= faults, l = "v_undo" => faults' > 0,
         l \in Reading => read'[r] # None, \A q \in Req \ {r} : read'[q] = read[q],
         \A b \in Id, e \in Ext :
            There(b) /\ faults' = 0 /\ image[b][e] # None => image'[b][e] # None,
         l \in {"v_write", "v_row"} /\ faults' = 0 /\ There(arg[r].book) =>
            image'[arg[r].book][arg[r].ext] # None
  PROVE  IInv'
<1>1. /\ Shapes' /\ Births' /\ Meetings' /\ Aims' /\ Sweeps'
      /\ LinksResolve' /\ LinksOwned'
  BY Quiet
<1>2. Images' /\ CoverThere'
  BY Pictures
<1>3. QED BY <1>1, <1>2 DEF IInv

\* A step that only goes on, and a call that fails.
LEMMA InvStep ==
  ASSUME IInv, NEW r \in Req, NEW l, Allowed(r, l), l \in Running \cup {"ok", "error"},
         Step(r, l) \/ Fail(r, l), l \notin {"v_write", "v_row"},
         l \in Reading => pc[r] \in Reading, l = "v_undo" => Fail(r, l)
  PROVE  IInv'
<1> USE DEF Fail
<1>1. TypeOK'
  BY DetailBounds DEF IInv, TypeOK
<1>2. faults \in Nat
  BY DetailBounds DEF IInv, TypeOK
<1>3. /\ pc' = [pc EXCEPT ![r] = l] /\ UNCHANGED <<arg, met, unpurged, rows, image>>
      /\ faults' \in Nat /\ faults' >= faults /\ (Fail(r, l) => faults' > 0)
      /\ UNCHANGED read
  BY <1>2
<1>4. l \in Reading => read[r] # None
  BY DEF IInv, Shapes, Shaped
<1>5. QED BY <1>1, <1>3, <1>4, InvQuiet

-----------------------------------------------------------------------------
\* What writeMetadata has read is something.
LEMMA NoneIsNoJson == None \notin Metadata
  BY NoneIsNoRow DEF Metadata, Json

\* writeMetadata.
LEMMA InvReadBook ==
  ASSUME IInv, NEW r \in Req, NEW l, NEW next, NEW failed,
         pc[r] \in Running,
         ReadBook(r, l, next, failed), Allowed(r, next), Allowed(r, failed),
         next \in Running \cup {"ok", "error"}, failed \in Running \cup {"ok", "error"},
         next \notin {"v_write", "v_row", "v_undo"},
         failed \notin {"v_write", "v_row", "v_undo"}, failed \notin Reading
  PROVE  IInv'
<1> DEFINE b == arg[r].book
<1>1. CASE ~(Step(r, failed) \/ Fail(r, failed))
  <2>1. /\ There(b)
        /\ read' = [read EXCEPT ![r] = [text |-> row[b].text, terms |-> {}]]
        /\ pc' = [pc EXCEPT ![r] = next]
        /\ UNCHANGED <<arg, faults, met, unpurged, authors, rows, files, latest>>
    BY <1>1 DEF ReadBook
  <2>2. [text |-> row[b].text, terms |-> {}] \in Metadata
    BY <2>1, OpOf DEF IInv, TypeOK, Row, Metadata
  <2>3. TypeOK'
    BY <2>1, <2>2 DEF IInv, TypeOK
  <2>4. faults' \in Nat /\ faults' >= faults
    BY <2>1, DetailBounds DEF IInv, TypeOK
  <2>5. /\ read'[r] # None
        /\ \A q \in Req \ {r} : read'[q] = read[q]
    BY <2>1, <2>2, NoneIsNoJson DEF IInv, TypeOK
  <2>6. QED BY <2>1, <2>3, <2>4, <2>5, InvQuiet
<1>2. CASE Step(r, failed) \/ Fail(r, failed)
  BY <1>2, InvStep
<1>3. QED BY <1>1, <1>2

LEMMA InvReadLinks ==
  ASSUME IInv, NEW r \in Req, NEW l, NEW next, pc[r] \in Reading,
         ReadLinks(r, l, next), Allowed(r, next),
         next \in Running, next \notin {"v_write", "v_row", "v_undo"}
  PROVE  IInv'
<1>1. /\ read' = [read EXCEPT ![r].terms = Linked(arg[r].book)]
      /\ pc' = [pc EXCEPT ![r] = next]
      /\ UNCHANGED <<arg, faults, met, unpurged, authors, rows, files, latest>>
  BY DEF ReadLinks
<1>2. read[r] \in Metadata
  BY DEF IInv, TypeOK, Shapes, Shaped
<1>3. Linked(arg[r].book) \in SUBSET Term
  BY DEF Linked
<1>4. [read[r] EXCEPT !.terms = Linked(arg[r].book)] \in Metadata
  BY <1>2, <1>3 DEF Metadata
<1>5. TypeOK'
  BY <1>1, <1>4 DEF IInv, TypeOK
<1>6. faults' \in Nat /\ faults' >= faults
  BY <1>1, DetailBounds DEF IInv, TypeOK
<1>7. /\ read'[r] # None
      /\ \A q \in Req \ {r} : read'[q] = read[q]
  BY <1>1, <1>4, NoneIsNoJson DEF IInv, TypeOK
<1>8. QED BY <1>1, <1>5, <1>6, <1>7, InvQuiet

LEMMA InvOpenMetadata ==
  ASSUME IInv, NEW r \in Req, NEW l, NEW next, NEW failed, pc[r] \in Reading,
         OpenMetadata(r, l, next, failed), Allowed(r, next), Allowed(r, failed),
         next \in Running, failed \in Running \cup {"ok", "error"},
         next \notin {"v_write", "v_row", "v_undo"},
         failed \notin {"v_write", "v_row", "v_undo"}, failed \notin Reading
  PROVE  IInv'
<1>1. CASE Step(r, failed) \/ Fail(r, failed)
  BY <1>1, InvStep
<1>2. CASE ~(Step(r, failed) \/ Fail(r, failed))
  <2>1. /\ meta' = [meta EXCEPT ![arg[r].book] = Empty]
        /\ pc' = [pc EXCEPT ![r] = next]
        /\ UNCHANGED <<arg, faults, met, unpurged, read, authors, rows, folders, image, latest>>
    BY <1>2 DEF OpenMetadata
  <2>2. Empty \in Json
    BY DEF Empty, Json
  <2>3. TypeOK'
    BY <2>1, <2>2 DEF IInv, TypeOK
  <2>4. faults' \in Nat /\ faults' >= faults
    BY <2>1, DetailBounds DEF IInv, TypeOK
  <2>5. read[r] # None
    BY DEF IInv, Shapes, Shaped
  <2>6. QED BY <2>1, <2>3, <2>4, <2>5, InvQuiet
<1>3. QED BY <1>1, <1>2

LEMMA InvWriteMetadata ==
  ASSUME IInv, NEW r \in Req, NEW l, NEW next, NEW failed, pc[r] \in Reading,
         WriteMetadata(r, l, next, failed), Allowed(r, next), Allowed(r, failed),
         next \in Running \cup {"ok", "error"}, failed \in Running \cup {"ok", "error"},
         next \notin {"v_write", "v_row", "v_undo"}, next \notin Reading,
         failed \notin {"v_write", "v_row", "v_undo"}, failed \notin Reading
  PROVE  IInv'
<1> DEFINE b == arg[r].book
<1>1. CASE Fail(r, failed)
  BY <1>1, InvStep
<1>2. CASE ~Fail(r, failed)
  <2>1. PICK m \in Write(meta[b], read[r]) :
        /\ meta' = [meta EXCEPT ![b] = m]
        /\ read' = [read EXCEPT ![r] = None]
        /\ pc' = [pc EXCEPT ![r] = next]
        /\ UNCHANGED <<arg, faults, met, unpurged, authors, rows, folders, image, latest>>
    BY <1>2 DEF WriteMetadata
  <2>2. read[r] \in Json
    BY DEF IInv, TypeOK, Shapes, Shaped, Metadata, Json
  <2>3. m \in Json \cup {None}
    BY <2>2 DEF Write, Mixed, Json
  <2>4. TypeOK'
    BY <2>1, <2>3 DEF IInv, TypeOK
  <2>5. faults' \in Nat /\ faults' >= faults
    BY <2>1, DetailBounds DEF IInv, TypeOK
  <2>6. \A q \in Req \ {r} : read'[q] = read[q]
    BY <2>1 DEF IInv, TypeOK
  <2>7. QED BY <2>1, <2>4, <2>5, <2>6, InvQuiet
<1>3. QED BY <1>1, <1>2

USE DEF Running, Making, Editing, Adding, Covering, Parsing, Purging

-----------------------------------------------------------------------------
\* Where each handler may go from its steps.
LEMMA GoesCreate ==
  ASSUME IInv, NEW r \in Req
  PROVE  /\ pc[r] = "k_dir" => Allowed(r, "k_tx")
         /\ pc[r] = "k_tx" => Allowed(r, "k_rmdir")
         /\ pc[r] = "k_book" => Allowed(r, "k_links") /\ Allowed(r, "k_unrow")
         /\ pc[r] = "k_links" => Allowed(r, "k_open")
         /\ pc[r] = "k_open" => Allowed(r, "k_write") /\ Allowed(r, "k_unrow")
         /\ pc[r] = "k_write" =>
               /\ Allowed(r, "k_unrow")
               /\ Allowed(r, IF Importing(r) THEN "i_file" ELSE "ok")
         /\ pc[r] \in {"k_rmdir", "p_dir"} => Allowed(r, "error")
  BY OpOf DEF IInv, Allowed, StepsOf, Births, Born, Before, After

LEMMA GoesUpdate ==
  ASSUME IInv, NEW r \in Req
  PROVE  /\ pc[r] = "e_check" => Allowed(r, "e_tx") /\ Allowed(r, "error")
         /\ pc[r] = "e_tx" => Allowed(r, Refused(r))
         /\ pc[r] = "e_book" => Allowed(r, "e_links") /\ Allowed(r, Refused(r))
         /\ pc[r] = "e_links" => Allowed(r, "e_open")
         /\ pc[r] = "e_open" => Allowed(r, "e_write") /\ Allowed(r, Refused(r))
         /\ pc[r] = "e_write" =>
               Allowed(r, Refused(r)) /\ \A l \in AfterUpdate(r) : Allowed(r, l)
  BY OpOf DEF IInv, Allowed, StepsOf, Births, Born, Before, After, Refused, AfterUpdate

LEMMA GoesAddFile ==
  ASSUME IInv, NEW r \in Req
  PROVE  LET next == IF Importing(r) THEN "i_find" ELSE "ok" IN
         /\ pc[r] = "a_book" => Allowed(r, "a_links") /\ Allowed(r, next)
         /\ pc[r] = "a_links" => Allowed(r, "a_open")
         /\ pc[r] = "a_open" => Allowed(r, "a_write") /\ Allowed(r, next)
         /\ pc[r] = "a_write" => Allowed(r, next)
  BY OpOf DEF IInv, Allowed, StepsOf, Births, Born, Before, After

LEMMA GoesCover ==
  ASSUME IInv, NEW r \in Req
  PROVE  /\ pc[r] = "v_check" => Allowed(r, "v_open") /\ Allowed(r, "error")
         /\ pc[r] = "v_open" => Allowed(r, "v_write") /\ Allowed(r, Refused(r))
         /\ pc[r] = "v_write" => Allowed(r, "v_row") /\ Allowed(r, Refused(r))
         /\ pc[r] = "v_row" => Allowed(r, "ok") /\ Allowed(r, "v_undo")
         /\ pc[r] = "v_undo" => Allowed(r, Refused(r))
  BY OpOf DEF IInv, Allowed, StepsOf, Births, Born, Before, After, Refused,
              Shapes, Shaped

LEMMA GoesImport ==
  ASSUME IInv, NEW r \in Req
  PROVE  /\ pc[r] = "i_file" => Allowed(r, "a_book") /\ Allowed(r, "p_authors")
         /\ pc[r] = "i_find" =>
               Allowed(r, "e_tx") /\ (arg[r].name # None => Allowed(r, "i_make"))
         /\ pc[r] = "i_make" => Allowed(r, "e_tx") /\ Allowed(r, "p_authors")
  BY OpOf DEF IInv, Allowed, StepsOf, Births, Born, Before, After

-----------------------------------------------------------------------------
\* The file system calls of covers and directories.
LEMMA InvKDir ==
  ASSUME IInv, NEW r \in Req, KDir(r)
  PROVE  IInv'
<1>1. /\ pc[r] = "k_dir" /\ pc' = [pc EXCEPT ![r] = "k_tx"]
      /\ folders' = folders \cup {r}
      /\ UNCHANGED <<arg, faults, met, unpurged, read, authors, rows, meta, image, latest>>
  BY DEF KDir
<1>2. TypeOK'
  BY <1>1 DEF IInv, TypeOK, Id
<1>3. faults' \in Nat /\ faults' >= faults
  BY <1>1, DetailBounds DEF IInv, TypeOK
<1>4. QED BY <1>1, <1>2, <1>3, GoesCreate, InvQuiet DEF Reading

LEMMA InvRemoveFolder ==
  ASSUME IInv, NEW r \in Req, RemoveFolder(r, "k_rmdir") \/ RemoveFolder(r, "p_dir")
  PROVE  IInv'
<1>0. pc[r] \in {"k_rmdir", "p_dir"}
  BY DEF RemoveFolder
<1>1. CASE Fail(r, "error")
  BY <1>0, <1>1, GoesCreate, InvStep DEF Reading
<1>2. CASE ~Fail(r, "error")
  <2>1. /\ pc' = [pc EXCEPT ![r] = "error"]
        /\ folders' = folders \ {r}
        /\ meta' = [meta EXCEPT ![r] = None]
        /\ image' = [image EXCEPT ![r] = [e \in Ext |-> None]]
        /\ UNCHANGED <<arg, faults, met, unpurged, read, authors, rows, latest>>
    BY <1>2 DEF RemoveFolder
  <2>2. TypeOK'
    BY <2>1 DEF IInv, TypeOK
  <2>3. faults' \in Nat /\ faults' >= faults
    BY <2>1, DetailBounds DEF IInv, TypeOK
  <2>4. faults = 0 => ~There(r)
    BY <1>0 DEF IInv, Births, Born, After
  <2>5. \A b \in Id, e \in Ext :
           There(b) /\ faults' = 0 => image'[b][e] = image[b][e]
    BY <2>1, <2>4 DEF IInv, TypeOK
  <2>6. QED BY <1>0, <2>1, <2>2, <2>3, <2>5, GoesCreate, InvQuiet DEF Reading
<1>3. QED BY <1>1, <1>2

\* What a cover step works on.
LEMMA CoverArgs ==
  ASSUME IInv, NEW r \in Req, pc[r] \in Covering, pc[r] # "v_check"
  PROVE  arg[r].book \in Id /\ arg[r].ext \in Ext
  BY OpOf DEF IInv, Shapes, Shaped, Arg

\* Writing one file of a book leaves the others.
LEMMA SetImageFacts ==
  ASSUME IInv, NEW r \in Req, pc[r] \in Covering, pc[r] # "v_check",
         NEW by \in Req \cup Torn \cup {None}, SetImage(r, by)
  PROVE  /\ image' \in [Id -> [Ext -> Req \cup Torn \cup {None}]]
         /\ image'[arg[r].book][arg[r].ext] = by
         /\ \A b \in Id, e \in Ext :
               <<b, e>> # <<arg[r].book, arg[r].ext>> => image'[b][e] = image[b][e]
<1>1. arg[r].book \in Id /\ arg[r].ext \in Ext
  BY CoverArgs
<1>2. image \in [Id -> [Ext -> Req \cup Torn \cup {None}]]
  BY DEF IInv, TypeOK
<1>3. image' = [image EXCEPT ![arg[r].book] =
                   [image[arg[r].book] EXCEPT ![arg[r].ext] = by]]
  BY <1>1, <1>2 DEF SetImage
<1>4. QED BY <1>1, <1>2, <1>3

LEMMA InvVOpen ==
  ASSUME IInv, NEW r \in Req, VOpen(r)
  PROVE  IInv'
<1>1. CASE Step(r, Refused(r))
  BY <1>1, GoesCover, InvStep DEF VOpen, Refused, Reading
<1>2. CASE ~Step(r, Refused(r))
  <2>1. /\ pc[r] = "v_open" /\ pc' = [pc EXCEPT ![r] = "v_write"]
        /\ SetImage(r, "empty")
        /\ UNCHANGED <<arg, faults, met, unpurged, read, authors, rows, folders, meta, latest>>
    BY <1>2 DEF VOpen
  <2>2. /\ image' \in [Id -> [Ext -> Req \cup Torn \cup {None}]]
        /\ image'[arg[r].book][arg[r].ext] = "empty"
        /\ \A b \in Id, e \in Ext :
              <<b, e>> # <<arg[r].book, arg[r].ext>> => image'[b][e] = image[b][e]
    BY <2>1, SetImageFacts
  <2>3. TypeOK'
    BY <2>1, <2>2 DEF IInv, TypeOK
  <2>4. faults' \in Nat /\ faults' >= faults
    BY <2>1, DetailBounds DEF IInv, TypeOK
  <2>5. \A b \in Id, e \in Ext : image[b][e] # None => image'[b][e] # None
    BY <2>2, NoneIsWhole
  <2>6. QED BY <2>1, <2>2, <2>3, <2>4, <2>5, NoneIsWhole, GoesCover, InvQuiet
            DEF Reading
<1>3. QED BY <1>1, <1>2

LEMMA InvVWrite ==
  ASSUME IInv, NEW r \in Req, VWrite(r)
  PROVE  IInv'
<1> DEFINE found == image[arg[r].book][arg[r].ext]
<1>1. CASE Fail(r, Refused(r))
  BY <1>1, GoesCover, InvStep DEF VWrite, Refused, Reading
<1>2. CASE ~Fail(r, Refused(r))
  <2>1. /\ pc[r] = "v_write" /\ pc' = [pc EXCEPT ![r] = "v_row"]
        /\ UNCHANGED <<arg, faults, met, unpurged, read, authors, rows, folders, meta, latest>>
        /\ \/ found = None /\ UNCHANGED image
           \/ found # None /\ SetImage(r, r)
           \/ found # None /\ SetImage(r, "mixed")
    BY <1>2, NoneIsWhole DEF VWrite
  <2>2. r # None
    BY NoneIsApart DEF Id
  <2>3. /\ image' \in [Id -> [Ext -> Req \cup Torn \cup {None}]]
        /\ \A b \in Id, e \in Ext : image[b][e] # None => image'[b][e] # None
    <3>1. CASE UNCHANGED image
      BY <3>1 DEF IInv, TypeOK
    <3>2. CASE SetImage(r, r)
      BY <2>1, <2>2, <3>2, SetImageFacts
    <3>3. CASE SetImage(r, "mixed")
      <4>1. "mixed" \in Req \cup Torn \cup {None} /\ "mixed" # None
        BY NoneIsWhole
      <4>2. QED BY <2>1, <3>3, <4>1, SetImageFacts
    <3>4. QED BY <2>1, <3>1, <3>2, <3>3
  <2>4. TypeOK'
    BY <2>1, <2>3 DEF IInv, TypeOK
  <2>5. faults' \in Nat /\ faults' = faults
    BY <2>1, DetailBounds DEF IInv, TypeOK
  <2>6. faults = 0 /\ There(arg[r].book) => image'[arg[r].book][arg[r].ext] # None
    BY <2>1, <2>3, CoverArgs DEF IInv, Images
  <2>7. Allowed(r, "v_row") /\ "v_row" \notin Reading
    BY <2>1, GoesCover DEF Reading
  <2>8. faults' >= faults
    BY <2>5
  <2> HIDE DEF found
  <2>9. QED BY <2>1, <2>3, <2>4, <2>5, <2>6, <2>7, <2>8, InvQuiet
<1>3. QED BY <1>1, <1>2

LEMMA InvVUndo ==
  ASSUME IInv, NEW r \in Req, VUndo(r)
  PROVE  IInv'
<1>1. CASE Fail(r, Refused(r))
  BY <1>1, GoesCover, InvStep DEF VUndo, Refused, Reading
<1>2. CASE ~Fail(r, Refused(r))
  <2>1. /\ pc[r] = "v_undo" /\ pc' = [pc EXCEPT ![r] = Refused(r)]
        /\ SetImage(r, None)
        /\ UNCHANGED <<arg, faults, met, unpurged, read, authors, rows, folders, meta, latest>>
    BY <1>2 DEF VUndo
  <2>2. image' \in [Id -> [Ext -> Req \cup Torn \cup {None}]]
    BY <2>1, SetImageFacts
  <2>3. TypeOK'
    BY <2>1, <2>2 DEF IInv, TypeOK, Refused
  <2>4. faults' \in Nat /\ faults' >= faults /\ faults' # 0
    BY <2>1, DetailBounds DEF IInv, TypeOK, Shapes, Shaped
  <2>5. QED BY <2>1, <2>3, <2>4, GoesCover, InvQuiet DEF Refused, Reading
<1>3. QED BY <1>1, <1>2

-----------------------------------------------------------------------------
\* What every step of a request keeps.
LEMMA Routine ==
  ASSUME IInv, NEW r \in Req, NEW l,
         pc[r] \in Running, l \in StepsOf(arg[r].op) \cup {"ok", "error"},
         l \notin Before, l = "i_make" => arg[r].name # None,
         l \in Covering => arg[r].ext # None,
         pc' = [pc EXCEPT ![r] = l], UNCHANGED <<arg, met, read>>,
         faults' \in Nat, faults' >= faults, unpurged \subseteq unpurged',
         l # "v_undo", l \in Reading => l = "k_book",
         pc[r] \in After \cup {"error"} => l = "error"
  PROVE  /\ Shapes' /\ Meetings' /\ InFlight' \subseteq InFlight
         /\ \A b : Excused(b) => Excused(b)'
         /\ pc'[r] = l /\ \A q \in Req \ {r} : pc'[q] = pc[q]
<1>1. pc \in [Req -> Running \cup {"idle", "ok", "error"}] /\ faults \in Nat
  BY DetailBounds DEF IInv, TypeOK
<1>2. pc'[r] = l /\ \A q \in Req \ {r} : pc'[q] = pc[q]
  BY <1>1
<1>3. InFlight' \subseteq InFlight
  BY <1>2 DEF InFlight
<1>4. Shapes'
  <2>1. ASSUME NEW q \in Req PROVE Shaped(q)'
    <3>1. Shaped(q)
      BY DEF IInv, Shapes
    <3>2. CASE q # r
      BY <3>1, <3>2, <1>1, <1>2 DEF Shaped
    <3>3. CASE q = r
      BY <3>1, <3>3, <1>2 DEF Shaped, StepsOf, Reading, Before
    <3>4. QED BY <3>2, <3>3
  <2>2. QED BY <2>1 DEF IInv, Shapes
<1>5. Meetings'
  BY <1>3 DEF IInv, Meetings
<1>6. \A b : Excused(b) => Excused(b)'
  BY <1>2 DEF Excused, UndoneCreate, PurgedBeside, After
<1>7. QED BY <1>2, <1>3, <1>4, <1>5, <1>6

\* A request that runs beside an import and updates its book excuses it.
LEMMA Besides ==
  ASSUME IInv, NEW q \in InFlight, arg[q].op = "update",
         NEW b \in InFlight, arg[q].book = b, Importing(b)
  PROVE  PurgedBeside(b)
<1>1. q # b
  OBVIOUS
<1>2. q \in met[b] /\ b \in Req
  BY <1>1 DEF IInv, Meetings, InFlight
<1>3. QED BY <1>2 DEF PurgedBeside

\* The row of a new book is deleted, by an undone Create or a purge, which go on
\* when it is not.
LEMMA InvUnrow ==
  ASSUME IInv, NEW r \in Req, NEW l,
         (pc[r] = "k_unrow" /\ l = "k_rmdir") \/ (pc[r] = "p_row" /\ l = "p_dir"),
         row' = [row EXCEPT ![r] = None], Go(r, l),
         UNCHANGED <<read, authors, name, links, files, latest>>
  PROVE  IInv'
<1>0. /\ arg[r].op \in {"create", "import"} /\ (pc[r] = "p_row" => Importing(r))
      /\ arg[r].book = r /\ l \in StepsOf(arg[r].op)
  BY OpOf DEF IInv, Shapes, Shaped, StepsOf
<1>f. faults' \in Nat /\ faults' >= faults
  BY DetailBounds DEF IInv, TypeOK
<1>1. /\ Shapes' /\ Meetings' /\ InFlight' \subseteq InFlight
      /\ \A b : Excused(b) => Excused(b)'
      /\ pc'[r] = l /\ \A q \in Req \ {r} : pc'[q] = pc[q]
  BY <1>0, <1>f, Routine DEF Before, After, Reading
<1>2. TypeOK'
  BY DEF IInv, TypeOK
<1>3. ~There(r)' /\ \A b \in Id \ {r} : row'[b] = row[b]
  BY DEF IInv, TypeOK, Id
<1>4. r \in Id
  BY DEF Id
<1>5. Births'
  <2> SUFFICES ASSUME NEW b \in Req PROVE Born(b)'
    BY DEF Births
  <2>1. Born(b)
    BY DEF IInv, Births
  <2>2. CASE b = r
    BY <2>1, <2>2, <1>1, <1>3 DEF Born, Before, After
  <2>3. CASE b # r
    BY <2>1, <2>3, <1>1, <1>3 DEF Born, Id
  <2>4. QED BY <2>2, <2>3
<1>6. r \in InFlight
  BY DEF InFlight
<1>7. ASSUME arg[r].op = "create" PROVE Excused(r)'
  BY <1>7, <1>0, <1>1 DEF Excused, UndoneCreate
<1>8. Aims'
  <2> SUFFICES ASSUME NEW q \in InFlight', arg[q].op = "update"
               PROVE  There(arg[q].book)' \/ Excused(arg[q].book)'
    BY DEF Aims
  <2>1. q \in InFlight /\ arg[q].book \in Id
    BY <1>1 DEF IInv, Shapes, Shaped, InFlight
  <2>2. There(arg[q].book) \/ Excused(arg[q].book)
    BY <2>1 DEF IInv, Aims
  <2>3. CASE arg[q].book # r
    BY <2>1, <2>2, <2>3, <1>1, <1>3
  <2>4. CASE arg[q].book = r
    <3>1. CASE arg[r].op = "create"
      BY <3>1, <2>4, <1>7
    <3>2. CASE Importing(r)
      <4>1. PurgedBeside(r)
        BY <2>1, <2>4, <3>2, <1>6, Besides
      <4>2. QED BY <4>1, <2>4, <1>1 DEF Excused
    <3>3. QED BY <3>1, <3>2, <1>0
  <2>5. QED BY <2>3, <2>4
<1>9. Sweeps'
  <2> SUFFICES ASSUME NEW k \in links, k[1] \in Req, Importing(k[1]),
                      Unlinked(k[1], k[2])'
               PROVE  PurgedBeside(k[1])' \/ k[1] \in unpurged'
    BY DEF Sweeps
  <2>1. Unlinked(k[1], k[2])
    BY <1>1 DEF Unlinked
  <2>2. QED BY <2>1 DEF IInv, Sweeps, PurgedBeside
<1>10. LinksResolve'
  BY DEF IInv, LinksResolve
<1>11. LinksOwned'
  <2> SUFFICES ASSUME NEW k \in links PROVE There(k[1])' \/ Excused(k[1])'
    BY DEF LinksOwned, Excused
  <2>1. There(k[1]) \/ Excused(k[1])
    BY DEF IInv, LinksOwned, Excused
  <2>2. k[1] \in Id
    BY DEF IInv, TypeOK
  <2>3. CASE k[1] # r
    BY <2>1, <2>2, <2>3, <1>1, <1>3
  <2>4. CASE k[1] = r
    <3>1. CASE arg[r].op = "create"
      BY <3>1, <2>4, <1>7
    <3>2. CASE Importing(r)
      <4>1. PurgedBeside(r) \/ r \in unpurged
        BY <2>4, <3>2 DEF IInv, Sweeps, Unlinked
      <4>2. QED BY <4>1, <2>4, <1>1 DEF Excused
    <3>3. QED BY <3>1, <3>2, <1>0
  <2>5. QED BY <2>3, <2>4
<1>12. Images'
  <2> SUFFICES ASSUME NEW q \in Req, pc'[q] \in {"v_write", "v_row"}, faults = 0,
                      There(arg[q].book)'
               PROVE  image[arg[q].book][arg[q].ext] # None
    BY DEF Images
  <2>1. q # r /\ pc[q] \in {"v_write", "v_row"}
    BY <1>1
  <2>2. arg[q].book \in Id
    BY <2>1, OpOf DEF IInv
  <2>3. There(arg[q].book)
    BY <2>2, <1>3
  <2>4. QED BY <2>1, <2>3 DEF IInv, Images
<1>13. CoverThere'
  <2> SUFFICES ASSUME NEW b \in Id, There(b)', row'[b].cover # None, faults = 0
               PROVE  image[b][row'[b].cover] # None
    BY DEF CoverThere
  <2>1. row'[b] = row[b]
    BY <1>3
  <2>2. QED BY <2>1 DEF IInv, CoverThere
<1>14. QED
  BY <1>1, <1>2, <1>5, <1>8, <1>9, <1>10, <1>11, <1>12, <1>13 DEF IInv

LEMMA InvDeleteRow ==
  ASSUME IInv, NEW r \in Req, NEW l, NEW next, DeleteRow(r, l, next),
         (l = "k_unrow" /\ next = "k_rmdir") \/ (l = "p_row" /\ next = "p_dir")
  PROVE  IInv'
<1>1. CASE Fail(r, next)
  <2>1. faults' > 0
    BY <1>1, DetailBounds DEF Fail, IInv, TypeOK
  <2>2. pc[r] = l /\ l \in StepsOf(arg[r].op) /\ next \in StepsOf(arg[r].op)
    BY OpOf DEF DeleteRow, IInv, Shapes, Shaped, StepsOf
  <2>3. Allowed(r, next)
    BY <2>1, <2>2 DEF Allowed, Before, After
  <2>4. QED BY <1>1, <2>2, <2>3, InvStep DEF Reading
<1>2. CASE ~Fail(r, next)
  BY <1>2, InvUnrow DEF DeleteRow
<1>3. QED BY <1>1, <1>2

\* The transaction of Update, and that of Create, write the links of a book
\* that is there, or that is excused.
LEMMA InvLinked ==
  ASSUME IInv, NEW r \in Req, NEW l, NEW T \in SUBSET Term,
         (pc[r] = "k_tx" /\ l = "k_book" /\ T = arg[r].terms)
         \/ (pc[r] = "e_tx" /\ l = "e_book"),
         Exist(T), ReplaceLinks(arg[r].book, T), Go(r, l),
         TypeOK', UNCHANGED <<read, name, files>>,
         \A c \in Id : row'[c] # None <=> (There(c) \/ (pc[r] = "k_tx" /\ c = r)),
         \A c \in Id : There(c) => row'[c].cover = row[c].cover,
         pc[r] = "k_tx" => row'[r].cover = None
  PROVE  IInv'
<1> DEFINE b == arg[r].book
<1>1. /\ b \in Id /\ l \in StepsOf(arg[r].op)
      /\ pc[r] = "k_tx" => b = r
      /\ Importing(r) => b = r /\ arg[r].terms = {}
      /\ pc[r] = "e_tx" => arg[r].op \in {"update", "import"}
  BY OpOf DEF IInv, Shapes, Shaped, StepsOf
<1>f. faults' \in Nat /\ faults' >= faults
  BY DetailBounds DEF IInv, TypeOK
<1>2. /\ Shapes' /\ Meetings' /\ InFlight' \subseteq InFlight
      /\ \A c : Excused(c) => Excused(c)'
      /\ pc'[r] = l /\ \A q \in Req \ {r} : pc'[q] = pc[q]
  BY <1>1, <1>f, Routine DEF Before, After, Reading
<1>3. r \in InFlight /\ r \in Id
  BY DEF InFlight, Id
<1>4. There(b)' \/ Excused(b)
  <2>1. CASE pc[r] = "k_tx"
    BY <2>1, <1>1
  <2>2. CASE pc[r] = "e_tx" /\ arg[r].op = "update"
    BY <2>2, <1>1, <1>3 DEF IInv, Aims
  <2>3. CASE pc[r] = "e_tx" /\ Importing(r)
    BY <2>3, <1>1 DEF IInv, Births, Born, Before, After
  <2>4. QED BY <2>1, <2>2, <2>3, <1>1
<1>5. Births'
  <2> SUFFICES ASSUME NEW c \in Req PROVE Born(c)'
    BY DEF Births
  <2>1. Born(c) /\ c \in Id
    BY DEF IInv, Births, Id
  <2>2. CASE c = r
    BY <2>1, <2>2, <1>2 DEF Born, Before, After
  <2>3. CASE c # r
    BY <2>1, <2>3, <1>2 DEF Born
  <2>4. QED BY <2>2, <2>3
<1>6. Aims'
  <2> SUFFICES ASSUME NEW q \in InFlight', arg[q].op = "update"
               PROVE  There(arg[q].book)' \/ Excused(arg[q].book)'
    BY DEF Aims
  <2>1. q \in InFlight /\ arg[q].book \in Id
    BY <1>2 DEF IInv, Shapes, Shaped, InFlight
  <2>2. QED BY <2>1, <1>2 DEF IInv, Aims
<1>7. \A k \in links' : (k \in links /\ k[1] # b) \/ (k[1] = b /\ k[2] \in T)
  <2>1. links' = {k \in links : k[1] # b} \cup ({b} \X T)
    BY DEF ReplaceLinks
  <2>2. \A k \in {b} \X T : k[1] = b /\ k[2] \in T
    OBVIOUS
  <2>3. QED BY <2>1, <2>2
<1>8. Sweeps'
  <2> SUFFICES ASSUME NEW k \in links', k[1] \in Req, Importing(k[1]),
                      Unlinked(k[1], k[2])'
               PROVE  PurgedBeside(k[1]) \/ k[1] \in unpurged
    BY DEF Sweeps, PurgedBeside
  <2>1. CASE k \in links /\ k[1] # b /\ k[1] # r
    <3>1. Unlinked(k[1], k[2])
      BY <2>1, <1>2 DEF Unlinked
    <3>2. QED BY <2>1, <3>1 DEF IInv, Sweeps
  <2>2. CASE k[1] = r /\ k \in links /\ k[1] # b
    BY <2>2, <1>1
  <2>3. CASE k[1] = b /\ k[2] \in T /\ b # r
    <3>1. pc[b] = pc'[b] /\ arg[r].op = "update" /\ b \in InFlight
      BY <2>3, <1>1, <1>2 DEF Unlinked, InFlight
    <3>2. QED BY <2>3, <3>1, <1>3, Besides
  <2>4. CASE k[1] = b /\ k[2] \in T /\ b = r
    BY <2>4, <1>1, <1>2 DEF Unlinked
  <2>5. QED BY <2>1, <2>2, <2>3, <2>4, <1>7
<1>9. LinksResolve'
  BY <1>7 DEF IInv, LinksResolve, Exist
<1>10. LinksOwned'
  <2> SUFFICES ASSUME NEW k \in links' PROVE There(k[1])' \/ Excused(k[1])'
    BY DEF LinksOwned, Excused
  <2>1. CASE k[1] = b
    BY <2>1, <1>2, <1>4
  <2>2. CASE k \in links
    <3>1. k[1] \in Id /\ (There(k[1]) \/ Excused(k[1]))
      BY <2>2 DEF IInv, TypeOK, LinksOwned, Excused
    <3>2. QED BY <3>1, <1>2
  <2>3. QED BY <2>1, <2>2, <1>7
<1>11. Images'
  <2> SUFFICES ASSUME NEW q \in Req, pc'[q] \in {"v_write", "v_row"}, faults = 0,
                      There(arg[q].book)'
               PROVE  image[arg[q].book][arg[q].ext] # None
    BY DEF Images
  <2>1. q # r /\ pc[q] \in {"v_write", "v_row"}
    BY <1>2
  <2>2. arg[q].book \in Id
    BY <2>1, OpOf DEF IInv
  <2>3. There(arg[q].book)
    BY <2>1, <2>2 DEF IInv, Births, Born, Before
  <2>4. QED BY <2>1, <2>3 DEF IInv, Images
<1>12. CoverThere'
  <2> SUFFICES ASSUME NEW c \in Id, There(c)', row'[c].cover # None, faults = 0
               PROVE  image[c][row'[c].cover] # None
    BY DEF CoverThere
  <2>1. There(c) /\ row'[c].cover = row[c].cover
    OBVIOUS
  <2>2. QED BY <2>1 DEF IInv, CoverThere
<1>13. QED
  BY <1>2, <1>5, <1>6, <1>8, <1>9, <1>10, <1>11, <1>12 DEF IInv

-----------------------------------------------------------------------------
\* The transactions that write a book and its links.
LEMMA InvKTx ==
  ASSUME IInv, NEW r \in Req, KTx(r)
  PROVE  IInv'
<1>1. CASE Step(r, "k_rmdir") \/ Fail(r, "k_rmdir")
  BY <1>1, GoesCreate, InvStep DEF KTx, Reading
<1>2. CASE ~(Step(r, "k_rmdir") \/ Fail(r, "k_rmdir"))
  <2>1. /\ pc[r] = "k_tx" /\ Exist(arg[r].terms) /\ Go(r, "k_book")
        /\ row' = [row EXCEPT ![r] = [text |-> r, cover |-> None]]
        /\ ReplaceLinks(r, arg[r].terms)
        /\ UNCHANGED <<read, authors, name, files, latest>>
    BY <1>2 DEF KTx
  <2>2. arg[r].book = r /\ arg[r].terms \in SUBSET Term /\ r \in Id
    BY <2>1, OpOf DEF IInv, Shapes, Shaped, Arg, Id
  <2>3. [text |-> r, cover |-> None] \in Row /\ [text |-> r, cover |-> None] # None
    BY <2>2, NoneIsNoRow DEF Row
  <2>4. links' \subseteq Id \X Term
    BY <2>1, <2>2 DEF ReplaceLinks, IInv, TypeOK
  <2>5. TypeOK'
    BY <2>1, <2>3, <2>4 DEF IInv, TypeOK
  <2>6. \A c \in Id : row'[c] = IF c = r THEN [text |-> r, cover |-> None] ELSE row[c]
    BY <2>1 DEF IInv, TypeOK
  <2>7. ~There(r)
    BY <2>1 DEF IInv, Births, Born, Before
  <2>8. /\ \A c \in Id : row'[c] # None <=> (There(c) \/ (pc[r] = "k_tx" /\ c = r))
        /\ \A c \in Id : There(c) => row'[c].cover = row[c].cover
        /\ row'[r].cover = None
    BY <2>1, <2>2, <2>3, <2>6, <2>7
  <2>9. ReplaceLinks(arg[r].book, arg[r].terms)
    BY <2>1, <2>2
  <2>10. QED BY <2>1, <2>2, <2>5, <2>8, <2>9, InvLinked
<1>3. QED BY <1>1, <1>2

LEMMA InvETx ==
  ASSUME IInv, NEW r \in Req, ETx(r)
  PROVE  IInv'
<1> DEFINE b == arg[r].book
<1>1. CASE Step(r, Refused(r)) \/ Fail(r, Refused(r))
  BY <1>1, GoesUpdate, InvStep DEF ETx, Refused, Reading
<1>2. CASE ~(Step(r, Refused(r)) \/ Fail(r, Refused(r)))
  <2>1. /\ pc[r] = "e_tx" /\ Exist(Terms(r)) /\ Go(r, "e_book")
        /\ row' = IF There(b) THEN [row EXCEPT ![b].text = r] ELSE row
        /\ ReplaceLinks(b, Terms(r))
        /\ authors' = [authors EXCEPT ![r] = {}]
        /\ UNCHANGED <<read, name, files, latest>>
    BY <1>2 DEF ETx
  <2>2. b \in Id /\ arg[r].terms \in SUBSET Term /\ r \in Id
    BY <2>1, OpOf DEF IInv, Arg, Id
  <2>3. Terms(r) \in SUBSET Term
    BY <2>2 DEF Terms, Term, Author, IInv, TypeOK
  <2>4. links' \subseteq Id \X Term
    BY <2>1, <2>2, <2>3 DEF ReplaceLinks, IInv, TypeOK
  <2>5. There(b) => /\ [row[b] EXCEPT !.text = r] \in Row
                    /\ [row[b] EXCEPT !.text = r].cover = row[b].cover
                    /\ [row[b] EXCEPT !.text = r] # None
    BY <2>2, NoneIsNoRow DEF Row, IInv, TypeOK
  <2>6. \A c \in Id : row'[c] = IF c = b /\ There(b) THEN [row[b] EXCEPT !.text = r]
                                ELSE row[c]
    BY <2>1 DEF IInv, TypeOK
  <2>7. row' \in [Id -> Row \cup {None}]
    BY <2>1, <2>5 DEF IInv, TypeOK
  <2>8. TypeOK'
    BY <2>1, <2>4, <2>7 DEF IInv, TypeOK
  <2>9. /\ \A c \in Id : row'[c] # None <=> (There(c) \/ (pc[r] = "k_tx" /\ c = r))
        /\ \A c \in Id : There(c) => row'[c].cover = row[c].cover
    BY <2>1, <2>5, <2>6
  <2> HIDE DEF b
  <2>10. ReplaceLinks(arg[r].book, Terms(r))
    BY <2>1 DEF b
  <2>11. QED BY <2>1, <2>3, <2>8, <2>9, <2>10, InvLinked
<1>3. QED BY <1>1, <1>2

\* The statement that records a cover.
LEMMA InvVRow ==
  ASSUME IInv, NEW r \in Req, VRow(r)
  PROVE  IInv'
<1> DEFINE b == arg[r].book
           e == arg[r].ext
<1>1. CASE Fail(r, "v_undo")
  BY <1>1, GoesCover, InvStep DEF VRow, Reading
<1>2. CASE ~Fail(r, "v_undo")
  <2>1. /\ pc[r] = "v_row" /\ pc' = [pc EXCEPT ![r] = "ok"]
        /\ row' = IF There(b) THEN [row EXCEPT ![b].cover = e] ELSE row
        /\ latest' = [latest EXCEPT ![b] = r]
        /\ UNCHANGED <<arg, faults, met, unpurged, read, authors, name, links, files>>
    BY <1>2 DEF VRow
  <2>2. b \in Id /\ e \in Ext
    BY <2>1, CoverArgs
  <2>3. There(b) => /\ [row[b] EXCEPT !.cover = e] \in Row
                    /\ [row[b] EXCEPT !.cover = e].cover = e
                    /\ [row[b] EXCEPT !.cover = e] # None
    BY <2>2, NoneIsNoRow DEF Row, IInv, TypeOK
  <2>4. \A c \in Id : row'[c] = IF c = b /\ There(b) THEN [row[b] EXCEPT !.cover = e]
                                ELSE row[c]
    BY <2>1 DEF IInv, TypeOK
  <2>5. row' \in [Id -> Row \cup {None}]
    BY <2>1, <2>3 DEF IInv, TypeOK
  <2>6. TypeOK'
    BY <2>1, <2>5 DEF IInv, TypeOK
  <2>7. faults' \in Nat /\ faults' >= faults
    BY <2>1, DetailBounds DEF IInv, TypeOK
  <2>8. Allowed(r, "ok") /\ "ok" \notin Reading
    BY <2>1, GoesCover DEF Reading
  <2>9. \A c \in Id : row'[c] # None <=> There(c)
    BY <2>3, <2>4
  <2>10. /\ Shapes' /\ Births' /\ Meetings' /\ Aims' /\ Sweeps'
         /\ LinksResolve' /\ LinksOwned'
    BY <2>1, <2>7, <2>8, <2>9, Quiet
  <2>11. Images'
    <3> SUFFICES ASSUME NEW q \in Req, pc'[q] \in {"v_write", "v_row"}, faults = 0,
                        There(arg[q].book)'
                 PROVE  image[arg[q].book][arg[q].ext] # None
      BY <2>1 DEF Images
    <3>1. q # r /\ pc[q] \in {"v_write", "v_row"}
      BY <2>1 DEF IInv, TypeOK
    <3>2. arg[q].book \in Id
      BY <3>1, OpOf DEF IInv
    <3>3. There(arg[q].book)
      BY <2>1, <3>2, <2>9
    <3>4. QED BY <3>1, <3>3 DEF IInv, Images
  <2>12. CoverThere'
    <3> SUFFICES ASSUME NEW c \in Id, There(c)', row'[c].cover # None, faults = 0
                 PROVE  image[c][row'[c].cover] # None
      BY <2>1 DEF CoverThere
    <3>1. CASE c = b /\ There(b)
      <4>1. row'[c].cover = e
        BY <3>1, <2>3, <2>4
      <4>2. QED BY <4>1, <3>1, <2>1 DEF IInv, Images
    <3>2. CASE ~(c = b /\ There(b))
      <4>1. row'[c] = row[c]
        BY <3>2, <2>4
      <4>2. QED BY <4>1 DEF IInv, CoverThere
    <3>3. QED BY <3>1, <3>2
  <2>13. QED BY <2>6, <2>10, <2>11, <2>12 DEF IInv
<1>3. QED BY <1>1, <1>2

-----------------------------------------------------------------------------
\* An import looks for its author, makes it, and purges what it has made.
LEMMA InvIFind ==
  ASSUME IInv, NEW r \in Req, IFind(r)
  PROVE  IInv'
<1>1. CASE \/ arg[r].name = None /\ Step(r, "e_tx")
           \/ arg[r].name # None /\ Step(r, "i_make")
  BY <1>1, GoesImport, InvStep DEF IFind, Reading
<1>2. CASE \E a \in NamedBy(arg[r].name) :
              /\ authors' = [authors EXCEPT ![r] = {a}]
              /\ Go(r, "e_tx")
              /\ UNCHANGED <<read, rows, files, latest>>
  <2>1. PICK a \in NamedBy(arg[r].name) :
              /\ authors' = [authors EXCEPT ![r] = {a}]
              /\ Go(r, "e_tx")
              /\ UNCHANGED <<read, rows, files, latest>>
    BY <1>2
  <2>2. a \in Id
    BY DEF NamedBy
  <2>3. TypeOK'
    BY <2>1, <2>2 DEF IInv, TypeOK
  <2>4. faults' \in Nat /\ faults' >= faults
    BY <2>1, DetailBounds DEF IInv, TypeOK
  <2>5. Allowed(r, "e_tx") /\ "e_tx" \notin Reading
    BY GoesImport DEF IFind, Reading
  <2>6. QED BY <2>1, <2>3, <2>4, <2>5, InvQuiet
<1>3. QED BY <1>1, <1>2 DEF IFind

LEMMA InvIMake ==
  ASSUME IInv, NEW r \in Req, IMake(r)
  PROVE  IInv'
<1>1. CASE Fail(r, "p_authors")
  BY <1>1, GoesImport, InvStep DEF IMake, Reading
<1>2. CASE ~Fail(r, "p_authors")
  <2>1. /\ pc[r] = "i_make" /\ pc' = [pc EXCEPT ![r] = "e_tx"]
        /\ authors' = [authors EXCEPT ![r] = {r}]
        /\ name' = [name EXCEPT ![<<"author", r>>] = arg[r].name]
        /\ UNCHANGED <<arg, faults, met, unpurged, read, row, links, files, latest>>
    BY <1>2 DEF IMake
  <2>2. arg[r].name \in Name /\ r \in Id
    BY <2>1, OpOf DEF IInv, Shapes, Shaped, Arg, Id
  <2>3. TypeOK'
    BY <2>1, <2>2 DEF IInv, TypeOK
  <2>4. \A t \in Term : name[t] # None => name'[t] # None
    BY <2>1, <2>2, NoneIsApart DEF IInv, TypeOK
  <2>5. faults' \in Nat /\ faults' >= faults
    BY <2>1, DetailBounds DEF IInv, TypeOK
  <2>6. Allowed(r, "e_tx") /\ "e_tx" \notin Reading
    BY <2>1, GoesImport DEF Reading
  <2>7. /\ Shapes' /\ Births' /\ Meetings' /\ Aims' /\ Sweeps'
        /\ LinksResolve' /\ LinksOwned'
    BY <2>1, <2>4, <2>5, <2>6, Quiet
  <2>8. Images' /\ CoverThere'
    BY <2>1, <2>5, Pictures
  <2>9. QED BY <2>3, <2>7, <2>8 DEF IInv
<1>3. QED BY <1>1, <1>2

LEMMA InvUnlink ==
  ASSUME IInv, NEW r \in Req, PAuthors(r) \/ PTags(r)
  PROVE  IInv'
<1> DEFINE l == IF pc[r] = "p_authors" THEN "p_tags" ELSE "p_row"
<1>1. /\ pc[r] \in {"p_authors", "p_tags"} /\ pc' = [pc EXCEPT ![r] = l]
      /\ links' \subseteq links
      /\ r \in unpurged' \/ \A k \in links' : k[1] = r =>
            k[2][1] # (IF pc[r] = "p_authors" THEN "author" ELSE "tag")
      /\ UNCHANGED <<arg, met, read, authors, row, name, files, latest>>
      /\ unpurged' \in {unpurged, unpurged \cup {r}}
      /\ faults' \in 0..MaxFaults /\ faults' >= faults
  BY DetailBounds DEF PAuthors, PTags, Unlink, IInv, TypeOK
<1>2. Importing(r) /\ arg[r].book = r /\ l \in StepsOf(arg[r].op)
  BY <1>1, OpOf DEF IInv, Shapes, Shaped, StepsOf
<1>f. faults \in Nat /\ faults' \in Nat
  BY <1>1, DetailBounds DEF IInv, TypeOK
<1>3. /\ Shapes' /\ Meetings' /\ InFlight' \subseteq InFlight
      /\ \A b : Excused(b) => Excused(b)'
      /\ pc'[r] = l /\ \A q \in Req \ {r} : pc'[q] = pc[q]
  BY <1>1, <1>2, <1>f, Routine DEF Before, After, Reading
<1>4. TypeOK'
  BY <1>1 DEF IInv, TypeOK
<1>5. Births'
  <2> SUFFICES ASSUME NEW b \in Req PROVE Born(b)'
    BY DEF Births
  <2>1. Born(b)
    BY DEF IInv, Births
  <2>2. CASE b = r
    BY <2>1, <2>2, <1>1, <1>2, <1>3 DEF Born, Before, After
  <2>3. CASE b # r
    BY <2>1, <2>3, <1>1, <1>3, <1>f DEF Born
  <2>4. QED BY <2>2, <2>3
<1>6. Aims'
  BY <1>1, <1>3 DEF IInv, Aims
<1>7. Sweeps'
  <2> SUFFICES ASSUME NEW k \in links', k[1] \in Req, Importing(k[1]),
                      Unlinked(k[1], k[2])', k[1] \notin unpurged'
               PROVE  PurgedBeside(k[1])
    BY <1>1 DEF Sweeps, PurgedBeside
  <2>1. k \in links /\ k[2] \in Term
    BY <1>1 DEF IInv, TypeOK
  <2>2. CASE k[1] # r
    BY <2>1, <2>2, <1>1, <1>3 DEF IInv, Sweeps, Unlinked
  <2>3. CASE k[1] = r /\ pc[r] = "p_authors"
    <3>1. k[2] \in Author /\ k[2][1] # "author"
      BY <2>3, <1>1, <1>3 DEF Unlinked
    <3>2. QED BY <3>1 DEF Author
  <2>4. CASE k[1] = r /\ pc[r] = "p_tags"
    <3>1. k[2][1] # "tag"
      BY <2>4, <1>1
    <3>2. k[2] \in Author
      BY <3>1, <2>1 DEF Term, Tag
    <3>3. QED BY <3>2, <2>1, <2>4, <1>1 DEF IInv, Sweeps, Unlinked
  <2>5. QED BY <2>2, <2>3, <2>4, <1>1
<1>8. LinksResolve' /\ LinksOwned'
  <2>1. LinksResolve'
    BY <1>1 DEF IInv, LinksResolve
  <2>2. LinksOwned'
    BY <1>1, <1>3 DEF IInv, LinksOwned, Excused
  <2>3. QED BY <2>1, <2>2
<1>9. Images' /\ CoverThere'
  <2>1. faults' \in Nat /\ faults' >= faults
    BY <1>1, <1>f
  <2>2. l \notin {"v_write", "v_row"}
    OBVIOUS
  <2> HIDE DEF l
  <2>3. QED BY <1>1, <2>1, <2>2, Pictures
<1>10. QED BY <1>3, <1>4, <1>5, <1>6, <1>7, <1>8, <1>9 DEF IInv

-----------------------------------------------------------------------------
\* The handlers of internal/catalog keep that links lead somewhere.
LEMMA InvAnswer ==
  ASSUME IInv, NEW r \in Req, NEW o \in TermOps, NEW l \in {"ok", "error"},
         Answer(r, o, l), name' \in [Term -> Name \cup {None}],
         links' \subseteq links, \A k \in links' : name'[k[2]] # None
  PROVE  IInv'
<1>1. /\ pc[r] = "idle" /\ pc' = [pc EXCEPT ![r] = l]
      /\ arg' = [arg EXCEPT ![r].op = o]
      /\ UNCHANGED <<read, authors, row, files, faults, met, latest, unpurged>>
  BY DEF Answer
<1>2. /\ pc'[r] = l /\ \A q \in Req \ {r} : pc'[q] = pc[q] /\ arg'[q] = arg[q]
      /\ arg'[r] = [NoArg EXCEPT !.op = o]
  BY <1>1 DEF IInv, TypeOK, Shapes, Shaped
<1>3. TypeOK'
  BY <1>1 DEF IInv, TypeOK
<1>4. /\ arg'[r].op = o /\ arg'[r].book = None /\ arg'[r].terms = {}
      /\ arg[r].op = None /\ arg[r].book = None
  BY <1>1, <1>2 DEF NoArg, IInv, Shapes, Shaped
<1>5. o \notin BookOps
  BY DEF BookOps, TermOps
<1>6. InFlight' = InFlight /\ r \notin InFlight
  BY <1>1, <1>2 DEF InFlight
<1>7. Shapes'
  <2>1. arg'[r] \in Arg
    BY <1>2 DEF NoArg, Arg
  <2>2. arg' \in [Req -> Arg]
    BY <2>1, <1>1 DEF IInv, Shapes
  <2>3. ASSUME NEW q \in Req PROVE Shaped(q)'
    <3>1. Shaped(q)
      BY DEF IInv, Shapes
    <3>2. CASE q # r
      BY <3>1, <3>2, <1>1, <1>2 DEF Shaped
    <3>3. CASE q = r
      BY <3>3, <1>2, <1>4, <1>5 DEF Shaped, BookOps, Reading
    <3>4. QED BY <3>2, <3>3
  <2>4. QED BY <2>2, <2>3 DEF Shapes
<1>8. \A b : Excused(b) => Excused(b)'
  <2> SUFFICES ASSUME NEW b, Excused(b) PROVE Excused(b)'
    OBVIOUS
  <2>0. CASE b \in unpurged
    BY <2>0, <1>1 DEF Excused
  <2> SUFFICES ASSUME b \notin unpurged PROVE Excused(b)'
    BY <2>0
  <2>1. b \in Req /\ b # r /\ met[b] \in SUBSET Req
    BY <1>1, <1>4, NoneIsApart DEF Excused, UndoneCreate, PurgedBeside, BookOps, IInv, TypeOK
  <2>2. CASE UndoneCreate(b)
    BY <2>1, <2>2, <1>2 DEF Excused, UndoneCreate
  <2>3. CASE PurgedBeside(b)
    <3>1. PICK q \in met[b] : arg[q].op = "update" /\ arg[q].book = b
      BY <2>3 DEF PurgedBeside
    <3>2. q # r /\ q \in Req
      BY <3>1, <2>1, <1>4, NoneIsApart DEF BookOps
    <3>3. QED BY <3>1, <3>2, <2>1, <2>3, <1>1, <1>2 DEF Excused, PurgedBeside
  <2>4. QED BY <2>2, <2>3 DEF Excused
<1>9. Births'
  <2> SUFFICES ASSUME NEW b \in Req PROVE Born(b)'
    BY DEF Births
  <2>1. Born(b)
    BY DEF IInv, Births
  <2>2. CASE b = r
    BY <2>2, <1>2, <1>4, <1>5 DEF Born, Before, After, BookOps
  <2>3. CASE b # r
    <3>1. \A q \in Req : arg'[q].book = arg[q].book
      BY <1>2, <1>4
    <3>2. QED BY <2>1, <2>3, <3>1, <1>1, <1>2 DEF Born
  <2>4. QED BY <2>2, <2>3
<1>10. Meetings'
  BY <1>1, <1>6 DEF IInv, Meetings
<1>11. Aims'
  <2> SUFFICES ASSUME NEW q \in InFlight, arg'[q].op = "update"
               PROVE  There(arg[q].book)' \/ Excused(arg[q].book)'
    BY <1>6 DEF Aims
  <2>1. arg'[q] = arg[q]
    BY <1>2, <1>6 DEF InFlight
  <2>2. There(arg[q].book) \/ Excused(arg[q].book)
    BY <2>1 DEF IInv, Aims
  <2>3. Excused(arg[q].book) => Excused(arg[q].book)'
    BY <1>8, <2>1
  <2>4. QED BY <2>1, <2>2, <2>3, <1>1
<1>12. Sweeps'
  <2> SUFFICES ASSUME NEW k \in links', k[1] \in Req, Importing(k[1])',
                      Unlinked(k[1], k[2])'
               PROVE  PurgedBeside(k[1])' \/ k[1] \in unpurged'
    BY DEF Sweeps
  <2>1. k[1] # r
    BY <1>4, <1>5 DEF BookOps
  <2>2. PurgedBeside(k[1]) \/ k[1] \in unpurged
    BY <2>1, <1>2 DEF IInv, Sweeps, Unlinked
  <2>3. Excused(k[1])' /\ ~UndoneCreate(k[1])'
    BY <2>2, <1>8 DEF Excused, UndoneCreate
  <2>4. QED BY <2>3 DEF Excused
<1>13. LinksResolve' /\ LinksOwned'
  <2>1. LinksResolve'
    BY DEF LinksResolve
  <2>2. LinksOwned'
    BY <1>1, <1>8 DEF IInv, LinksOwned, Excused
  <2>3. QED BY <2>1, <2>2
<1>14. Images'
  BY <1>1, <1>2 DEF IInv, Images
<1>15. CoverThere'
  BY <1>1 DEF IInv, CoverThere
<1>16. QED
  BY <1>3, <1>7, <1>9, <1>10, <1>11, <1>12, <1>13, <1>14, <1>15 DEF IInv

LEMMA InvTerm ==
  ASSUME IInv, NEW r \in Req, CreateTerm(r) \/ RenameTerm(r) \/ DeleteTerm(r)
  PROVE  IInv'
<1>1. name \in [Term -> Name \cup {None}] /\ links \subseteq Id \X Term /\ None \notin Name
  BY NoneIsApart DEF IInv, TypeOK
<1>2. \A k \in links : k[2] \in Term /\ name[k[2]] # None
  BY <1>1 DEF IInv, LinksResolve
<1>3. \A t \in Term, n \in Name : LET N == [name EXCEPT ![t] = n] IN
         N \in [Term -> Name \cup {None}] /\ \A k \in links : N[k[2]] # None
  BY <1>1, <1>2
<1>4. CASE CreateTerm(r)
  <2>1. PICK t \in Term, n \in Name :
           /\ UNCHANGED links /\ name' \in {name, [name EXCEPT ![t] = n]}
           /\ Answer(r, "create_term", "ok") \/ Answer(r, "create_term", "error")
    BY <1>4 DEF CreateTerm, Term, Author, Tag, Id
  <2>2. QED BY <2>1, <1>1, <1>2, <1>3, InvAnswer DEF TermOps
<1>5. CASE RenameTerm(r)
  <2>1. PICK t \in Term, n \in Name :
           /\ UNCHANGED links /\ name' \in {name, [name EXCEPT ![t] = n]}
           /\ Answer(r, "rename_term", "ok") \/ Answer(r, "rename_term", "error")
    BY <1>5 DEF RenameTerm
  <2>2. QED BY <2>1, <1>1, <1>2, <1>3, InvAnswer DEF TermOps
<1>6. CASE DeleteTerm(r)
  <2>1. PICK t \in Term :
           \/ Answer(r, "delete_term", "error") /\ UNCHANGED <<name, links>>
           \/ /\ Answer(r, "delete_term", "ok") /\ name' = [name EXCEPT ![t] = None]
              /\ links' = {k \in links : k[2] # t}
    BY <1>6 DEF DeleteTerm
  <2>2. CASE Answer(r, "delete_term", "error") /\ UNCHANGED <<name, links>>
    BY <2>2, <1>1, <1>2, InvAnswer DEF TermOps
  <2>3. CASE /\ Answer(r, "delete_term", "ok") /\ name' = [name EXCEPT ![t] = None]
             /\ links' = {k \in links : k[2] # t}
    <3>1. name' \in [Term -> Name \cup {None}] /\ \A k \in links' : name'[k[2]] # None
      BY <2>3, <1>1, <1>2
    <3>2. QED BY <2>3, <3>1, InvAnswer DEF TermOps
  <2>4. QED BY <2>1, <2>2, <2>3
<1>7. QED BY <1>4, <1>5, <1>6

-----------------------------------------------------------------------------
\* What a request about books asks for.
LEMMA AsksFor ==
  ASSUME IInv, NEW r \in Req, NEW o \in BookOps, NEW a \in Asks(r, o)
  PROVE  /\ a \in Arg /\ a.op = o
         /\ o \in {"create", "import"} => a.book = r
         /\ o \in {"update", "add_file", "cover"} => a.book \in Id /\ There(a.book)
         /\ o = "import" => a.terms = {}
         /\ o = "cover" => a.ext # None
<1> DEFINE A(b, T, n, e) == [op |-> o, book |-> b, terms |-> T, name |-> n, ext |-> e]
           B == {b \in Id : There(b)}
<1>1. \A T \in OneOf(Shown) : T \subseteq Term
  BY DEF OneOf, Shown
<1>2. r \in Id /\ o \in BookOps \cup TermOps \cup {None}
  BY DEF Id
<1>3. \A b \in Id, T \in SUBSET Term, n \in Name \cup {None}, e \in Ext \cup {None} :
         A(b, T, n, e) \in Arg
  BY <1>2 DEF Arg
<1>4. CASE o = "create"
  <2>1. PICK T \in OneOf(Shown) : a = A(r, T, None, None)
    BY <1>4 DEF Asks
  <2>2. QED BY <2>1, <1>1, <1>2, <1>3, <1>4
<1>5. CASE o = "update"
  <2>1. PICK b \in B, T \in OneOf(Shown) : a = A(b, T, None, None)
    BY <1>5 DEF Asks
  <2>2. QED BY <2>1, <1>1, <1>2, <1>3, <1>5
<1>6. CASE o = "add_file"
  <2>1. PICK b \in B : a = A(b, {}, None, None)
    BY <1>6 DEF Asks
  <2>2. QED BY <2>1, <1>2, <1>3, <1>6
<1>7. CASE o = "cover"
  <2>1. PICK b \in B, e \in Ext : a = A(b, {}, None, e)
    BY <1>7 DEF Asks
  <2>2. QED BY <2>1, <1>2, <1>3, <1>7, NoneIsApart
<1>8. CASE o = "import"
  <2>1. PICK i \in Imported : a = A(r, {}, i.name, i.ext)
    BY <1>8 DEF Asks
  <2>2. i.name \in Name \cup {None} /\ i.ext \in Ext \cup {None}
    BY DetailImports
  <2>3. QED BY <2>1, <2>2, <1>2, <1>3, <1>8
<1>9. QED BY <1>4, <1>5, <1>6, <1>7, <1>8 DEF BookOps

\* A request about a book begins.
LEMMA InvStart ==
  ASSUME IInv, NEW r \in Req, Start(r)
  PROVE  IInv'
<1>o. PICK o \in BookOps : \E a \in Asks(r, o) :
         /\ arg' = [arg EXCEPT ![r] = a]
         /\ pc' = [pc EXCEPT ![r] = FirstStep[o]]
  BY DEF Start
<1>1. PICK a \in Asks(r, o) :
         /\ arg' = [arg EXCEPT ![r] = a]
         /\ pc' = [pc EXCEPT ![r] = FirstStep[o]]
  BY <1>o
<1>2. /\ pc[r] = "idle" /\ Meet(r)
      /\ UNCHANGED <<read, authors, rows, files, faults, latest, unpurged>>
  BY DEF Start
<1>3. /\ a \in Arg /\ a.op = o
      /\ o \in {"create", "import"} => a.book = r
      /\ o \in {"update", "add_file", "cover"} => a.book \in Id /\ There(a.book)
      /\ o = "import" => a.terms = {}
      /\ o = "cover" => a.ext # None
  BY AsksFor
<1>4. /\ o \in {"create", "import"} => FirstStep[o] = "k_dir"
      /\ o = "update" => FirstStep[o] = "e_check"
      /\ o = "add_file" => FirstStep[o] = "a_book"
      /\ o = "cover" => FirstStep[o] = "v_check"
      /\ FirstStep[o] \in {"k_dir", "e_check", "a_book", "v_check"}
  BY DEF FirstStep, BookOps
<1>5. /\ pc'[r] = FirstStep[o] /\ arg'[r] = a
      /\ \A q \in Req \ {r} : pc'[q] = pc[q] /\ arg'[q] = arg[q]
  BY <1>1 DEF IInv, TypeOK, Shapes
<1>6. arg[r] = NoArg /\ arg[r].op = None /\ arg[r].book = None
  BY <1>2 DEF IInv, Shapes, Shaped, NoArg
<1>7. InFlight' = InFlight \cup {r} /\ r \notin InFlight /\ InFlight \subseteq Req
  BY <1>2, <1>4, <1>5 DEF InFlight
<1>8. /\ met'[r] = InFlight
      /\ \A q \in Req \ {r} : met[q] \subseteq met'[q]
      /\ \A q \in InFlight : r \in met'[q]
      /\ met' \in [Req -> SUBSET Req]
  BY <1>2, <1>7 DEF Meet, IInv, TypeOK
<1>9. TypeOK'
  BY <1>1, <1>2, <1>4, <1>8 DEF IInv, TypeOK
<1>10. Shapes'
  <2>1. arg' \in [Req -> Arg]
    BY <1>1, <1>3 DEF IInv, Shapes
  <2>2. ASSUME NEW q \in Req PROVE Shaped(q)'
    <3>1. Shaped(q)
      BY DEF IInv, Shapes
    <3>2. CASE q # r
      BY <3>1, <3>2, <1>2, <1>5 DEF Shaped
    <3>3. CASE q = r
      BY <3>3, <1>3, <1>4, <1>5 DEF Shaped, StepsOf, Reading, BookOps
    <3>4. QED BY <3>2, <3>3
  <2>3. QED BY <2>1, <2>2 DEF Shapes
<1>11. \A b : Excused(b) => Excused(b)' /\ (b # r \/ b \in unpurged)
  <2> SUFFICES ASSUME NEW b, Excused(b), b \notin unpurged PROVE Excused(b)' /\ b # r
    BY <1>2 DEF Excused
  <2>1. b \in Req /\ b # r /\ met[b] \in SUBSET Req
    BY <1>2, <1>6, NoneIsApart DEF Excused, UndoneCreate, PurgedBeside, BookOps, IInv, TypeOK
  <2>2. CASE UndoneCreate(b)
    BY <2>1, <2>2, <1>5 DEF Excused, UndoneCreate
  <2>3. CASE PurgedBeside(b)
    <3>1. PICK q \in met[b] : arg[q].op = "update" /\ arg[q].book = b
      BY <2>3 DEF PurgedBeside
    <3>2. q # r /\ q \in Req /\ q \in met'[b]
      BY <3>1, <2>1, <1>6, <1>8, NoneIsApart DEF BookOps
    <3>3. QED BY <3>1, <3>2, <2>1, <2>3, <1>5 DEF Excused, PurgedBeside
  <2>4. QED BY <2>1, <2>2, <2>3 DEF Excused
<1>12. ~There(r) /\ \A q \in Req \ {r} : arg[q].book # r
  BY <1>2 DEF IInv, Births, Born, Before
<1>13. Births'
  <2> SUFFICES ASSUME NEW b \in Req PROVE Born(b)'
    BY DEF Births
  <2>1. Born(b)
    BY DEF IInv, Births
  <2>2. CASE b = r
    BY <2>2, <1>2, <1>3, <1>4, <1>5, <1>12 DEF Born, Before, After, BookOps
  <2>3. CASE b # r
    <3>1. pc[b] \in Before => arg'[r].book # b
      BY <2>1, <2>3, <1>3, <1>5 DEF Born, BookOps
    <3>2. QED BY <2>1, <2>3, <3>1, <1>2, <1>5 DEF Born
  <2>4. QED BY <2>2, <2>3
<1>14. Meetings'
  BY <1>7, <1>8 DEF IInv, Meetings
<1>15. Aims'
  <2> SUFFICES ASSUME NEW q \in InFlight', arg'[q].op = "update"
               PROVE  There(arg[q].book)' \/ Excused(arg[q].book)'
    BY DEF Aims
  <2>1. CASE q = r
    BY <2>1, <1>2, <1>3, <1>5
  <2>2. CASE q # r
    <3>1. arg'[q] = arg[q] /\ q \in InFlight
      BY <2>2, <1>5, <1>7
    <3>2. There(arg[q].book) \/ Excused(arg[q].book)
      BY <3>1 DEF IInv, Aims
    <3>3. Excused(arg[q].book) => Excused(arg[q].book)'
      BY <1>11, <3>1
    <3>4. QED BY <3>1, <3>2, <3>3, <1>2
  <2>3. QED BY <2>1, <2>2
<1>16. Sweeps'
  <2> SUFFICES ASSUME NEW k \in links, k[1] \in Req, Importing(k[1])',
                      Unlinked(k[1], k[2])'
               PROVE  PurgedBeside(k[1])' \/ k[1] \in unpurged'
    BY <1>2 DEF Sweeps
  <2>1. There(k[1]) \/ Excused(k[1])
    BY DEF IInv, LinksOwned, Excused
  <2>2. k[1] # r \/ k[1] \in unpurged
    BY <2>1, <1>11, <1>12
  <2>3. PurgedBeside(k[1]) \/ k[1] \in unpurged
    BY <2>2, <1>5 DEF IInv, Sweeps, Unlinked
  <2>4. Excused(k[1])' /\ ~UndoneCreate(k[1])'
    BY <2>3, <1>11 DEF Excused, UndoneCreate
  <2>5. QED BY <2>4 DEF Excused
<1>17. LinksResolve' /\ LinksOwned'
  <2>1. LinksResolve'
    BY <1>2 DEF IInv, LinksResolve
  <2>2. LinksOwned'
    BY <1>2, <1>11 DEF IInv, LinksOwned, Excused
  <2>3. QED BY <2>1, <2>2
<1>18. Images'
  BY <1>2, <1>4, <1>5 DEF IInv, Images
<1>19. CoverThere'
  BY <1>2 DEF IInv, CoverThere
<1>20. QED
  BY <1>9, <1>10, <1>13, <1>14, <1>15, <1>16, <1>17, <1>18, <1>19 DEF IInv

-----------------------------------------------------------------------------
\* Every step of a request.
LEMMA InvCreate ==
  ASSUME IInv, NEW r \in Req, Create(r)
  PROVE  IInv'
<1>1. CASE KDir(r) \/ KTx(r)
  BY <1>1, InvKDir, InvKTx
<1>2. CASE ReadBook(r, "k_book", "k_links", "k_unrow")
  BY <1>2, GoesCreate, InvReadBook DEF ReadBook, Reading
<1>3. CASE ReadLinks(r, "k_links", "k_open")
  BY <1>3, GoesCreate, InvReadLinks DEF ReadLinks, Reading
<1>4. CASE WriteMetadata(r, "k_write", IF Importing(r) THEN "i_file" ELSE "ok", "k_unrow")
  <2> DEFINE l == IF Importing(r) THEN "i_file" ELSE "ok"
  <2>1. pc[r] = "k_write" /\ Allowed(r, l) /\ Allowed(r, "k_unrow")
    BY <1>4, GoesCreate DEF WriteMetadata
  <2>2. l \in {"i_file", "ok"}
    OBVIOUS
  <2> HIDE DEF l
  <2>3. WriteMetadata(r, "k_write", l, "k_unrow")
    BY <1>4 DEF l
  <2>4. QED BY <2>1, <2>2, <2>3, InvWriteMetadata DEF Reading
<1>5. CASE DeleteRow(r, "k_unrow", "k_rmdir")
  BY <1>5, InvDeleteRow
<1>6. CASE RemoveFolder(r, "k_rmdir")
  BY <1>6, InvRemoveFolder
<1>7. CASE OpenMetadata(r, "k_open", "k_write", "k_unrow")
  BY <1>7, GoesCreate, InvOpenMetadata DEF OpenMetadata, Reading
<1>8. QED BY <1>1, <1>2, <1>3, <1>4, <1>5, <1>6, <1>7 DEF Create

LEMMA InvUpdate ==
  ASSUME IInv, NEW r \in Req, Update(r)
  PROVE  IInv'
<1>1. CASE Check(r, "e_check", "e_tx")
  BY <1>1, GoesUpdate, InvStep DEF Check, Reading
<1>2. CASE ETx(r)
  BY <1>2, InvETx
<1>3. CASE ReadBook(r, "e_book", "e_links", Refused(r))
  BY <1>3, GoesUpdate, InvReadBook DEF ReadBook, Reading, Refused
<1>4. CASE ReadLinks(r, "e_links", "e_open")
  BY <1>4, GoesUpdate, InvReadLinks DEF ReadLinks, Reading
<1>5. CASE \E l \in AfterUpdate(r) : WriteMetadata(r, "e_write", l, Refused(r))
  <2>1. PICK l \in AfterUpdate(r) : WriteMetadata(r, "e_write", l, Refused(r))
    BY <1>5
  <2>2. pc[r] = "e_write" /\ Allowed(r, l) /\ Allowed(r, Refused(r))
    BY <2>1, GoesUpdate DEF WriteMetadata
  <2>3. l \in {"ok", "v_open", "p_authors"} /\ Refused(r) \in {"p_authors", "error"}
    BY DEF AfterUpdate, Refused
  <2>4. QED BY <2>1, <2>2, <2>3, InvWriteMetadata DEF Reading
<1>6. CASE OpenMetadata(r, "e_open", "e_write", Refused(r))
  BY <1>6, GoesUpdate, InvOpenMetadata DEF OpenMetadata, Reading, Refused
<1>7. QED BY <1>1, <1>2, <1>3, <1>4, <1>5, <1>6 DEF Update

LEMMA InvAddFile ==
  ASSUME IInv, NEW r \in Req, AddFile(r)
  PROVE  IInv'
<1> DEFINE next == IF Importing(r) THEN "i_find" ELSE "ok"
<1>1. /\ ReadBook(r, "a_book", "a_links", next)
         \/ ReadLinks(r, "a_links", "a_open")
         \/ OpenMetadata(r, "a_open", "a_write", next)
         \/ WriteMetadata(r, "a_write", next, next)
      /\ next \in {"i_find", "ok"}
      /\ pc[r] = "a_book" => Allowed(r, "a_links") /\ Allowed(r, next)
      /\ pc[r] = "a_links" => Allowed(r, "a_open")
      /\ pc[r] = "a_open" => Allowed(r, "a_write")
      /\ pc[r] \in {"a_open", "a_write"} => Allowed(r, next)
  BY GoesAddFile DEF AddFile
<1> HIDE DEF next
<1>2. CASE ReadBook(r, "a_book", "a_links", next)
  BY <1>1, <1>2, InvReadBook DEF ReadBook, Reading
<1>3. CASE ReadLinks(r, "a_links", "a_open")
  BY <1>1, <1>3, InvReadLinks DEF ReadLinks, Reading
<1>4. CASE WriteMetadata(r, "a_write", next, next)
  BY <1>1, <1>4, InvWriteMetadata DEF WriteMetadata, Reading
<1>5. CASE OpenMetadata(r, "a_open", "a_write", next)
  BY <1>1, <1>5, InvOpenMetadata DEF OpenMetadata, Reading
<1>6. QED BY <1>1, <1>2, <1>3, <1>4, <1>5

LEMMA InvSetCover ==
  ASSUME IInv, NEW r \in Req, SetCover(r)
  PROVE  IInv'
<1>1. CASE Check(r, "v_check", "v_open")
  BY <1>1, GoesCover, InvStep DEF Check, Reading
<1>2. QED BY <1>1, InvVOpen, InvVWrite, InvVRow, InvVUndo DEF SetCover

LEMMA InvImport ==
  ASSUME IInv, NEW r \in Req, Import(r)
  PROVE  IInv'
<1>1. CASE IFile(r)
  BY <1>1, GoesImport, InvStep DEF IFile, Reading
<1>2. CASE IFind(r) \/ IMake(r) \/ PAuthors(r) \/ PTags(r)
  BY <1>2, InvIFind, InvIMake, InvUnlink
<1>3. CASE DeleteRow(r, "p_row", "p_dir")
  BY <1>3, InvDeleteRow
<1>4. CASE RemoveFolder(r, "p_dir")
  BY <1>4, InvRemoveFolder
<1>5. QED BY <1>1, <1>2, <1>3, <1>4 DEF Import

\* Every step keeps the invariant.
LEMMA Inductive == IInv /\ [Next]_vars => IInv'
<1> SUFFICES ASSUME IInv, [Next]_vars PROVE IInv'
  OBVIOUS
<1>1. CASE UNCHANGED vars
  BY <1>1 DEF vars, IInv, TypeOK, Shapes, Shaped, Births, Born, Meetings, Aims, Sweeps,
              Images, LinksResolve, LinksOwned, CoverThere, InFlight, Excused,
              UndoneCreate, PurgedBeside, Unlinked
<1>2. CASE Next
  <2>1. PICK r \in Req :
           \/ Start(r) \/ Create(r) \/ Update(r) \/ AddFile(r) \/ SetCover(r)
           \/ Import(r) \/ CreateTerm(r) \/ RenameTerm(r) \/ DeleteTerm(r)
    BY <1>2 DEF Next
  <2>2. QED BY <2>1, InvStart, InvCreate, InvUpdate, InvAddFile, InvSetCover, InvImport,
               InvTerm
<1>3. QED BY <1>1, <1>2

-----------------------------------------------------------------------------
\* IInv holds in every state, whatever the requests ask for and however their
\* statements interleave.
THEOREM Invariance == Spec => []IInv
<1>1. QED BY InitIInv, Inductive, PTL DEF Spec

\* Every variable has its type.
THEOREM DetailsTyped == Spec => []TypeOK
<1>1. IInv => TypeOK
  BY DEF IInv
<1>2. QED BY <1>1, Invariance, PTL

\* No link of a book leads to an author or a tag that is gone: the deletion of
\* an author takes its links in the same transaction, and replaceLinks checks
\* in the transaction that writes the links.
THEOREM LinksLeadSomewhere == Spec => []LinksResolve
<1>1. IInv => LinksResolve
  BY DEF IInv
<1>2. QED BY <1>1, Invariance, PTL

\* Links of a book that is gone are left by a Create that is undone, by an
\* Update beside the purge of an import and by a purge that could not delete
\* them, and by nothing else.
THEOREM LinksHaveTheirBook == Spec => []LinksOwned
<1>1. IInv => LinksOwned
  BY DEF IInv
<1>2. QED BY <1>1, Invariance, PTL

\* As long as no call fails, a cover that a book names has its file: saveCover
\* writes before it records, and removes only what it could not record.
THEOREM CoversHaveTheirFile == Spec => []CoverThere
<1>1. IInv => CoverThere
  BY DEF IInv
<1>2. QED BY <1>1, Invariance, PTL

-----------------------------------------------------------------------------
(* What a step of a request that is under way does to each part of the     *)
(* state, so that what is current can be reasoned about by part and not by *)
(* step.                                                                   *)

Work(r) == Create(r) \/ Update(r) \/ AddFile(r) \/ SetCover(r) \/ Import(r)

Moves(r) ==
    /\ pc[r] \in Running /\ pc'[r] # "idle" /\ UNCHANGED <<arg, met>>
    /\ \A q \in Req \ {r} : pc'[q] = pc[q] /\ read'[q] = read[q]
    /\ faults' \in Nat /\ faults' >= faults

RowsBy(r) ==
    /\ pc[r] = "e_tx" /\ pc'[r] = "e_book" /\ There(arg[r].book) =>
          row'[arg[r].book].text = r
    /\ \A b \in Id :
        \/ row'[b] = row[b]
        \/ row'[b] = None
        \/ /\ pc[r] = "k_tx" /\ b = r /\ row'[b] = [text |-> r, cover |-> None]
           /\ pc'[r] = "k_book"
        \/ /\ pc[r] = "e_tx" /\ b = arg[r].book /\ There(b)
           /\ row'[b] = [row[b] EXCEPT !.text = r] /\ pc'[r] = "e_book"
        \/ /\ pc[r] = "v_row" /\ b = arg[r].book /\ There(b)
           /\ row'[b] = [row[b] EXCEPT !.cover = arg[r].ext] /\ latest'[b] = r

LatestBy(r) ==
    \/ UNCHANGED latest
    \/ LET b == arg[r].book IN
       /\ pc[r] = "v_row" /\ pc'[r] = "ok" /\ latest' = [latest EXCEPT ![b] = r]
       /\ There(b) => row'[b] = [row[b] EXCEPT !.cover = arg[r].ext]

LinksBy(r) ==
    \A l \in links' \ links :
        /\ l[1] = arg[r].book
        /\ \/ pc[r] = "k_tx" /\ pc'[r] = "k_book"
           \/ pc[r] = "e_tx" /\ pc'[r] = "e_book"
        /\ row'[l[1]] # None => row'[l[1]].text = r

Opening == {"k_open", "e_open", "a_open"}

Wrote(r) ==
    LET b == arg[r].book IN
    \E m \in Write(meta[b], read[r]) : meta' = [meta EXCEPT ![b] = m]

FilesBy(r) ==
    /\ \/ UNCHANGED meta
       \/ /\ meta' = [meta EXCEPT ![arg[r].book] = Empty]
          /\ pc[r] \in Opening /\ (pc[r] = "a_open" => pc'[r] = "a_write")
       \/ Wrote(r) /\ pc[r] \in {"k_write", "e_write", "a_write"}
       \/ meta' = [meta EXCEPT ![r] = None] /\ pc[r] \in After
    /\ folders \subseteq folders' \/ (pc[r] \in After /\ folders' = folders \ {r})
    /\ pc'[r] = "k_tx" => r \in folders'

ReadsBy(r) ==
    LET b == arg[r].book IN
    pc'[r] \in Reading =>
        \/ /\ pc'[r] \in {"k_links", "e_links", "a_links"} /\ There(b)
           /\ read'[r] = [text |-> row[b].text, terms |-> {}]
           /\ UNCHANGED <<row, links, meta>>
        \/ /\ pc[r] \in Reading /\ pc'[r] \in Opening
           /\ read'[r] = [read[r] EXCEPT !.terms = Linked(b)]
           /\ UNCHANGED <<row, links, meta>>
        \/ /\ pc[r] \in Opening /\ pc'[r] \in {"k_write", "e_write", "a_write"}
           /\ meta' = [meta EXCEPT ![b] = Empty]
           /\ UNCHANGED <<row, links, read>>

TellsBy(r) ==
    LET b == arg[r].book IN
    /\ pc'[r] \in Telling =>
          \/ pc[r] \in Telling
          \/ pc[r] = "k_tx" /\ pc'[r] = "k_book"
          \/ pc[r] = "e_tx" /\ pc'[r] = "e_book"
    /\ pc[r] \in Telling /\ faults' = 0 /\ There(b) /\ b \in folders =>
          pc'[r] \in Telling \/ (pc[r] \in {"k_write", "e_write"} /\ Wrote(r))
    /\ pc[r] = "a_write" /\ faults' = 0 => Wrote(r)

ImagesBy(r) ==
    \A b \in Id, e \in Ext :
        \/ image'[b][e] = image[b][e]
        \/ pc[r] \in After /\ b = r
        \/ /\ b = arg[r].book /\ e = arg[r].ext
           /\ \/ pc[r] = "v_open" /\ pc'[r] = "v_write"
              \/ pc[r] = "v_write" /\ pc'[r] = "v_row"
              \/ pc[r] = "v_undo"

CoversBy(r) ==
    LET b == arg[r].book  e == arg[r].ext IN
    /\ pc'[r] = "v_write" => image'[b][e] = "empty"
    /\ pc'[r] = "v_row" =>
          pc[r] = "v_write" /\ (image[b][e] = "empty" => image'[b][e] = r)
    /\ pc[r] = "v_write" /\ faults' = 0 => pc'[r] = "v_row"
    /\ pc[r] = "v_row" /\ faults' = 0 => pc'[r] = "ok" /\ latest'[b] = r /\ UNCHANGED image

NamesBy(r) ==
    /\ pc'[r] = "i_make" =>
          pc[r] = "i_find" /\ NamedBy(arg[r].name) = {} /\ UNCHANGED name
    /\ \A q \in Req :
          Made(q)' = Made(q) \/ (q = r /\ pc[r] = "i_make" /\ Made(r)' = arg[r].name)

Effects(r) ==
    /\ Moves(r) /\ RowsBy(r) /\ LatestBy(r) /\ LinksBy(r) /\ FilesBy(r) /\ ReadsBy(r)
    /\ TellsBy(r) /\ ImagesBy(r) /\ CoversBy(r) /\ NamesBy(r)

\* A step that only goes on, and a call that fails.
LEMMA EffectsOfStep ==
  ASSUME IInv, NEW r \in Req, NEW l, pc[r] \in Running, Step(r, l) \/ Fail(r, l),
         l \notin Reading \cup
                  {"idle", "k_tx", "k_book", "e_book", "i_make", "v_write", "v_row"},
         pc[r] \in Telling /\ There(arg[r].book) /\ arg[r].book \in folders => Fail(r, l),
         pc[r] \in {"v_write", "v_row", "a_write"} => Fail(r, l)
  PROVE  Effects(r)
<1>1. /\ pc' = [pc EXCEPT ![r] = l] /\ UNCHANGED <<arg, met, read, rows, files, latest>>
      /\ pc'[r] = l /\ \A q \in Req \ {r} : pc'[q] = pc[q]
  BY DEF Fail, IInv, TypeOK
<1>2. faults' \in Nat /\ faults' >= faults /\ (Fail(r, l) => faults' # 0)
  BY DetailBounds DEF Fail, IInv, TypeOK
<1>3. Moves(r) /\ RowsBy(r) /\ LatestBy(r) /\ LinksBy(r) /\ FilesBy(r) /\ ReadsBy(r)
  BY <1>1, <1>2 DEF Moves, RowsBy, LatestBy, LinksBy, FilesBy, ReadsBy
<1>4. TellsBy(r) /\ ImagesBy(r) /\ CoversBy(r) /\ NamesBy(r)
  BY <1>1, <1>2 DEF TellsBy, ImagesBy, CoversBy, NamesBy, Made, Telling, Reading
<1>5. QED BY <1>3, <1>4 DEF Effects

LEMMA EffectsOfReadBook ==
  ASSUME IInv, NEW r \in Req, NEW l, NEW next, NEW failed,
         pc[r] \in Running \ {"v_write", "v_row", "a_write"},
         ReadBook(r, l, next, failed), next \in {"k_links", "e_links", "a_links"},
         pc[r] \in Telling <=> next \in Telling,
         failed \in {"k_unrow", "p_authors", "error", "i_find", "ok"}
  PROVE  Effects(r)
<1>1. CASE (~There(arg[r].book) /\ Step(r, failed)) \/ Fail(r, failed)
  BY <1>1, EffectsOfStep DEF Reading
<1>2. CASE ~((~There(arg[r].book) /\ Step(r, failed)) \/ Fail(r, failed))
  <2>0. There(arg[r].book)
    BY <1>2 DEF ReadBook
  <2>1. /\ read' = [read EXCEPT ![r] = [text |-> row[arg[r].book].text, terms |-> {}]]
        /\ pc' = [pc EXCEPT ![r] = next]
        /\ UNCHANGED <<arg, faults, met, rows, files, latest>>
    BY <1>2 DEF ReadBook
  <2>2. /\ pc'[r] = next /\ \A q \in Req \ {r} : pc'[q] = pc[q] /\ read'[q] = read[q]
        /\ read'[r] = [text |-> row[arg[r].book].text, terms |-> {}]
    BY <2>1 DEF IInv, TypeOK
  <2>3. faults' \in Nat /\ faults' >= faults
    BY <2>1, DetailBounds DEF IInv, TypeOK
  <2>4. Moves(r) /\ RowsBy(r) /\ LatestBy(r) /\ LinksBy(r) /\ FilesBy(r)
    BY <2>1, <2>2, <2>3 DEF Moves, RowsBy, LatestBy, LinksBy, FilesBy
  <2>5. ReadsBy(r)
    BY <2>0, <2>1, <2>2 DEF ReadsBy
  <2>6. pc[r] \in Telling <=> pc'[r] \in Telling
    BY <2>2
  <2>7. TellsBy(r) /\ ImagesBy(r) /\ CoversBy(r) /\ NamesBy(r)
    BY <2>1, <2>2, <2>6 DEF TellsBy, ImagesBy, CoversBy, NamesBy, Made
  <2>8. QED BY <2>4, <2>5, <2>7 DEF Effects
<1>3. QED BY <1>1, <1>2

LEMMA EffectsOfReadLinks ==
  ASSUME IInv, NEW r \in Req, NEW l, NEW next, pc[r] \in Reading \ {"a_write"},
         ReadLinks(r, l, next), next \in Opening, pc[r] \in Telling <=> next \in Telling
  PROVE  Effects(r)
<1>1. /\ read' = [read EXCEPT ![r].terms = Linked(arg[r].book)]
      /\ pc' = [pc EXCEPT ![r] = next]
      /\ UNCHANGED <<arg, faults, met, rows, files, latest>>
  BY DEF ReadLinks
<1>2. /\ pc'[r] = next /\ \A q \in Req \ {r} : pc'[q] = pc[q] /\ read'[q] = read[q]
      /\ read'[r] = [read[r] EXCEPT !.terms = Linked(arg[r].book)]
  BY <1>1 DEF IInv, TypeOK
<1>3. faults' \in Nat /\ faults' >= faults
  BY <1>1, DetailBounds DEF IInv, TypeOK
<1>4. Moves(r) /\ RowsBy(r) /\ LatestBy(r) /\ LinksBy(r) /\ FilesBy(r)
  BY <1>1, <1>2, <1>3 DEF Moves, RowsBy, LatestBy, LinksBy, FilesBy, Reading, Opening
<1>5. ReadsBy(r)
  BY <1>1, <1>2 DEF ReadsBy, Reading, Opening
<1>6. pc[r] \notin {"v_write", "v_row", "v_open", "i_find"}
  BY DEF Reading
<1>7. TellsBy(r) /\ ImagesBy(r) /\ CoversBy(r) /\ NamesBy(r)
  BY <1>1, <1>2, <1>6 DEF TellsBy, ImagesBy, CoversBy, NamesBy, Made, Opening
<1>8. QED BY <1>4, <1>5, <1>7 DEF Effects

LEMMA EffectsOfOpenMetadata ==
  ASSUME IInv, NEW r \in Req, NEW l, NEW next, NEW failed, At(r, l),
         <<l, next>> \in {<<"k_open", "k_write">>, <<"e_open", "e_write">>,
                         <<"a_open", "a_write">>},
         OpenMetadata(r, l, next, failed),
         failed \in {"k_unrow", "p_authors", "error", "i_find", "ok"}
  PROVE  Effects(r)
<1>0. l \in Opening /\ (l = "a_open" <=> next = "a_write")
      /\ next \in {"k_write", "e_write", "a_write"}
  BY DEF Opening
<1>1. CASE (Step(r, failed) /\ arg[r].book \notin folders) \/ Fail(r, failed)
  BY <1>0, <1>1, EffectsOfStep DEF Reading, Opening
<1>2. CASE ~((Step(r, failed) /\ arg[r].book \notin folders) \/ Fail(r, failed))
  <2>1. /\ meta' = [meta EXCEPT ![arg[r].book] = Empty]
        /\ pc' = [pc EXCEPT ![r] = next]
        /\ UNCHANGED <<arg, faults, met, read, rows, folders, image, latest>>
    BY <1>2 DEF OpenMetadata
  <2>2. pc'[r] = next /\ \A q \in Req \ {r} : pc'[q] = pc[q] /\ read'[q] = read[q]
    BY <2>1 DEF IInv, TypeOK
  <2>3. faults' \in Nat /\ faults' >= faults
    BY <2>1, DetailBounds DEF IInv, TypeOK
  <2>4. Moves(r) /\ RowsBy(r) /\ LatestBy(r) /\ LinksBy(r) /\ FilesBy(r)
    BY <1>0, <2>1, <2>2, <2>3 DEF Moves, RowsBy, LatestBy, LinksBy, FilesBy, Opening
  <2>5. ReadsBy(r) /\ TellsBy(r)
    BY <1>0, <2>1, <2>2 DEF ReadsBy, TellsBy, Reading, Telling, Opening
  <2>6. ImagesBy(r) /\ CoversBy(r) /\ NamesBy(r)
    BY <1>0, <2>1, <2>2 DEF ImagesBy, CoversBy, NamesBy, Made, Opening
  <2>7. QED BY <2>4, <2>5, <2>6 DEF Effects
<1>3. QED BY <1>1, <1>2

LEMMA EffectsOfWriteMetadata ==
  ASSUME IInv, NEW r \in Req, NEW l, NEW next, NEW failed, At(r, l),
         l \in {"k_write", "e_write", "a_write"}, WriteMetadata(r, l, next, failed),
         next \in {"i_file", "ok", "v_open", "p_authors", "i_find"},
         failed \in {"k_unrow", "p_authors", "error", "i_find", "ok"}
  PROVE  Effects(r)
<1>1. CASE Fail(r, failed)
  BY <1>1, EffectsOfStep DEF Reading
<1>2. CASE ~Fail(r, failed)
  <2>1. /\ Wrote(r)
        /\ read' = [read EXCEPT ![r] = None]
        /\ pc' = [pc EXCEPT ![r] = next]
        /\ UNCHANGED <<arg, faults, met, rows, folders, image, latest>>
    BY <1>2 DEF WriteMetadata, Wrote
  <2>2. pc'[r] = next /\ \A q \in Req \ {r} : pc'[q] = pc[q] /\ read'[q] = read[q]
    BY <2>1 DEF IInv, TypeOK
  <2>3. faults' \in Nat /\ faults' >= faults
    BY <2>1, DetailBounds DEF IInv, TypeOK
  <2>4. Moves(r) /\ RowsBy(r) /\ LatestBy(r) /\ LinksBy(r) /\ FilesBy(r)
    BY <2>1, <2>2, <2>3 DEF Moves, RowsBy, LatestBy, LinksBy, FilesBy
  <2>5. ReadsBy(r) /\ TellsBy(r)
    BY <2>1, <2>2 DEF ReadsBy, TellsBy, Reading, Telling
  <2>6. ImagesBy(r) /\ CoversBy(r) /\ NamesBy(r)
    BY <2>1, <2>2 DEF ImagesBy, CoversBy, NamesBy, Made
  <2>7. QED BY <2>4, <2>5, <2>6 DEF Effects
<1>3. QED BY <1>1, <1>2

LEMMA EffectsOfDeleteRow ==
  ASSUME IInv, NEW r \in Req, NEW l, NEW next, DeleteRow(r, l, next),
         (l = "k_unrow" /\ next = "k_rmdir") \/ (l = "p_row" /\ next = "p_dir")
  PROVE  Effects(r)
<1>1. CASE Fail(r, next)
  BY <1>1, EffectsOfStep DEF DeleteRow, Reading
<1>2. CASE ~Fail(r, next)
  <2>1. /\ pc[r] = l /\ pc' = [pc EXCEPT ![r] = next]
        /\ row' = [row EXCEPT ![r] = None]
        /\ UNCHANGED <<arg, faults, met, read, name, links, files, latest>>
    BY <1>2 DEF DeleteRow
  <2>2. pc'[r] = next /\ \A q \in Req \ {r} : pc'[q] = pc[q]
    BY <2>1 DEF IInv, TypeOK
  <2>3. row'[r] = None /\ \A b \in Id \ {r} : row'[b] = row[b]
    BY <2>1 DEF IInv, TypeOK, Id
  <2>4. faults \in Nat
    BY DetailBounds DEF IInv, TypeOK
  <2>5. Moves(r) /\ RowsBy(r) /\ LatestBy(r) /\ LinksBy(r) /\ FilesBy(r) /\ ReadsBy(r)
    BY <2>1, <2>2, <2>3, <2>4
    DEF Moves, RowsBy, LatestBy, LinksBy, FilesBy, ReadsBy, Reading
  <2>6. TellsBy(r) /\ ImagesBy(r) /\ CoversBy(r) /\ NamesBy(r)
    BY <2>1, <2>2 DEF TellsBy, ImagesBy, CoversBy, NamesBy, Made, Telling
  <2>7. QED BY <2>5, <2>6 DEF Effects
<1>3. QED BY <1>1, <1>2

LEMMA EffectsOfRemoveFolder ==
  ASSUME IInv, NEW r \in Req, NEW l \in {"k_rmdir", "p_dir"}, RemoveFolder(r, l)
  PROVE  Effects(r)
<1>1. CASE Fail(r, "error")
  BY <1>1, EffectsOfStep DEF RemoveFolder, Reading
<1>2. CASE ~Fail(r, "error")
  <2>1. /\ pc[r] \in After /\ pc' = [pc EXCEPT ![r] = "error"]
        /\ folders' = folders \ {r} /\ meta' = [meta EXCEPT ![r] = None]
        /\ image' = [image EXCEPT ![r] = [e \in Ext |-> None]]
        /\ UNCHANGED <<arg, faults, met, read, rows, latest>>
    BY <1>2 DEF RemoveFolder, After
  <2>2. /\ pc'[r] = "error" /\ \A q \in Req \ {r} : pc'[q] = pc[q]
        /\ \A b \in Id \ {r} : image'[b] = image[b]
    BY <2>1 DEF IInv, TypeOK
  <2>3. faults' \in Nat /\ faults' >= faults
    BY <2>1, DetailBounds DEF IInv, TypeOK
  <2>4. Moves(r) /\ RowsBy(r) /\ LatestBy(r) /\ LinksBy(r) /\ FilesBy(r) /\ ReadsBy(r)
    BY <2>1, <2>2, <2>3
    DEF Moves, RowsBy, LatestBy, LinksBy, FilesBy, ReadsBy, Reading, After
  <2>5. TellsBy(r) /\ ImagesBy(r) /\ CoversBy(r) /\ NamesBy(r)
    BY <2>1, <2>2 DEF TellsBy, ImagesBy, CoversBy, NamesBy, Made, After, Telling
  <2>6. QED BY <2>4, <2>5 DEF Effects
<1>3. QED BY <1>1, <1>2

LEMMA EffectsOfCreate ==
  ASSUME IInv, NEW r \in Req, Create(r)
  PROVE  Effects(r)
<1>0. /\ pc \in [Req -> Running \cup {"idle", "ok", "error"}]
      /\ row \in [Id -> Row \cup {None}]
      /\ faults \in Nat /\ r \in Id
  BY DetailBounds DEF IInv, TypeOK, Id
<1>a. pc[r] \in Making => arg[r].book = r
  BY OpOf DEF IInv, Shapes, Shaped
<1>1. CASE KDir(r)
  <2>1. /\ pc[r] = "k_dir" /\ pc' = [pc EXCEPT ![r] = "k_tx"]
        /\ folders' = folders \cup {r}
        /\ UNCHANGED <<arg, faults, met, read, rows, meta, image, latest>>
    BY <1>1 DEF KDir
  <2>2. pc'[r] = "k_tx" /\ \A q \in Req \ {r} : pc'[q] = pc[q]
    BY <2>1, <1>0
  <2>3. Moves(r) /\ RowsBy(r) /\ LatestBy(r) /\ LinksBy(r) /\ FilesBy(r) /\ ReadsBy(r)
    BY <2>1, <2>2, <1>0 DEF Moves, RowsBy, LatestBy, LinksBy, FilesBy, ReadsBy, Reading
  <2>4. TellsBy(r) /\ ImagesBy(r) /\ CoversBy(r) /\ NamesBy(r)
    BY <2>1, <2>2 DEF TellsBy, ImagesBy, CoversBy, NamesBy, Made, Telling
  <2>5. QED BY <2>3, <2>4 DEF Effects
<1>2. CASE KTx(r)
  <2>1. CASE Step(r, "k_rmdir") \/ Fail(r, "k_rmdir")
    BY <2>1, <1>2, EffectsOfStep DEF KTx, Reading, Telling
  <2>2. CASE ~(Step(r, "k_rmdir") \/ Fail(r, "k_rmdir"))
    <3>1. /\ pc[r] = "k_tx" /\ pc' = [pc EXCEPT ![r] = "k_book"]
          /\ row' = [row EXCEPT ![r] = [text |-> r, cover |-> None]]
          /\ ReplaceLinks(r, arg[r].terms)
          /\ UNCHANGED <<arg, faults, met, read, name, files, latest>>
      BY <1>2, <2>2 DEF KTx
    <3>2. pc'[r] = "k_book" /\ \A q \in Req \ {r} : pc'[q] = pc[q]
      BY <3>1, <1>0
    <3>3. /\ row'[r] = [text |-> r, cover |-> None] /\ row'[r].text = r
          /\ \A b \in Id \ {r} : row'[b] = row[b]
      BY <3>1, <1>0
    <3>4. Moves(r) /\ RowsBy(r) /\ LatestBy(r) /\ ReadsBy(r)
      BY <3>1, <3>2, <3>3, <1>0 DEF Moves, RowsBy, LatestBy, ReadsBy, Reading
    <3>5. LinksBy(r)
      <4>1. \A l \in links' \ links : l[1] = r
        BY <3>1 DEF ReplaceLinks
      <4>2. arg[r].book = r
        BY <3>1, <1>a
      <4>3. \A l \in links' \ links : row'[l[1]].text = r
        BY <3>3, <4>1
      <4>4. QED BY <3>1, <3>2, <4>1, <4>2, <4>3 DEF LinksBy
    <3>6. FilesBy(r) /\ TellsBy(r) /\ ImagesBy(r) /\ CoversBy(r) /\ NamesBy(r)
      BY <3>1, <3>2 DEF FilesBy, TellsBy, ImagesBy, CoversBy, NamesBy, Made, Telling
    <3>7. QED BY <3>4, <3>5, <3>6 DEF Effects
  <2>3. QED BY <2>1, <2>2
<1>3. CASE ReadBook(r, "k_book", "k_links", "k_unrow")
  BY <1>3, EffectsOfReadBook DEF ReadBook, Telling
<1>4. CASE ReadLinks(r, "k_links", "k_open")
  BY <1>4, EffectsOfReadLinks DEF ReadLinks, Reading, Telling, Opening
<1>5. CASE WriteMetadata(r, "k_write", IF Importing(r) THEN "i_file" ELSE "ok", "k_unrow")
  <2> DEFINE l == IF Importing(r) THEN "i_file" ELSE "ok"
  <2>1. l \in {"i_file", "ok"}
    OBVIOUS
  <2> HIDE DEF l
  <2>2. WriteMetadata(r, "k_write", l, "k_unrow")
    BY <1>5 DEF l
  <2>3. QED BY <2>1, <2>2, EffectsOfWriteMetadata DEF WriteMetadata
<1>6. CASE DeleteRow(r, "k_unrow", "k_rmdir")
  BY <1>6, EffectsOfDeleteRow
<1>7. CASE RemoveFolder(r, "k_rmdir")
  BY <1>7, EffectsOfRemoveFolder
<1>8. CASE OpenMetadata(r, "k_open", "k_write", "k_unrow")
  BY <1>8, EffectsOfOpenMetadata DEF OpenMetadata
<1>9. QED BY <1>1, <1>2, <1>3, <1>4, <1>5, <1>6, <1>7, <1>8 DEF Create

LEMMA EffectsOfUpdate ==
  ASSUME IInv, NEW r \in Req, Update(r)
  PROVE  Effects(r)
<1>0. /\ pc \in [Req -> Running \cup {"idle", "ok", "error"}]
      /\ row \in [Id -> Row \cup {None}]
      /\ faults \in Nat
  BY DetailBounds DEF IInv, TypeOK
<1>1. CASE Check(r, "e_check", "e_tx")
  <2>1. PICK l \in {"e_tx", "error"} : Step(r, l)
    BY <1>1 DEF Check
  <2>2. QED BY <1>1, <2>1, EffectsOfStep DEF Check, Reading, Telling
<1>2. CASE ETx(r)
  <2> DEFINE b == arg[r].book
  <2>1. CASE Step(r, Refused(r)) \/ Fail(r, Refused(r))
    BY <2>1, <1>2, EffectsOfStep DEF ETx, Reading, Telling, Refused
  <2>2. CASE ~(Step(r, Refused(r)) \/ Fail(r, Refused(r)))
    <3>1. /\ pc[r] = "e_tx" /\ pc' = [pc EXCEPT ![r] = "e_book"]
          /\ row' = IF There(b) THEN [row EXCEPT ![b].text = r] ELSE row
          /\ ReplaceLinks(b, Terms(r))
          /\ UNCHANGED <<arg, faults, met, read, name, files, latest>>
      BY <1>2, <2>2 DEF ETx
    <3>2. pc'[r] = "e_book" /\ \A q \in Req \ {r} : pc'[q] = pc[q]
      BY <3>1, <1>0
    <3>3. b \in Id
      BY <3>1, OpOf DEF IInv
    <3>4. /\ There(b) => row'[b] = [row[b] EXCEPT !.text = r] /\ row'[b].text = r
          /\ ~There(b) => row'[b] = None
          /\ \A c \in Id \ {b} : row'[c] = row[c]
      BY <3>1, <3>3, <1>0 DEF Row
    <3> HIDE DEF b
    <3>5. RowsBy(r)
      BY <3>1, <3>2, <3>4 DEF RowsBy, b
    <3>6. Moves(r) /\ LatestBy(r) /\ ReadsBy(r)
      BY <3>1, <3>2, <1>0 DEF Moves, LatestBy, ReadsBy, Reading
    <3>7. LinksBy(r)
      <4>1. \A l \in links' \ links : l[1] = b
        BY <3>1 DEF ReplaceLinks
      <4>2. QED BY <3>1, <3>2, <3>4, <4>1 DEF LinksBy, b
    <3>8. FilesBy(r) /\ TellsBy(r) /\ ImagesBy(r) /\ CoversBy(r) /\ NamesBy(r)
      BY <3>1, <3>2 DEF FilesBy, TellsBy, ImagesBy, CoversBy, NamesBy, Made, Telling
    <3>9. QED BY <3>5, <3>6, <3>7, <3>8 DEF Effects
  <2>3. QED BY <2>1, <2>2
<1>3. CASE ReadBook(r, "e_book", "e_links", Refused(r))
  BY <1>3, EffectsOfReadBook DEF ReadBook, Telling, Refused
<1>4. CASE ReadLinks(r, "e_links", "e_open")
  BY <1>4, EffectsOfReadLinks DEF ReadLinks, Reading, Telling, Opening
<1>5. CASE \E l \in AfterUpdate(r) : WriteMetadata(r, "e_write", l, Refused(r))
  <2>1. PICK l \in AfterUpdate(r) : WriteMetadata(r, "e_write", l, Refused(r))
    BY <1>5
  <2>2. l \in {"ok", "v_open", "p_authors"} /\ Refused(r) \in {"p_authors", "error"}
    BY DEF AfterUpdate, Refused
  <2>3. QED BY <2>1, <2>2, EffectsOfWriteMetadata DEF WriteMetadata
<1>6. CASE OpenMetadata(r, "e_open", "e_write", Refused(r))
  <2>1. Refused(r) \in {"p_authors", "error"}
    BY DEF Refused
  <2>2. QED BY <1>6, <2>1, EffectsOfOpenMetadata DEF OpenMetadata
<1>7. QED BY <1>1, <1>2, <1>3, <1>4, <1>5, <1>6 DEF Update

LEMMA EffectsOfAddFile ==
  ASSUME IInv, NEW r \in Req, AddFile(r)
  PROVE  Effects(r)
<1> DEFINE next == IF Importing(r) THEN "i_find" ELSE "ok"
<1>1. /\ ReadBook(r, "a_book", "a_links", next)
         \/ ReadLinks(r, "a_links", "a_open")
         \/ OpenMetadata(r, "a_open", "a_write", next)
         \/ WriteMetadata(r, "a_write", next, next)
      /\ next \in {"i_find", "ok"}
  BY DEF AddFile
<1> HIDE DEF next
<1>2. CASE ReadBook(r, "a_book", "a_links", next)
  BY <1>1, <1>2, EffectsOfReadBook DEF ReadBook, Telling
<1>3. CASE ReadLinks(r, "a_links", "a_open")
  BY <1>3, EffectsOfReadLinks DEF ReadLinks, Reading, Telling, Opening
<1>4. CASE WriteMetadata(r, "a_write", next, next)
  BY <1>1, <1>4, EffectsOfWriteMetadata DEF WriteMetadata
<1>5. CASE OpenMetadata(r, "a_open", "a_write", next)
  BY <1>1, <1>5, EffectsOfOpenMetadata DEF OpenMetadata
<1>6. QED BY <1>1, <1>2, <1>3, <1>4, <1>5

LEMMA EffectsOfCover ==
  ASSUME IInv, NEW r \in Req, SetCover(r)
  PROVE  Effects(r)
<1> DEFINE b == arg[r].book
           e == arg[r].ext
<1>0. /\ pc \in [Req -> Running \cup {"idle", "ok", "error"}]
      /\ row \in [Id -> Row \cup {None}]
      /\ latest \in [Id -> Req \cup {None}]
      /\ faults \in Nat
  BY DetailBounds DEF IInv, TypeOK
<1>1. CASE Check(r, "v_check", "v_open")
  <2>1. PICK l \in {"v_open", "error"} : Step(r, l)
    BY <1>1 DEF Check
  <2>2. QED BY <1>1, <2>1, EffectsOfStep DEF Check, Reading, Telling
<1>2. CASE VOpen(r)
  <2>1. CASE Step(r, Refused(r))
    BY <2>1, <1>2, EffectsOfStep DEF VOpen, Reading, Telling, Refused
  <2>2. CASE ~Step(r, Refused(r))
    <3>1. /\ pc[r] = "v_open" /\ pc' = [pc EXCEPT ![r] = "v_write"]
          /\ SetImage(r, "empty")
          /\ UNCHANGED <<arg, faults, met, read, rows, folders, meta, latest>>
      BY <1>2, <2>2 DEF VOpen
    <3>2. pc'[r] = "v_write" /\ \A q \in Req \ {r} : pc'[q] = pc[q]
      BY <3>1, <1>0
    <3>3. /\ image'[b][e] = "empty"
          /\ \A c \in Id, x \in Ext : <<c, x>> # <<b, e>> => image'[c][x] = image[c][x]
      BY <3>1, SetImageFacts
    <3>4. Moves(r) /\ RowsBy(r) /\ LatestBy(r) /\ LinksBy(r) /\ FilesBy(r) /\ ReadsBy(r)
      BY <3>1, <3>2, <1>0 DEF Moves, RowsBy, LatestBy, LinksBy, FilesBy, ReadsBy, Reading
    <3>5. TellsBy(r) /\ CoversBy(r) /\ NamesBy(r)
      BY <3>1, <3>2, <3>3 DEF TellsBy, CoversBy, NamesBy, Made, Telling
    <3>6. ImagesBy(r)
      BY <3>1, <3>2, <3>3 DEF ImagesBy
    <3>7. QED BY <3>4, <3>5, <3>6 DEF Effects
  <2>3. QED BY <2>1, <2>2
<1>3. CASE VWrite(r)
  <2>1. CASE Fail(r, Refused(r))
    BY <2>1, <1>3, EffectsOfStep DEF VWrite, Reading, Telling, Refused
  <2>2. CASE ~Fail(r, Refused(r))
    <3>1. /\ pc[r] = "v_write" /\ pc' = [pc EXCEPT ![r] = "v_row"]
          /\ UNCHANGED <<arg, faults, met, read, rows, folders, meta, latest>>
          /\ \/ image[b][e] = None /\ UNCHANGED image
             \/ SetImage(r, r)
             \/ image[b][e] \notin {None, "empty"} /\ SetImage(r, "mixed")
      BY <1>3, <2>2 DEF VWrite
    <3>2. pc'[r] = "v_row" /\ \A q \in Req \ {r} : pc'[q] = pc[q]
      BY <3>1, <1>0
    <3>3. /\ image[b][e] = "empty" => image'[b][e] = r
          /\ \A c \in Id, x \in Ext : <<c, x>> # <<b, e>> => image'[c][x] = image[c][x]
      BY <3>1, SetImageFacts, NoneIsWhole
    <3>4. Moves(r) /\ RowsBy(r) /\ LatestBy(r) /\ LinksBy(r) /\ FilesBy(r) /\ ReadsBy(r)
      BY <3>1, <3>2, <1>0 DEF Moves, RowsBy, LatestBy, LinksBy, FilesBy, ReadsBy, Reading
    <3>5. TellsBy(r) /\ CoversBy(r) /\ NamesBy(r)
      BY <3>1, <3>2, <3>3 DEF TellsBy, CoversBy, NamesBy, Made, Telling
    <3>6. ImagesBy(r)
      BY <3>1, <3>2, <3>3 DEF ImagesBy
    <3>7. QED BY <3>4, <3>5, <3>6 DEF Effects
  <2>3. QED BY <2>1, <2>2
<1>4. CASE VRow(r)
  <2>1. CASE Fail(r, "v_undo")
    BY <2>1, <1>4, EffectsOfStep DEF VRow, Reading, Telling
  <2>2. CASE ~Fail(r, "v_undo")
    <3>1. /\ pc[r] = "v_row" /\ pc' = [pc EXCEPT ![r] = "ok"]
          /\ row' = IF There(b) THEN [row EXCEPT ![b].cover = e] ELSE row
          /\ latest' = [latest EXCEPT ![b] = r]
          /\ UNCHANGED <<arg, faults, met, read, name, links, files>>
      BY <1>4, <2>2 DEF VRow
    <3>2. pc'[r] = "ok" /\ \A q \in Req \ {r} : pc'[q] = pc[q]
      BY <3>1, <1>0
    <3>3. b \in Id
      BY <3>1, OpOf DEF IInv
    <3>4. /\ There(b) => row'[b] = [row[b] EXCEPT !.cover = e]
          /\ ~There(b) => row'[b] = row[b]
          /\ \A c \in Id \ {b} : row'[c] = row[c]
          /\ latest'[b] = r
      BY <3>1, <3>3, <1>0
    <3> HIDE DEF b, e
    <3>5. RowsBy(r) /\ LatestBy(r)
      BY <3>1, <3>2, <3>4 DEF RowsBy, LatestBy, b, e
    <3>6. Moves(r) /\ LinksBy(r) /\ FilesBy(r) /\ ReadsBy(r)
      BY <3>1, <3>2, <1>0 DEF Moves, LinksBy, FilesBy, ReadsBy, Reading
    <3>7. TellsBy(r) /\ ImagesBy(r) /\ CoversBy(r) /\ NamesBy(r)
      BY <3>1, <3>2, <3>4 DEF TellsBy, ImagesBy, CoversBy, NamesBy, Made, Telling, b
    <3>8. QED BY <3>5, <3>6, <3>7 DEF Effects
  <2>3. QED BY <2>1, <2>2
<1>5. CASE VUndo(r)
  <2>1. CASE Fail(r, Refused(r))
    BY <2>1, <1>5, EffectsOfStep DEF VUndo, Reading, Telling, Refused
  <2>2. CASE ~Fail(r, Refused(r))
    <3>1. /\ pc[r] = "v_undo" /\ pc' = [pc EXCEPT ![r] = Refused(r)]
          /\ SetImage(r, None)
          /\ UNCHANGED <<arg, faults, met, read, rows, folders, meta, latest>>
      BY <1>5, <2>2 DEF VUndo
    <3>2. pc'[r] \in {"p_authors", "error"} /\ \A q \in Req \ {r} : pc'[q] = pc[q]
      BY <3>1, <1>0 DEF Refused
    <3>3. \A c \in Id, x \in Ext : <<c, x>> # <<b, e>> => image'[c][x] = image[c][x]
      BY <3>1, SetImageFacts
    <3>4. Moves(r) /\ RowsBy(r) /\ LatestBy(r) /\ LinksBy(r) /\ FilesBy(r) /\ ReadsBy(r)
      BY <3>1, <3>2, <1>0 DEF Moves, RowsBy, LatestBy, LinksBy, FilesBy, ReadsBy, Reading
    <3>5. TellsBy(r) /\ CoversBy(r) /\ NamesBy(r)
      BY <3>1, <3>2 DEF TellsBy, CoversBy, NamesBy, Made, Telling
    <3>6. ImagesBy(r)
      BY <3>1, <3>3 DEF ImagesBy
    <3>7. QED BY <3>4, <3>5, <3>6 DEF Effects
  <2>3. QED BY <2>1, <2>2
<1>6. QED BY <1>1, <1>2, <1>3, <1>4, <1>5 DEF SetCover

LEMMA EffectsOfImport ==
  ASSUME IInv, NEW r \in Req, Import(r)
  PROVE  Effects(r)
<1>0. /\ pc \in [Req -> Running \cup {"idle", "ok", "error"}]
      /\ row \in [Id -> Row \cup {None}]
      /\ name \in [Term -> Name \cup {None}]
      /\ faults \in Nat /\ r \in Id
  BY DetailBounds DEF IInv, TypeOK, Id
<1>1. CASE IFile(r)
  <2>1. PICK l \in {"a_book", "p_authors"} : Step(r, l)
    BY <1>1 DEF IFile
  <2>2. QED BY <1>1, <2>1, EffectsOfStep DEF IFile, Reading, Telling
<1>2. CASE IFind(r)
  <2>1. CASE Step(r, "e_tx")
    <3>1. pc[r] = "i_find"
      BY <1>2 DEF IFind
    <3>2. PICK l \in {"e_tx"} : Step(r, l)
      BY <2>1
    <3>3. QED BY <3>1, <3>2, EffectsOfStep DEF Reading, Telling
  <2>2. CASE ~Step(r, "e_tx")
    <3>1. PICK l \in {"e_tx", "i_make"} :
             /\ pc[r] = "i_find" /\ pc' = [pc EXCEPT ![r] = l]
             /\ l = "i_make" => NamedBy(arg[r].name) = {}
             /\ UNCHANGED <<arg, faults, met, read, rows, files, latest>>
      BY <1>2, <2>2 DEF IFind
    <3>2. pc'[r] = l /\ \A q \in Req \ {r} : pc'[q] = pc[q]
      BY <3>1, <1>0
    <3>3. Moves(r) /\ RowsBy(r) /\ LatestBy(r) /\ LinksBy(r) /\ FilesBy(r) /\ ReadsBy(r)
      BY <3>1, <3>2, <1>0 DEF Moves, RowsBy, LatestBy, LinksBy, FilesBy, ReadsBy, Reading
    <3>4. TellsBy(r) /\ ImagesBy(r) /\ CoversBy(r) /\ NamesBy(r)
      BY <3>1, <3>2 DEF TellsBy, ImagesBy, CoversBy, NamesBy, Made, Telling
    <3>5. QED BY <3>3, <3>4 DEF Effects
  <2>3. QED BY <2>1, <2>2
<1>3. CASE IMake(r)
  <2>1. CASE Fail(r, "p_authors")
    BY <1>3, <2>1, EffectsOfStep DEF IMake, Reading, Telling
  <2>2. CASE ~Fail(r, "p_authors")
    <3>1. /\ pc[r] = "i_make" /\ pc' = [pc EXCEPT ![r] = "e_tx"]
          /\ name' = [name EXCEPT ![<<"author", r>>] = arg[r].name]
          /\ UNCHANGED <<arg, faults, met, read, row, links, files, latest>>
      BY <1>3, <2>2 DEF IMake
    <3>2. pc'[r] = "e_tx" /\ \A q \in Req \ {r} : pc'[q] = pc[q]
      BY <3>1, <1>0
    <3>3. \A q \in Req : <<"author", q>> \in Term
      BY DEF Term, Author, Id
    <3>4. /\ Made(r)' = arg[r].name
          /\ \A q \in Req \ {r} : Made(q)' = Made(q)
      BY <3>1, <3>3, <1>0 DEF Made
    <3>5. Moves(r) /\ RowsBy(r) /\ LatestBy(r) /\ LinksBy(r) /\ FilesBy(r) /\ ReadsBy(r)
      BY <3>1, <3>2, <1>0 DEF Moves, RowsBy, LatestBy, LinksBy, FilesBy, ReadsBy, Reading
    <3>6. TellsBy(r) /\ ImagesBy(r) /\ CoversBy(r)
      BY <3>1, <3>2 DEF TellsBy, ImagesBy, CoversBy, Telling
    <3>7. NamesBy(r)
      BY <3>1, <3>2, <3>4 DEF NamesBy
    <3>8. QED BY <3>5, <3>6, <3>7 DEF Effects
  <2>3. QED BY <2>1, <2>2
<1>4. CASE PAuthors(r) \/ PTags(r)
  <2>1. PICK l \in {"p_tags", "p_row"} :
           /\ pc[r] \in {"p_authors", "p_tags"} /\ pc' = [pc EXCEPT ![r] = l]
           /\ links' \subseteq links /\ faults' \in {faults, faults + 1}
           /\ UNCHANGED <<arg, met, read, row, name, files, latest>>
    BY <1>4 DEF PAuthors, PTags, Unlink
  <2>2. pc'[r] = l /\ \A q \in Req \ {r} : pc'[q] = pc[q]
    BY <2>1, <1>0
  <2>3. Moves(r) /\ RowsBy(r) /\ LatestBy(r) /\ LinksBy(r) /\ FilesBy(r) /\ ReadsBy(r)
    BY <2>1, <2>2, <1>0 DEF Moves, RowsBy, LatestBy, LinksBy, FilesBy, ReadsBy, Reading
  <2>4. TellsBy(r) /\ ImagesBy(r) /\ CoversBy(r) /\ NamesBy(r)
    BY <2>1, <2>2 DEF TellsBy, ImagesBy, CoversBy, NamesBy, Made, Telling
  <2>5. QED BY <2>3, <2>4 DEF Effects
<1>5. CASE DeleteRow(r, "p_row", "p_dir")
  BY <1>5, EffectsOfDeleteRow
<1>6. CASE RemoveFolder(r, "p_dir")
  BY <1>6, EffectsOfRemoveFolder
<1>7. QED BY <1>1, <1>2, <1>3, <1>4, <1>5, <1>6 DEF Import

LEMMA WorkEffects ==
  ASSUME IInv, NEW r \in Req, Work(r)
  PROVE  Effects(r)
<1>1. QED
  BY EffectsOfCreate, EffectsOfUpdate, EffectsOfAddFile, EffectsOfCover, EffectsOfImport
  DEF Work

\* What the first step of a request does, and a request about an author or a
\* tag, which is one step: nothing to the rows and files of books.
Begin(r) == Start(r) \/ CreateTerm(r) \/ RenameTerm(r) \/ DeleteTerm(r)

Begins(r) ==
    /\ pc[r] = "idle"
    /\ pc'[r] \in {"k_dir", "e_check", "a_book", "v_check", "ok", "error"}
    /\ Importing(r)' => arg'[r].book = r
    /\ \A q \in Req \ {r} : pc'[q] = pc[q] /\ arg'[q] = arg[q]
    /\ UNCHANGED <<read, authors, row, files, faults, latest>>
    /\ links' \subseteq links
    /\ \A q \in Req :
          /\ met[q] \subseteq met'[q]
          /\ met'[q] \subseteq met[q] \cup InFlight \cup {r}
          /\ q # r /\ pc[q] \notin Running => met'[q] = met[q]
    /\ \A q \in Req \ {r} : Made(q) = None => Made(q)' = None
    /\ \/ arg'[r].op = "rename_term"
       \/ \A q \in Req : Made(q)' \in {Made(q), None} \/ (q = r /\ ~Importing(r)')

LEMMA BeginEffects ==
  ASSUME IInv, Met, NEW r \in Req, Begin(r)
  PROVE  Begins(r)
<1>0. /\ pc \in [Req -> Running \cup {"idle", "ok", "error"}]
      /\ arg \in [Req -> Arg] /\ met \in [Req -> SUBSET Req]
      /\ name \in [Term -> Name \cup {None}]
      /\ \A q \in Req : <<"author", q>> \in Term
  BY DEF IInv, TypeOK, Shapes, Term, Author, Id
<1>i. Importing(r)' => arg'[r].book = r
  <2>1. IInv'
    BY InvStart, InvTerm DEF Begin
  <2>2. QED BY <2>1 DEF IInv, Shapes, Shaped
<1>1. CASE Start(r)
  <2>1. PICK o \in BookOps :
           \E a \in Asks(r, o) :
              arg' = [arg EXCEPT ![r] = a] /\ pc' = [pc EXCEPT ![r] = FirstStep[o]]
    BY <1>1 DEF Start
  <2>2. pc[r] = "idle" /\ UNCHANGED <<read, authors, rows, files, faults, latest>> /\ Meet(r)
    BY <1>1 DEF Start
  <2>3. FirstStep[o] \in {"k_dir", "e_check", "a_book", "v_check"}
    BY <2>1 DEF FirstStep, BookOps
  <2>4. /\ \A q \in Req \ {r} : pc'[q] = pc[q] /\ arg'[q] = arg[q]
        /\ pc'[r] = FirstStep[o]
    BY <2>1, <1>0
  <2>5. met[r] = {}
    BY <2>2 DEF Met
  <2>6. \A q \in Req : Made(q)' = Made(q)
    BY <2>2 DEF Made
  <2>7. \A q \in Req :
           /\ met[q] \subseteq met'[q]
           /\ met'[q] \subseteq met[q] \cup InFlight \cup {r}
           /\ q # r /\ pc[q] \notin Running => met'[q] = met[q]
    BY <2>2, <2>5 DEF Meet, InFlight
  <2>8. QED BY <1>i, <2>2, <2>3, <2>4, <2>6, <2>7 DEF Begins
<1>2. CASE CreateTerm(r) \/ RenameTerm(r) \/ DeleteTerm(r)
  <2>1. PICK o \in TermOps, l \in {"ok", "error"} : Answer(r, o, l)
    BY <1>2 DEF CreateTerm, RenameTerm, DeleteTerm, TermOps
  <2>2. /\ pc[r] = "idle" /\ arg' = [arg EXCEPT ![r].op = o] /\ pc' = [pc EXCEPT ![r] = l]
        /\ UNCHANGED <<read, authors, row, files, faults, met, latest>>
    BY <2>1 DEF Answer
  <2>3. /\ \A q \in Req \ {r} : pc'[q] = pc[q] /\ arg'[q] = arg[q]
        /\ pc'[r] = l /\ arg'[r].op = o
    BY <2>2, <1>0 DEF Arg
  <2>4. links' \subseteq links
    BY <1>2 DEF CreateTerm, RenameTerm, DeleteTerm
  <2>5. /\ \A q \in Req \ {r} : Made(q) = None => Made(q)' = None
        /\ \/ arg'[r].op = "rename_term"
           \/ \A q \in Req : Made(q)' \in {Made(q), None} \/ (q = r /\ ~Importing(r)')
    <3>1. CASE CreateTerm(r)
      <4>1. PICK kind \in {"author", "tag"}, n \in Name :
               /\ UNCHANGED name \/ name' = [name EXCEPT ![<<kind, r>>] = n]
               /\ \E m \in {"ok", "error"} : Answer(r, "create_term", m)
        BY <3>1 DEF CreateTerm
      <4>2. arg'[r].op = "create_term"
        BY <4>1, <1>0 DEF Answer, Arg
      <4>3. \A q \in Req \ {r} : Made(q)' = Made(q)
        BY <4>1, <1>0 DEF Made
      <4>4. QED BY <4>2, <4>3
    <3>2. CASE RenameTerm(r)
      <4>1. PICK t \in Term, n \in Name :
               /\ UNCHANGED name \/ (name[t] # None /\ name' = [name EXCEPT ![t] = n])
               /\ \E m \in {"ok", "error"} : Answer(r, "rename_term", m)
        BY <3>2 DEF RenameTerm
      <4>2. arg'[r].op = "rename_term"
        BY <4>1, <1>0 DEF Answer, Arg
      <4>3. \A q \in Req : Made(q) = None => Made(q)' = None
        BY <4>1, <1>0 DEF Made
      <4>4. QED BY <4>2, <4>3
    <3>3. CASE DeleteTerm(r)
      <4>1. PICK t \in Term : UNCHANGED name \/ name' = [name EXCEPT ![t] = None]
        BY <3>3 DEF DeleteTerm
      <4>2. QED BY <4>1, <1>0 DEF Made
    <3>4. QED BY <1>2, <3>1, <3>2, <3>3
  <2>6. QED BY <1>i, <2>2, <2>3, <2>4, <2>5 DEF Begins
<1>3. QED BY <1>1, <1>2 DEF Begin

-----------------------------------------------------------------------------
(* Each part of Current is kept by every step.                             *)

\* A request that has had the book to itself had it to itself before.
LEMMA AloneBefore ==
  ASSUME IInv, Met, NEW r \in Req, Effects(r) \/ Begins(r),
         NEW q \in Req, pc[q] # "idle", Alone(q)'
  PROVE  Alone(q)
<1>1. CASE Effects(r)
  BY <1>1 DEF Effects, Moves, Alone
<1>2. CASE Begins(r)
  <2>1. q # r /\ arg'[q] = arg[q] /\ met[q] \subseteq met'[q]
    BY <1>2 DEF Begins
  <2>2. ASSUME NEW x \in met[q] PROVE arg[x].book # arg[q].book
    <3>1. x \in Req /\ x # r /\ arg'[x] = arg[x]
      BY <1>2 DEF Begins, Met, IInv, TypeOK
    <3>2. QED BY <2>1, <3>1 DEF Alone
  <2>3. QED BY <2>2 DEF Alone
<1>3. QED BY <1>1, <1>2

LEMMA MetKept ==
  ASSUME IInv, Met, NEW r \in Req, Effects(r) \/ Begins(r)
  PROVE  Met'
<1>1. CASE Effects(r)
  <2>1. \A q \in Req : pc'[q] = "idle" <=> pc[q] = "idle"
    BY <1>1 DEF Effects, Moves
  <2>2. \A q \in Req : met[q] \subseteq Req /\ met'[q] = met[q]
    BY <1>1 DEF Effects, Moves, IInv, TypeOK
  <2>3. QED BY <2>1, <2>2 DEF Met
<1>2. CASE Begins(r)
  <2> SUFFICES ASSUME NEW q \in Req
               PROVE  /\ pc'[q] = "idle" => met'[q] = {}
                      /\ \A x \in met'[q] : pc'[x] # "idle"
    BY DEF Met
  <2>1. pc'[q] = "idle" => met'[q] = {}
    BY <1>2 DEF Begins, Met
  <2>2. ASSUME NEW x \in met'[q] PROVE pc'[x] # "idle"
    <3>1. x \in met[q] \cup InFlight \cup {r} /\ met[q] \subseteq Req
      BY <1>2 DEF Begins, IInv, TypeOK
    <3>2. x \in Req /\ (x = r \/ pc[x] # "idle")
      BY <3>1 DEF InFlight, Met
    <3>3. QED BY <3>2, <1>2 DEF Begins
  <2>3. QED BY <2>1, <2>2
<1>3. QED BY <1>1, <1>2

\* A step of r leaves a book that was not there away, unless it is r that
\* creates it.
LEMMA ThereBefore ==
  ASSUME NEW r \in Req, Effects(r) \/ Begins(r), NEW b \in Id, There(b)'
  PROVE  There(b) \/ (Effects(r) /\ pc[r] = "k_tx" /\ b = r /\ pc'[r] = "k_book")
<1>1. CASE Effects(r)
  BY <1>1 DEF Effects, RowsBy
<1>2. CASE Begins(r)
  BY <1>2 DEF Begins
<1>3. QED BY <1>1, <1>2

LEMMA FoldersKept ==
  ASSUME IInv, Folders, NEW r \in Req, Effects(r) \/ Begins(r)
  PROVE  Folders'
<1> SUFFICES ASSUME faults' = 0, NEW b \in Id, There(b)' \/ (b \in Req /\ pc'[b] = "k_tx")
             PROVE  b \in folders'
  BY DEF Folders
<1>0. faults = 0
  <2>1. faults \in Nat
    BY DetailBounds DEF IInv, TypeOK
  <2>2. QED BY <2>1 DEF Effects, Moves, Begins
<1>1. CASE Effects(r)
  <2>1. CASE b = r /\ pc'[r] = "k_tx"
    BY <1>1, <2>1 DEF Effects, FilesBy
  <2>2. CASE ~(b = r /\ pc'[r] = "k_tx")
    <3>1. There(b) \/ (b \in Req /\ pc[b] = "k_tx")
      <4>1. CASE There(b)'
        BY <1>1, <4>1, ThereBefore
      <4>2. CASE ~There(b)'
        BY <1>1, <2>2, <4>2 DEF Effects, Moves
      <4>3. QED BY <4>1, <4>2
    <3>2. b \in folders
      BY <1>0, <3>1 DEF Folders
    <3>3. pc[r] \in After => b # r
      <4>1. pc[r] \in After => ~There(r)
        BY <1>0 DEF IInv, Births, Born
      <4>2. QED BY <3>1, <4>1 DEF After
    <3>4. QED BY <3>2, <3>3, <1>1 DEF Effects, FilesBy
  <2>3. QED BY <2>1, <2>2
<1>2. CASE Begins(r)
  BY <1>0, <1>2 DEF Begins, Folders
<1>3. QED BY <1>1, <1>2

\* r and another request that is under way about the same book have met.
LEMMA InEachOthersWay ==
  ASSUME IInv, NEW r \in Req, NEW q \in Req, r # q, pc[r] \in Running, pc[q] \in Running,
         arg[q].book = arg[r].book
  PROVE  ~Alone(r) /\ ~Alone(q)
  BY DEF IInv, Meetings, InFlight, Alone

\* Every step keeps what is read and written of a book that of its row.
LEMMA TextsKept ==
  ASSUME IInv, Met, Folders, Texts, NEW r \in Req, Effects(r) \/ Begins(r)
  PROVE  Texts'
<1> SUFFICES ASSUME NEW b \in Id, There(b)' PROVE Told(b)'
  BY DEF Texts
<1>0. PICK w : w = row'[b].text
  OBVIOUS
<1>a. faults \in Nat
  BY DetailBounds DEF IInv, TypeOK
<1>1. CASE /\ Effects(r)
           /\ \/ pc[r] = "k_tx" /\ b = r /\ pc'[r] = "k_book"
              \/ pc[r] = "e_tx" /\ b = arg[r].book /\ pc'[r] = "e_book"
  <2>1. /\ pc[r] \in Running /\ UNCHANGED <<arg, met>>
        /\ \A q \in Req \ {r} : pc'[q] = pc[q]
    BY <1>1 DEF Effects, Moves
  <2>2. arg[r].book = b
    BY <1>1, OpOf DEF IInv, Shapes, Shaped
  <2>3. w = r /\ row'[b].text = r
    <3>1. CASE pc[r] = "k_tx"
      <4>1. ~There(b)
        BY <1>1, <3>1 DEF IInv, Births, Born, Before
      <4>2. row'[b] = [text |-> r, cover |-> None]
        BY <1>1, <3>1, <4>1 DEF Effects, RowsBy
      <4>3. QED BY <4>2, <1>0
    <3>2. CASE pc[r] = "e_tx"
      <4>1. There(b) /\ row[b] \in Row
        BY <1>1, <3>2, ThereBefore DEF IInv, TypeOK
      <4>2. QED BY <1>0, <1>1, <3>2, <4>1 DEF Effects, RowsBy
    <3>3. QED BY <1>1, <3>1, <3>2
  <2>4. Alone(r)' => Fresh(b, r)'
    <3> SUFFICES ASSUME Alone(r) PROVE Fresh(b, r)'
      BY <2>1 DEF Alone
    <3>1. ASSUME NEW q \in Req \ {r}, pc'[q] \in Running, arg[q].book = b PROVE FALSE
      BY <2>1, <2>2, <3>1, InEachOthersWay
    <3>2. Reading \cup Telling \subseteq Running
      BY DEF Reading, Telling
    <3>3. pc'[r] \in Telling \ Reading
      BY <1>1 DEF Telling, Reading
    <3>4. QED BY <2>1, <3>1, <3>2, <3>3 DEF Fresh
  <2>5. r \notin Seeded
    BY SeededApart
  <2>6. QED BY <1>0, <1>1, <2>1, <2>2, <2>3, <2>4, <2>5 DEF Told
<1>2. CASE /\ Effects(r)
           /\ ~(pc[r] = "k_tx" /\ b = r /\ pc'[r] = "k_book")
           /\ ~(pc[r] = "e_tx" /\ b = arg[r].book /\ pc'[r] = "e_book")
  <2>1. There(b) /\ w = row[b].text
    <3>1. \/ row'[b] = row[b]
          \/ There(b) /\ row'[b] = [row[b] EXCEPT !.cover = arg[r].ext]
      BY <1>2 DEF Effects, RowsBy
    <3>2. There(b) => row[b] \in Row
      BY DEF IInv, TypeOK
    <3>3. QED BY <3>1, <3>2, <1>0 DEF Row
  <2>2. Told(b)
    BY <2>1 DEF Texts
  <2>3. /\ UNCHANGED <<arg, met>>
        /\ \A q \in Req \ {r} : pc'[q] = pc[q] /\ read'[q] = read[q]
        /\ pc[r] \in Running /\ pc'[r] # "idle" /\ faults' \in Nat /\ faults' >= faults
    BY <1>2 DEF Effects, Moves
  <2>4. w \in Req => arg'[w].book = b /\ pc'[w] # "idle"
    BY <2>1, <2>2, <2>3 DEF Told
  <2>5. Linked(b)' \subseteq Linked(b)
    <3> SUFFICES ASSUME NEW t \in Term, <<b, t>> \in links' PROVE <<b, t>> \in links
      BY DEF Linked
    <3>1. CASE <<b, t>> \in links' \ links
      <4>1. <<b, t>>[1] = b
        OBVIOUS
      <4>2. /\ b = arg[r].book
            /\ \/ pc[r] = "k_tx" /\ pc'[r] = "k_book"
               \/ pc[r] = "e_tx" /\ pc'[r] = "e_book"
        BY <1>2, <3>1, <4>1 DEF Effects, LinksBy
      <4>3. pc[r] = "k_tx" => arg[r].book = r
        BY OpOf DEF IInv, Shapes, Shaped
      <4>4. QED BY <1>2, <4>2, <4>3
    <3>2. QED BY <3>1
  <2>6. ASSUME faults' = 0, w \in Seeded \/ Alone(w)' PROVE Fresh(b, w)'
    <3>1. faults = 0
      BY <1>a, <2>3, <2>6
    <3>2. Fresh(b, w) /\ (w \in Req => Alone(w))
      <4>1. Alone(w)' <=> Alone(w)
        BY <2>3 DEF Alone
      <4>2. QED BY <2>1, <2>2, <2>6, <3>1, <4>1, SeededApart DEF Told
    <3>3. b \in folders /\ meta \in [Id -> Json \cup {None}] /\ (pc[r] \in After => b # r)
      BY <2>1, <3>1 DEF Folders, IInv, TypeOK, Births, Born
    <3>4. Reading \cup Telling \subseteq Running /\ (Crossing(b) => Crossing(b)')
      BY <2>3 DEF Reading, Telling, Crossing, Adds
    <3>5. ASSUME NEW q \in Req, NEW x \in Req, q # x, pc[q] \in Running, pc[x] \in Running,
                 arg[q].book = b, arg[x].book = b
          PROVE  /\ pc[q] \notin Telling /\ ~Importing(q) /\ q # w
                 /\ pc[q] = "a_write" /\ pc[x] = "a_write" => Crossing(b)
      <4>1. ~Alone(q) /\ ~Alone(x)
        BY <3>5, InEachOthersWay
      <4>2. q # w /\ x # w
        BY <3>2, <4>1
      <4>3. /\ pc[q] \notin Telling /\ ~Importing(q)
            /\ pc[x] \notin Telling /\ ~Importing(x)
        BY <3>2, <3>5, <4>2 DEF Fresh
      <4>4. ASSUME pc[q] = "a_write", pc[x] = "a_write" PROVE Crossing(b)
        <5>1. Adds(q, b) /\ Adds(x, b)
          BY <3>5, <4>3, <4>4, OpOf DEF IInv, Adds
        <5>2. q \in met[x]
          BY <3>5 DEF IInv, Meetings, InFlight
        <5>3. QED BY <5>1, <5>2 DEF Crossing
      <4>5. QED BY <4>2, <4>3, <4>4
    <3>6. \/ meta'[b] = meta[b]
          \/ /\ arg[r].book = b /\ meta'[b] = Empty /\ pc[r] \in Opening
             /\ pc[r] = "a_open" => pc'[r] = "a_write"
          \/ /\ arg[r].book = b /\ pc[r] \in {"k_write", "e_write", "a_write"} /\ Wrote(r)
      BY <1>2, <3>3 DEF Effects, FilesBy, Wrote
    <3>7. ASSUME NEW q \in Req, arg[q].book = b,
                 pc'[q] \in Telling \/ (pc'[q] \in Running /\ Importing(q))
          PROVE  q = w
      <4>1. CASE q # r
        BY <2>3, <3>2, <3>7, <4>1 DEF Fresh
      <4>2. CASE q = r
        <5>1. arg[r].op = "import" => arg[r].book = r
          BY DEF IInv, Shapes, Shaped
        <5>2. pc[r] = "k_tx" => arg[r].book = r
          BY OpOf DEF IInv, Shapes, Shaped
        <5>3. pc[r] \in Telling \/ Importing(r)
          BY <1>2, <3>7, <4>2, <5>2 DEF Effects, TellsBy
        <5>4. QED BY <2>3, <3>2, <3>7, <4>2, <5>3 DEF Fresh
      <4>3. QED BY <4>1, <4>2
    <3>8. ASSUME NEW q \in Req, pc'[q] \in Reading, arg[q].book = b
          PROVE  /\ read'[q].text = w
                 /\ pc'[q] \in Writing => Linked(b)' \subseteq read'[q].terms
                 /\ pc'[q] \in {"k_write", "e_write"} => meta'[b] = Empty
                 /\ pc'[q] = "a_write" => meta'[b] = Empty \/ Crossing(b)
      <4>1. CASE q # r
        <5>1. /\ pc[q] = pc'[q] /\ read'[q] = read[q] /\ pc[q] \in Running
              /\ pc[r] \in Running
          BY <2>3, <3>4, <3>8, <4>1
        <5>2. /\ read'[q].text = w
              /\ pc'[q] \in Writing => Linked(b)' \subseteq read'[q].terms
          BY <2>5, <3>2, <3>8, <5>1 DEF Fresh
        <5>3. ASSUME pc[q] \in {"k_write", "e_write"} PROVE meta'[b] = Empty
          <6>1. pc[q] \in Telling
            BY <5>3 DEF Telling
          <6>2. arg[r].book # b
            BY <3>5, <3>8, <4>1, <5>1, <6>1
          <6>3. QED BY <3>2, <3>6, <3>8, <5>1, <5>3, <6>2 DEF Fresh
        <5>4. ASSUME pc[q] = "a_write" PROVE meta'[b] = Empty \/ Crossing(b)
          <6>1. meta[b] = Empty \/ Crossing(b)
            BY <3>2, <3>8, <5>1, <5>4 DEF Fresh
          <6>2. CASE arg[r].book = b /\ pc[r] \in {"k_write", "e_write", "a_write"}
            <7>1. pc[r] \notin Telling
              BY <3>5, <3>8, <4>1, <5>1, <6>2
            <7>2. pc[r] = "a_write"
              BY <6>2, <7>1 DEF Telling
            <7>3. QED BY <3>5, <3>8, <4>1, <5>1, <5>4, <6>2, <7>2
          <6>3. QED BY <3>6, <6>1, <6>2
        <5>5. QED BY <5>1, <5>2, <5>3, <5>4
      <4>2. CASE q = r
        <5>1. CASE /\ pc'[r] \in {"k_links", "e_links", "a_links"}
                   /\ read'[r] = [text |-> row[b].text, terms |-> {}]
          BY <2>1, <4>2, <5>1
        <5>2. CASE /\ pc[r] \in Reading /\ pc'[r] \in Opening
                   /\ read'[r] = [read[r] EXCEPT !.terms = Linked(b)]
          <6>1. read[r] \in Metadata /\ read[r].text = w
            BY <5>2, <3>2, <3>8, <4>2 DEF Fresh, IInv, TypeOK, Shapes, Shaped
          <6>2. read'[r].text = w /\ read'[r].terms = Linked(b)
            BY <5>2, <6>1 DEF Metadata
          <6>3. QED BY <2>5, <4>2, <5>2, <6>2 DEF Opening
        <5>3. CASE /\ pc[r] \in Opening /\ pc'[r] \in {"k_write", "e_write", "a_write"}
                   /\ meta' = [meta EXCEPT ![b] = Empty] /\ UNCHANGED read
          <6>1. meta'[b] = Empty
            BY <3>3, <5>3
          <6>2. /\ read[r].text = w
                /\ pc[r] \in Writing => Linked(b) \subseteq read[r].terms
            BY <3>2, <3>8, <4>2, <5>3 DEF Fresh, Opening, Reading
          <6>3. QED BY <2>5, <4>2, <5>3, <6>1, <6>2 DEF Opening
        <5>4. QED BY <1>2, <3>8, <4>2, <5>1, <5>2, <5>3 DEF Effects, ReadsBy
      <4>3. QED BY <4>1, <4>2
    <3>9. ASSUME pc[r] \in {"k_write", "e_write", "a_write"}, arg[r].book = b, Wrote(r)
          PROVE  Tells(b, w)' \/ (meta'[b] = Mixed /\ Crossing(b)')
      <4>1. pc[r] \in Reading /\ r \in Req
        BY <3>9 DEF Reading
      <4>2. /\ read[r] # None /\ read[r].text = w /\ Linked(b) \subseteq read[r].terms
            /\ meta[b] = Empty \/ Crossing(b)
            /\ pc[r] \in {"k_write", "e_write"} => meta[b] = Empty
        BY <3>9, <4>1, <3>2 DEF Fresh, IInv, Shapes, Shaped
      <4>3. PICK m \in Write(meta[b], read[r]) : meta'[b] = m
        BY <3>3, <3>9 DEF Wrote
      <4>4. meta[b] # None
        <5>1. Empty # None /\ Mixed # None
          BY NoneIsNoRow DEF Empty, Mixed, Json
        <5>2. CASE meta[b] = Empty
          BY <5>1, <5>2
        <5>3. CASE pc[r] = "a_write"
          <6>1. ~(w \in Req /\ pc[w] \in Telling)
            <7> SUFFICES ASSUME w \in Req, pc[w] \in Telling PROVE FALSE
              OBVIOUS
            <7>1. w # r /\ pc[w] \in Running /\ arg[w].book = b
              BY <2>2, <2>1, <3>4, <5>3 DEF Told, Telling
            <7>2. QED BY <2>3, <3>5, <3>9, <7>1
          <6>2. QED BY <3>2, <5>1, <6>1 DEF Fresh, Tells
        <5>4. QED BY <3>9, <4>2, <5>2, <5>3
      <4>5. m = read[r] \/ (m = Mixed /\ Crossing(b))
        BY <4>2, <4>3, <4>4 DEF Write
      <4>6. QED BY <2>5, <3>4, <4>2, <4>3, <4>5 DEF Tells
    <3>10. \/ w \in Req /\ pc'[w] \in Telling
           \/ Tells(b, w)'
           \/ meta'[b] = Empty /\ \E q \in Req : pc'[q] = "a_write" /\ arg[q].book = b
           \/ meta'[b] = Mixed /\ Crossing(b)'
      <4>1. CASE arg[r].book = b /\ pc[r] \in {"k_write", "e_write", "a_write"} /\ Wrote(r)
        BY <3>9, <4>1
      <4>2. CASE /\ arg[r].book = b /\ meta'[b] = Empty /\ pc[r] \in Opening
                 /\ pc[r] = "a_open" => pc'[r] = "a_write"
        <5>1. CASE pc[r] = "a_open"
          BY <4>2, <5>1
        <5>2. CASE pc[r] # "a_open"
          <6>1. pc[r] \in Telling
            BY <4>2, <5>2 DEF Opening, Telling
          <6>2. r = w
            BY <3>2, <4>2, <6>1 DEF Fresh
          <6>3. pc'[r] \in Telling
            BY <1>2, <2>1, <2>6, <3>3, <4>2, <6>1 DEF Effects, TellsBy, Opening
          <6>4. QED BY <6>2, <6>3
        <5>3. QED BY <5>1, <5>2
      <4>3. CASE meta'[b] = meta[b] /\ ~(arg[r].book = b /\ Wrote(r)
                                        /\ pc[r] \in {"k_write", "e_write", "a_write"})
        <5>1. CASE w \in Req /\ pc[w] \in Telling
          <6>1. CASE w # r
            BY <2>3, <5>1, <6>1
          <6>2. CASE w = r
            <7>1. arg[r].book = b
              BY <2>3, <2>4, <5>1, <6>2
            <7>2. pc'[r] \in Telling
              BY <1>2, <2>1, <2>6, <3>3, <4>3, <5>1, <6>2, <7>1 DEF Effects, TellsBy
            <7>3. QED BY <5>1, <6>2, <7>2
          <6>3. QED BY <6>1, <6>2
        <5>2. CASE Tells(b, w)
          BY <2>5, <4>3, <5>2 DEF Tells
        <5>3. CASE meta[b] = Empty /\ \E q \in Req : pc[q] = "a_write" /\ arg[q].book = b
          <6>1. PICK q \in Req : pc[q] = "a_write" /\ arg[q].book = b
            BY <5>3
          <6>2. q # r
            BY <1>2, <2>6, <4>3, <6>1 DEF Effects, TellsBy
          <6>3. QED BY <2>3, <4>3, <5>3, <6>1, <6>2
        <5>4. CASE meta[b] = Mixed /\ Crossing(b)
          BY <3>4, <4>3, <5>4
        <5>5. QED BY <3>2, <5>1, <5>2, <5>3, <5>4 DEF Fresh
      <4>4. QED BY <3>6, <4>1, <4>2, <4>3
    <3>11. QED BY <2>3, <3>4, <3>7, <3>8, <3>10 DEF Fresh
  <2>7. QED BY <1>0, <2>3, <2>4, <2>6 DEF Told
<1>3. CASE Begins(r)
  <2>1. /\ UNCHANGED <<read, row, meta, faults>> /\ links' \subseteq links
        /\ pc[r] = "idle" /\ pc'[r] \notin Reading \cup {"idle"}
        /\ \A q \in Req \ {r} : pc'[q] = pc[q] /\ arg'[q] = arg[q]
    BY <1>3 DEF Begins, Reading
  <2>2. Told(b) /\ w = row[b].text
    BY <2>1, <1>0 DEF Texts
  <2>3. w \in Req => w # r /\ arg[w].book = b /\ pc[w] # "idle"
    BY <2>1, <2>2 DEF Told
  <2>4. Alone(w)' /\ w \in Req => Alone(w)
    BY <2>3, <1>3, AloneBefore
  <2>5. Linked(b)' \subseteq Linked(b)
    BY <2>1 DEF Linked
  <2>6. ASSUME faults' = 0, w \in Seeded \/ (w \in Req /\ Alone(w)') PROVE Fresh(b, w)'
    <3>1. Fresh(b, w)
      BY <2>1, <2>2, <2>4, <2>6 DEF Told
    <3>2. Crossing(b) => Crossing(b)'
      <4>1. arg[r].op # "add_file"
        BY <2>1, NoneIsApart DEF IInv, Shapes, Shaped, NoArg, BookOps
      <4>2. \A q \in Req : met[q] \subseteq met'[q]
        BY <1>3 DEF Begins
      <4>3. QED BY <2>1, <4>1, <4>2 DEF Crossing, Adds
    <3>3. Importing(r)' => arg'[r].book # b
      <4>1. ~There(r)
        BY <2>1 DEF IInv, Births, Born, Before
      <4>2. QED BY <1>3, <2>1, <4>1 DEF Begins
    <3>4. pc'[r] \notin Telling /\ (Tells(b, w) => Tells(b, w)')
      BY <1>3, <2>1, <2>5 DEF Begins, Telling, Tells
    <3>5. \A q \in Req :
             arg'[q].book = b
             /\ (pc'[q] \in Telling \/ (pc'[q] \in Running /\ Importing(q)')) => q = w
      BY <2>1, <3>1, <3>3, <3>4 DEF Fresh
    <3>6. \A q \in Req : pc'[q] \in Reading /\ arg'[q].book = b =>
             /\ read'[q].text = w
             /\ pc'[q] \in Writing => Linked(b)' \subseteq read'[q].terms
             /\ pc'[q] \in {"k_write", "e_write"} => meta'[b] = Empty
             /\ pc'[q] = "a_write" => meta'[b] = Empty \/ Crossing(b)'
      BY <2>1, <2>5, <3>1, <3>2 DEF Fresh
    <3>7. \/ w \in Req /\ pc'[w] \in Telling
          \/ Tells(b, w)'
          \/ meta'[b] = Empty /\ \E q \in Req : pc'[q] = "a_write" /\ arg'[q].book = b
          \/ meta'[b] = Mixed /\ Crossing(b)'
      BY <2>1, <2>3, <3>1, <3>2, <3>4 DEF Fresh
    <3>8. QED BY <3>5, <3>6, <3>7 DEF Fresh
  <2>7. w \in Id
    BY <2>1, <2>2, <1>0 DEF IInv, TypeOK, Row
  <2>8. QED BY <2>1, <2>2, <2>3, <2>6, <2>7, <1>0 DEF Told, Id
<1>4. QED BY <1>1, <1>2, <1>3

LEMMA TakesKept ==
  ASSUME IInv, Met, Takes, NEW r \in Req, Effects(r) \/ Begins(r)
  PROVE  Takes'
<1> SUFFICES ASSUME NEW q \in Req, pc'[q] \in {"v_write", "v_row"}, faults' = 0,
                    NEW b, b = arg'[q].book, There(b)', Alone(q)', NEW e, e = arg'[q].ext
             PROVE  image'[b][e] = IF pc'[q] = "v_write" THEN "empty" ELSE q
  BY DEF Takes
<1>a. faults \in Nat
  BY DetailBounds DEF IInv, TypeOK
<1>1. CASE Effects(r)
  <2>1. /\ UNCHANGED <<arg, met>> /\ \A x \in Req \ {r} : pc'[x] = pc[x]
        /\ pc[r] \in Running /\ faults = 0 /\ Alone(q)
    BY <1>1, <1>a DEF Effects, Moves, Alone
  <2>2. pc[q] \in Running
    BY <2>1
  <2>3. b \in Id /\ (pc[q] \in {"v_open", "v_write", "v_row"} => e \in Ext)
    BY <2>1, <2>2, OpOf, CoverArgs DEF IInv
  <2>4. There(b)
    <3>1. CASE pc[r] = "k_tx" /\ b = r /\ pc'[r] = "k_book"
      <4>1. q # r
        BY <3>1
      <4>2. QED BY <2>1, <3>1, <4>1 DEF IInv, Births, Born, Before
    <3>2. QED BY <1>1, <2>3, <3>1, ThereBefore
  <2>5. pc[r] \in After => b # r
    BY <2>1, <2>4 DEF IInv, Births, Born
  <2>6. CASE q # r
    <3>1. pc[q] = pc'[q]
      BY <2>1, <2>6
    <3>2. image[b][e] = IF pc[q] = "v_write" THEN "empty" ELSE q
      BY <2>1, <2>4, <3>1 DEF Takes
    <3>3. arg[r].book # b
      BY <2>1, <2>2, <2>6, InEachOthersWay
    <3>4. image'[b][e] = image[b][e]
      BY <1>1, <2>3, <2>5, <3>1, <3>3 DEF Effects, ImagesBy
    <3>5. QED BY <3>1, <3>2, <3>4
  <2>7. CASE q = r
    <3>1. CASE pc'[r] = "v_write"
      BY <1>1, <2>1, <2>7, <3>1 DEF Effects, CoversBy
    <3>2. CASE pc'[r] = "v_row"
      <4>1. pc[r] = "v_write" /\ (image[b][e] = "empty" => image'[b][e] = r)
        BY <1>1, <2>1, <2>7, <3>2 DEF Effects, CoversBy
      <4>2. image[b][e] = "empty"
        BY <2>1, <2>4, <2>7, <4>1 DEF Takes
      <4>3. QED BY <2>7, <3>2, <4>1, <4>2
    <3>3. QED BY <2>7, <3>1, <3>2
  <2>8. QED BY <2>6, <2>7
<1>2. CASE Begins(r)
  <2>1. /\ q # r /\ pc'[q] = pc[q] /\ arg'[q] = arg[q]
        /\ UNCHANGED <<row, image, faults>>
    BY <1>2 DEF Begins
  <2>2. Alone(q)
    BY <2>1, <1>2, AloneBefore
  <2>3. QED BY <2>1, <2>2 DEF Takes
<1>3. QED BY <1>1, <1>2

LEMMA CoversKept ==
  ASSUME IInv, Met, Takes, Covers, NEW r \in Req, Effects(r) \/ Begins(r)
  PROVE  Covers'
<1> SUFFICES ASSUME NEW b \in Id, NEW q, q = latest'[b], q # None PROVE Serves(b, q)'
  BY DEF Covers
<1>a. /\ faults \in Nat /\ latest \in [Id -> Req \cup {None}]
      /\ \A c \in Id : There(c) => row[c] \in Row
  BY DetailBounds DEF IInv, TypeOK
<1>1. CASE Effects(r) /\ latest'[b] = latest[b]
  <2>1. /\ UNCHANGED <<arg, met>> /\ \A x \in Req \ {r} : pc'[x] = pc[x]
        /\ pc[r] \in Running /\ (faults' = 0 => faults = 0)
    BY <1>1, <1>a DEF Effects, Moves
  <2>2. Serves(b, q) /\ q \in Req
    BY <1>1, <1>a DEF Covers
  <2>3. pc[q] = "ok" /\ q # r /\ pc'[q] = "ok" /\ arg[q].book = b /\ arg[q].ext # None
    BY <2>1, <2>2 DEF Serves
  <2>4. arg[q].ext \in Ext
    BY <2>2, <2>3 DEF IInv, Shapes, Arg
  <2> DEFINE e == arg[q].ext
  <2>5. ASSUME faults' = 0, There(b)', Alone(q)'
        PROVE  row'[b].cover = e /\ (image'[b][e] = q \/ Replacing(b, e)')
    <3>1. There(b)
      <4>1. CASE pc[r] = "k_tx" /\ b = r /\ pc'[r] = "k_book"
        BY <2>2, <2>3, <4>1 DEF IInv, Births, Born, Before
      <4>2. QED BY <1>1, <2>5, <4>1, ThereBefore
    <3>2. Alone(q)
      BY <2>1, <2>5 DEF Alone
    <3>3. row[b].cover = e /\ (image[b][e] = q \/ Replacing(b, e))
      BY <2>1, <2>2, <2>5, <3>1, <3>2 DEF Serves
    <3>4. row'[b].cover = e
      <4>1. \/ row'[b] = row[b]
            \/ row'[b] = [row[b] EXCEPT !.text = r]
        BY <1>1, <2>3, <2>5, <3>1 DEF Effects, RowsBy, IInv, Births, Born, Before
      <4>2. QED BY <1>a, <3>1, <3>3, <4>1 DEF Row
    <3>5. CASE Replacing(b, e)
      <4>1. PICK x \in Req :
               pc[x] \in {"v_write", "v_row"} /\ arg[x].book = b /\ arg[x].ext = e
        BY <3>5 DEF Replacing
      <4>2. CASE x # r
        BY <2>1, <3>4, <4>1, <4>2 DEF Replacing
      <4>3. CASE x = r
        <5>1. pc[r] # "v_row"
          BY <1>1, <2>3, <2>5, <4>1, <4>3 DEF Effects, CoversBy
        <5>2. pc'[r] = "v_row"
          BY <1>1, <2>5, <4>1, <4>3, <5>1 DEF Effects, CoversBy
        <5>3. QED BY <2>1, <3>4, <4>1, <4>3, <5>2 DEF Replacing
      <4>4. QED BY <4>2, <4>3
    <3>6. CASE image[b][e] = q
      <4>1. CASE image'[b][e] = image[b][e]
        BY <3>4, <3>6, <4>1
      <4>2. CASE image'[b][e] # image[b][e]
        <5>1. pc[r] \in After => b # r
          BY <2>1, <2>5, <3>1 DEF IInv, Births, Born
        <5>2. /\ b = arg[r].book /\ e = arg[r].ext
              /\ \/ pc[r] = "v_open" /\ pc'[r] = "v_write"
                 \/ pc[r] = "v_write" /\ pc'[r] = "v_row"
                 \/ pc[r] = "v_undo"
          BY <1>1, <2>4, <4>2, <5>1 DEF Effects, ImagesBy
        <5>3. pc[r] # "v_undo"
          BY <1>a, <2>1, <2>5 DEF IInv, Shapes, Shaped
        <5>4. QED BY <2>1, <3>4, <5>2, <5>3 DEF Replacing
      <4>3. QED BY <4>1, <4>2
    <3>7. QED BY <3>3, <3>5, <3>6
  <2>6. QED BY <2>1, <2>3, <2>5 DEF Serves
<1>2. CASE Effects(r) /\ latest'[b] # latest[b]
  <2>1. /\ UNCHANGED <<arg, met>> /\ (faults' = 0 => faults = 0)
    BY <1>2, <1>a DEF Effects, Moves
  <2>2. /\ pc[r] = "v_row" /\ pc'[r] = "ok" /\ b = arg[r].book /\ q = r
        /\ There(b) => row'[b] = [row[b] EXCEPT !.cover = arg[r].ext]
    BY <1>2, <1>a DEF Effects, LatestBy
  <2>3. arg[r].ext # None
    BY <2>2 DEF IInv, Shapes, Shaped
  <2>4. ASSUME faults' = 0, There(b)', Alone(r)'
        PROVE  row'[b].cover = arg[r].ext /\ image'[b][arg[r].ext] = r
    <3>1. There(b)
      BY <1>2, <2>2, <2>4, ThereBefore
    <3>2. row'[b].cover = arg[r].ext
      BY <1>a, <2>2, <3>1 DEF Row
    <3>3. image[b][arg[r].ext] = r
      BY <2>1, <2>2, <2>4, <3>1 DEF Takes, Alone
    <3>4. UNCHANGED image
      BY <1>2, <2>2, <2>4 DEF Effects, CoversBy
    <3>5. QED BY <3>2, <3>3, <3>4
  <2>5. QED BY <2>1, <2>2, <2>3, <2>4 DEF Serves
<1>3. CASE Begins(r)
  <2>1. /\ UNCHANGED <<row, image, faults, latest>> /\ pc[r] = "idle"
        /\ \A x \in Req \ {r} : pc'[x] = pc[x] /\ arg'[x] = arg[x]
    BY <1>3 DEF Begins
  <2>2. Serves(b, q) /\ q \in Req
    BY <1>a, <2>1 DEF Covers
  <2>3. pc[q] = "ok" /\ q # r /\ pc'[q] = "ok" /\ arg'[q] = arg[q]
        /\ arg[q].book = b /\ arg[q].ext # None
    BY <2>1, <2>2 DEF Serves
  <2>4. Alone(q)' => Alone(q)
    BY <1>3, <2>2, <2>3, AloneBefore
  <2>5. Replacing(b, arg[q].ext) => Replacing(b, arg[q].ext)'
    <3> SUFFICES ASSUME NEW x \in Req, pc[x] \in {"v_write", "v_row"}, arg[x].book = b,
                        arg[x].ext = arg[q].ext
                 PROVE  Replacing(b, arg[q].ext)'
      BY DEF Replacing
    <3>1. x # r /\ pc'[x] = pc[x] /\ arg'[x] = arg[x]
      BY <2>1
    <3>2. QED BY <2>3, <3>1 DEF Replacing
  <2>6. QED BY <2>1, <2>2, <2>3, <2>4, <2>5 DEF Serves
<1>4. QED BY <1>1, <1>2, <1>3

LEMMA MakersKept ==
  ASSUME IInv, Met, Makers, NEW r \in Req, Effects(r) \/ Begins(r)
  PROVE  Makers'
<1>1. CASE Effects(r)
  <2>1. /\ UNCHANGED <<arg, met>> /\ pc[r] \in Running /\ pc'[r] # "idle"
        /\ \A x \in Req \ {r} : pc'[x] = pc[x]
    BY <1>1 DEF Effects, Moves
  <2>2. \A x \in Req : Made(x)' = Made(x) \/ (x = r /\ pc[r] = "i_make" /\ Made(r)' = arg[r].name)
    BY <1>1 DEF Effects, NamesBy
  <2>3. pc'[r] = "i_make" =>
           pc[r] = "i_find" /\ NamedBy(arg[r].name) = {} /\ UNCHANGED name
    BY <1>1 DEF Effects, NamesBy
  <2>4. ASSUME NEW a \in Req, pc'[a] = "idle" PROVE Made(a)' = None
    BY <2>1, <2>2, <2>4 DEF Makers
  <2>5. ASSUME NEW a \in Req, NEW c \in Req, a # c, Importing(a), Importing(c),
               Made(c)' # None, ~Renamed,
               Made(c)' = Made(a)' \/ (pc'[a] = "i_make" /\ Made(c)' = arg[a].name)
        PROVE  Together(a, c)
    <3>1. CASE Made(a)' = Made(a) /\ Made(c)' = Made(c)
      <4>1. CASE a = r /\ pc'[a] = "i_make"
        <5>1. c \in NamedBy(arg[r].name) \/ Made(c) = Made(a)
          BY <2>5, <3>1, <4>1 DEF NamedBy, Made, Id
        <5>2. Made(c) = Made(a)
          BY <2>3, <4>1, <5>1
        <5>3. QED BY <2>5, <3>1, <5>2 DEF Makers
      <4>2. CASE ~(a = r /\ pc'[a] = "i_make")
        <5>1. pc'[a] = "i_make" => pc[a] = "i_make"
          BY <2>1, <4>2
        <5>2. QED BY <2>5, <3>1, <5>1 DEF Makers
      <4>3. QED BY <4>1, <4>2
    <3>2. CASE Made(c)' # Made(c)
      <4>1. c = r /\ pc[r] = "i_make" /\ Made(c)' = arg[c].name /\ pc'[a] = pc[a] /\ Made(a)' = Made(a)
        BY <2>1, <2>2, <2>5, <3>2
      <4>2. CASE Made(a) = arg[c].name
        <5>1. Together(c, a)
          BY <2>5, <4>1, <4>2 DEF Makers
        <5>2. QED BY <5>1 DEF Together
      <4>3. CASE pc[a] = "i_make"
        BY <2>5, <4>1, <4>3 DEF IInv, Meetings, InFlight, Together
      <4>4. QED BY <2>5, <4>1, <4>2, <4>3
    <3>3. CASE Made(a)' # Made(a)
      <4>1. a = r /\ pc[r] = "i_make" /\ Made(a)' = arg[a].name /\ Made(c)' = Made(c)
            /\ pc'[a] # "i_make"
        BY <2>2, <2>3, <2>5, <3>3
      <4>2. QED BY <2>5, <4>1 DEF Makers
    <3>4. QED BY <3>1, <3>2, <3>3
  <2>6. QED
    BY <2>1, <2>4, <2>5 DEF Makers, Renamed, Together
<1>2. CASE Begins(r)
  <2>1. /\ pc[r] = "idle" /\ pc'[r] \notin {"idle", "i_make"}
        /\ \A x \in Req \ {r} : pc'[x] = pc[x] /\ arg'[x] = arg[x]
        /\ \A x \in Req : met[x] \subseteq met'[x]
        /\ \A x \in Req \ {r} : Made(x) = None => Made(x)' = None
        /\ \/ arg'[r].op = "rename_term"
           \/ \A x \in Req : Made(x)' \in {Made(x), None} \/ (x = r /\ ~Importing(r)')
    BY <1>2 DEF Begins
  <2>2. Renamed => Renamed'
    <3>1. arg[r].op = None
      BY <2>1 DEF IInv, Shapes, Shaped, NoArg
    <3>2. None # "rename_term"
      BY NoneIsApart DEF TermOps
    <3>3. QED BY <2>1, <3>1, <3>2 DEF Renamed
  <2>3. ASSUME NEW a \in Req, pc'[a] = "idle" PROVE Made(a)' = None
    BY <2>1, <2>3 DEF Makers
  <2>4. ASSUME NEW a \in Req, NEW c \in Req, a # c, Importing(a)', Importing(c)',
               Made(c)' # None, ~Renamed',
               Made(c)' = Made(a)' \/ (pc'[a] = "i_make" /\ Made(c)' = arg'[a].name)
        PROVE  Together(a, c)'
    <3>1. \A x \in Req : Importing(x)' => Made(x)' \in {Made(x), None}
      BY <2>1, <2>4 DEF Renamed
    <3>2. Made(c)' = Made(c) /\ (Made(c)' = Made(a)' => Made(a)' = Made(a))
      BY <2>4, <3>1
    <3>3. Made(r) = None
      BY <2>1 DEF Makers
    <3>4. c # r /\ (a = r => FALSE)
      BY <2>1, <2>4, <3>2, <3>3
    <3>5. /\ pc'[a] = pc[a] /\ arg'[a] = arg[a] /\ arg'[c] = arg[c]
      BY <2>1, <3>4
    <3>6. Together(a, c)
      BY <2>2, <2>4, <3>2, <3>5 DEF Makers
    <3>7. QED BY <2>1, <3>6 DEF Together
  <2>5. QED BY <2>3, <2>4 DEF Makers
<1>3. QED BY <1>1, <1>2

-----------------------------------------------------------------------------
LEMMA InitCurrent == Init => Current
<1> SUFFICES ASSUME Init PROVE Current
  OBVIOUS
<1> USE DEF Init
<1>1. \A r \in Req : pc[r] = "idle" /\ arg[r] = NoArg /\ r \notin Seeded
  BY SeededApart
<1>2. Met /\ Takes /\ Covers
  BY <1>1 DEF Met, Takes, Covers
<1>3. Folders
  BY <1>1 DEF Folders, Id
<1>4. Texts
  <2> SUFFICES ASSUME NEW b \in Id, There(b) PROVE Told(b)
    BY DEF Texts
  <2>1. b \in Seeded /\ row[b].text = b
    BY DEF Id
  <2>2. b \notin Req
    BY <2>1, SeededApart
  <2>3. meta[b] = [text |-> b, terms |-> {}] /\ meta[b] # None
    BY <2>1, NoneIsNoRow DEF Json, Id
  <2>4. Fresh(b, b)
    BY <1>1, <2>2, <2>3 DEF Fresh, Tells, Reading, Telling, Linked
  <2>5. QED BY <2>1, <2>2, <2>4 DEF Told
<1>5. Makers
  <2>1. \A r \in Req : Made(r) = None
    BY <1>1 DEF Made, Term, Author, Id
  <2>2. QED BY <2>1 DEF Makers
<1>6. QED BY <1>2, <1>3, <1>4, <1>5 DEF Current

\* Every step keeps what is current.
LEMMA CurrentInductive == IInv /\ Current /\ [Next]_vars => Current'
<1> SUFFICES ASSUME IInv, Current, [Next]_vars PROVE Current'
  OBVIOUS
<1>1. CASE UNCHANGED vars
  BY <1>1 DEF vars, Current, Met, Folders, Texts, Told, Fresh, Tells, Crossing, Adds,
              Alone, Linked, Takes,
              Covers, Serves, Replacing, Makers, Made, Renamed, Together
<1>2. CASE Next
  <2>1. PICK r \in Req : Work(r) \/ Begin(r)
    BY <1>2 DEF Next, Work, Begin
  <2>2. Effects(r) \/ Begins(r)
    BY <2>1, WorkEffects, BeginEffects DEF Current
  <2>3. Met' /\ Folders' /\ Texts'
    BY <2>2, MetKept, FoldersKept, TextsKept DEF Current
  <2>4. Takes' /\ Covers' /\ Makers'
    BY <2>2, TakesKept, CoversKept, MakersKept DEF Current
  <2>5. QED BY <2>3, <2>4 DEF Current
<1>3. QED BY <1>1, <1>2

\* What the three theorems below rest on.
THEOREM CurrentInvariance == Spec => [](IInv /\ Current)
<1>1. Init => IInv /\ Current
  BY InitIInv, InitCurrent
<1>2. IInv /\ Current /\ [Next]_vars => IInv' /\ Current'
  BY Inductive, CurrentInductive
<1>3. QED BY <1>1, <1>2, PTL DEF Spec

\* As long as no call fails, and once nobody is writing, the metadata.json of a
\* book has its title, and the authors and tags it still has, if the Update (or
\* Create or import) that gave it the title had the book to itself: however
\* many writeMetadata raced over the file before, and however many AddFile
\* rewrite it later one after the other.  AddFiles that cross may leave the
\* texts of both in it, and nothing else may.
THEOREM MetadataIsCurrent == Spec => []MetadataCurrent
<1>1. IInv /\ Current => MetadataCurrent
  <2> SUFFICES ASSUME IInv, Current, Settled, faults = 0, NEW b \in Id, There(b),
                      NEW w, w = row[b].text, w \in Seeded \/ Alone(w)
               PROVE  Tells(b, w) \/ (meta[b] = Mixed /\ Crossing(b))
    BY DEF MetadataCurrent
  <2>1. Fresh(b, w)
    BY DEF Current, Texts, Told
  <2>2. /\ w \in Req => pc[w] \notin Telling
        /\ \A q \in Req : pc[q] # "a_write"
    BY DEF Settled, InFlight, Telling
  <2>3. QED BY <2>1, <2>2 DEF Fresh
<1>2. QED BY <1>1, CurrentInvariance, PTL

\* As long as no call fails, and once nobody is writing, the cover a book serves
\* is the one recorded last, whole, if that request had the book to itself:
\* saveCover truncates and writes in place, but records after it has written.
THEOREM CoverIsCurrent == Spec => []CoverCurrent
<1>1. IInv /\ Current => CoverCurrent
  <2> SUFFICES ASSUME IInv, Current, Settled, faults = 0, NEW b \in Id, There(b),
                      NEW q, q = latest[b], q # None, Alone(q)
               PROVE  row[b].cover # None /\ image[b][row[b].cover] = q
    BY DEF CoverCurrent
  <2>1. Serves(b, q)
    BY DEF Current, Covers
  <2>2. ~Replacing(b, arg[q].ext)
    BY DEF Settled, InFlight, Replacing
  <2>3. QED BY <2>1, <2>2 DEF Serves
<1>2. QED BY <1>1, CurrentInvariance, PTL

\* Imports of files by the same author make it once, unless they ran at once
\* (First by name and Create are two statements) or somebody has renamed authors.
THEOREM AuthorsAreShared == Spec => []AuthorsShared
<1>1. IInv /\ Current => AuthorsShared
  BY DEF Current, Makers, Made, Together, Renamed, AuthorsShared
<1>2. QED BY <1>1, CurrentInvariance, PTL
=============================================================================
