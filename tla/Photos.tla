---- MODULE Photos ----
(***************************************************************************)
(* The images of a business: the photos of the place and of the work, in   *)
(* order (business-photos/), and those there is one of, the logo and the   *)
(* photo of a professional (settings/, staff/).  The file is at Cloudinary *)
(* and the row here; no transaction covers both.  An answer of Cloudinary  *)
(* that is lost counts as the request stopping there (Crash).              *)
(***************************************************************************)
EXTENDS Integers, FiniteSets, SequencesExt

CONSTANTS
  MaxPhotos,   \* [kind -> MAX_BUSINESS_PHOTOS, MAX_PORTFOLIO_PHOTOS]
  Handlers,    \* requests in course
  MaxUploads,  \* bound: photos ever uploaded
  MaxRequests  \* bound: requests ever started

Kinds == {"gallery", "portfolio"}
Logo == -1
Avatar == -2
Singles == {Logo, Avatar}   \* their identifiers, which are always the same

PhotosAssumption == MaxPhotos \in [Kinds -> Nat \ {0}] /\ MaxUploads \in Nat

VARIABLES
  rows,        \* business_photos: [kind, pos] by the number of the upload, which stands for both ids
  files,       \* what Cloudinary has
  uploads,
  column,      \* [Singles -> logoUrl, photoUrl, or a professional who left]
  hs,          \* [Handlers -> request]
  calm,        \* no request overlapped another or stopped half-way
  cut,         \* the photos whose removal stopped after destroying the file
  requests

vars == <<rows, files, uploads, column, hs, calm, cut, requests>>

Photo == [kind : Kinds, pos : Nat]
Idle == [pc |-> "idle", kind |-> "gallery", file |-> 0, left |-> 0, pos |-> 0, list |-> <<>>]

Init ==
  /\ rows = <<>> /\ files = {} /\ uploads = 0
  /\ column = [s \in Singles |-> "none"]
  /\ hs = [h \in Handlers |-> Idle] /\ calm = TRUE /\ cut = {} /\ requests = 0

Quiet == \A h \in Handlers : hs[h].pc = "idle"
Start(h, m) ==
  /\ hs[h].pc = "idle" /\ requests < MaxRequests
  /\ hs' = [hs EXCEPT ![h] = m] /\ calm' = (calm /\ Quiet) /\ requests' = requests + 1
Goto(h, m) == hs' = [hs EXCEPT ![h] = m] /\ UNCHANGED <<calm, requests>>
Done(h) == Goto(h, Idle)

Of(kind) == {i \in DOMAIN rows : rows[i].kind = kind}

-----------------------------------------------------------------------------
(* The photos *)

\* The whole batch is refused or accepted; what is new goes last in the gallery and, by
\* moving the others first, ahead in the portfolio.
AddMany(h, kind, n) ==
  LET existing == Cardinality(Of(kind))
      ahead == kind = "portfolio"
  IN /\ n <= MaxPhotos[kind] - existing /\ uploads + n <= MaxUploads
     /\ Start(h, [Idle EXCEPT !.pc = IF ahead /\ existing > 0 THEN "increment" ELSE "upload",
                              !.kind = kind, !.left = n, !.pos = IF ahead THEN 0 ELSE existing])
     /\ UNCHANGED <<rows, files, uploads, column, cut>>

Increment(h) ==
  LET m == hs[h] IN
  /\ m.pc = "increment"
  /\ rows' = [i \in DOMAIN rows |-> IF rows[i].kind = m.kind THEN [rows[i] EXCEPT !.pos = @ + m.left] ELSE rows[i]]
  /\ Goto(h, [m EXCEPT !.pc = "upload"])
  /\ UNCHANGED <<files, uploads, column, cut>>

\* Cloudinary invents the identifier.
Upload(h) ==
  LET m == hs[h] IN
  /\ m.pc = "upload" /\ uploads < MaxUploads
  /\ uploads' = uploads + 1 /\ files' = files \cup {uploads + 1}
  /\ Goto(h, [m EXCEPT !.pc = "save", !.file = uploads + 1])
  /\ UNCHANGED <<rows, column, cut>>

\* What was saved of the batch stays.
UploadFails(h) == hs[h].pc \in {"upload", "replace"} /\ Done(h) /\ UNCHANGED <<rows, files, uploads, column, cut>>

SavePhoto(h) ==
  LET m == hs[h] IN
  /\ m.pc = "save"
  /\ rows' = [i \in DOMAIN rows \cup {m.file} |-> IF i = m.file THEN [kind |-> m.kind, pos |-> m.pos] ELSE rows[i]]
  /\ IF m.left = 1 THEN Done(h) ELSE Goto(h, [m EXCEPT !.pc = "upload", !.left = @ - 1, !.pos = @ + 1])
  /\ UNCHANGED <<files, uploads, column, cut>>

RemovePhoto(h, i) ==
  /\ Start(h, [Idle EXCEPT !.pc = "destroy", !.kind = rows[i].kind, !.file = i])
  /\ UNCHANGED <<rows, files, uploads, column, cut>>

\* deleteImage does not fail if the image is not there, nor if Cloudinary answers something
\* else; a call that throws leaves everything as it was.
Destroyed(file, then, h) ==
  \/ files' \in {files, files \ {file}} /\ Goto(h, then)
  \/ UNCHANGED files /\ Done(h)

DestroyPhoto(h) ==
  /\ hs[h].pc = "destroy" /\ Destroyed(hs[h].file, [hs[h] EXCEPT !.pc = "delete"], h)
  /\ UNCHANGED <<rows, uploads, column, cut>>

DeletePhoto(h) ==
  LET m == hs[h] IN
  /\ m.pc = "delete"
  /\ rows' = [i \in DOMAIN rows \ {m.file} |-> rows[i]]
  /\ Goto(h, [m EXCEPT !.pc = "reindex"])
  /\ UNCHANGED <<files, uploads, column, cut>>

\* ORDER BY position, with one ahead of all: MySQL decides between equals.
InOrder(kind, front) ==
  LET Place(i) == IF i \in front THEN -1 ELSE rows[i].pos
  IN {s \in SetToSeqs(Of(kind)) : \A k, l \in DOMAIN s : k < l => Place(s[k]) <= Place(s[l])}

ReindexNot(h) == {<<>>}   \* mutant: what is left keeps its places
Reindexed(h) == InOrder(hs[h].kind, {})

Reindex(h) ==
  /\ hs[h].pc = "reindex"
  /\ \E s \in Reindexed(h) : Goto(h, [hs[h] EXCEPT !.pc = "renumber", !.list = s])
  /\ UNCHANGED <<rows, files, uploads, column, cut>>

MoveToFront(h, i) ==
  /\ \E s \in InOrder(rows[i].kind, {i}) : Start(h, [Idle EXCEPT !.pc = "renumber", !.kind = rows[i].kind, !.list = s])
  /\ UNCHANGED <<rows, files, uploads, column, cut>>

\* One transaction; a row that is not there any more is not written.
PlaceIn(list, i) == (CHOOSE k \in DOMAIN list : list[k] = i) - 1
Renumber(h) ==
  LET list == hs[h].list IN
  /\ hs[h].pc = "renumber"
  /\ rows' = [i \in DOMAIN rows |-> IF Contains(list, i) THEN [rows[i] EXCEPT !.pos = PlaceIn(list, i)] ELSE rows[i]]
  /\ Done(h)
  /\ UNCHANGED <<files, uploads, column, cut>>

-----------------------------------------------------------------------------
(* The images there is one of: to upload again is to replace *)

UpdateSingle(h, s) ==
  /\ column[s] # "left" /\ Start(h, [Idle EXCEPT !.pc = "replace", !.file = s])
  /\ UNCHANGED <<rows, files, uploads, column, cut>>

Replace(h) ==
  /\ hs[h].pc = "replace"
  /\ files' = files \cup {hs[h].file}
  /\ Goto(h, [hs[h] EXCEPT !.pc = "show"])
  /\ UNCHANGED <<rows, uploads, column, cut>>

RemoveSingle(h, s) ==
  /\ column[s] = "set" /\ Start(h, [Idle EXCEPT !.pc = "destroySingle", !.file = s])
  /\ UNCHANGED <<rows, files, uploads, column, cut>>

DestroySingle(h) ==
  LET m == hs[h] IN
  /\ m.pc = "destroySingle" /\ Destroyed(m.file, [m EXCEPT !.pc = "clear"], h)
  /\ UNCHANGED <<rows, uploads, column, cut>>

\* Nobody sees what is written on the card of somebody who left.
WriteColumn(h) ==
  LET m == hs[h] IN
  /\ m.pc \in {"show", "clear"}
  /\ column' = [column EXCEPT ![m.file] = IF @ = "left" THEN @ ELSE IF m.pc = "show" THEN "set" ELSE "none"]
  /\ Done(h)
  /\ UNCHANGED <<rows, files, uploads, cut>>

\* The column goes in the transaction that removes the professional, the file after it.
RemoveStaff(h) ==
  /\ column[Avatar] # "left"
  /\ column' = [column EXCEPT ![Avatar] = "left"]
  /\ Start(h, IF column[Avatar] = "set" THEN [Idle EXCEPT !.pc = "sweep"] ELSE Idle)
  /\ UNCHANGED <<rows, files, uploads, cut>>

Sweep(h) ==
  /\ hs[h].pc = "sweep" /\ files' \in {files, files \ {Avatar}} /\ Done(h)
  /\ UNCHANGED <<rows, uploads, column, cut>>

\* The process stops, or the answer of Cloudinary does not come.
Crash(h) ==
  /\ hs[h].pc # "idle"
  /\ hs' = [hs EXCEPT ![h] = Idle] /\ calm' = FALSE
  /\ cut' = cut \cup (IF hs[h].pc = "delete" THEN {hs[h].file} ELSE {})
  /\ UNCHANGED <<rows, files, uploads, column, requests>>

Next ==
  \E h \in Handlers :
    \/ \E kind \in Kinds : \E n \in 1 .. MaxPhotos[kind] : AddMany(h, kind, n)
    \/ \E i \in DOMAIN rows : RemovePhoto(h, i) \/ MoveToFront(h, i)
    \/ \E s \in Singles : UpdateSingle(h, s) \/ RemoveSingle(h, s)
    \/ Increment(h) \/ Upload(h) \/ UploadFails(h) \/ SavePhoto(h)
    \/ DestroyPhoto(h) \/ DeletePhoto(h) \/ Reindex(h) \/ Renumber(h)
    \/ Replace(h) \/ DestroySingle(h) \/ WriteColumn(h) \/ RemoveStaff(h) \/ Sweep(h)
    \/ Crash(h)

Spec == Init /\ [][Next]_vars

-----------------------------------------------------------------------------

TypeOK ==
  /\ uploads \in 0 .. MaxUploads /\ DOMAIN rows \subseteq 1 .. uploads /\ rows \in [DOMAIN rows -> Photo]
  /\ files \subseteq 1 .. uploads \cup Singles /\ column \in [Singles -> {"none", "set", "left"}] /\ calm \in BOOLEAN

GoingAway(file) == \E h \in Handlers : hs[h].pc \in {"delete", "clear"} /\ hs[h].file = file

\* A photo of the page without its file is one that somebody asked to remove: the removal is
\* between its two writes, or it stopped there (cut), and then the row points to nothing until
\* it is removed again ("la fila sigue apuntando a una imagen que existe", remove, is so only
\* when the call fails before it destroys anything).  No upload, no other removal and no order
\* leaves one, whatever overlaps it or fails.  A logo has it while requests come one after the
\* other, and then the places of the photos are told apart, no kind has more than its most, and
\* the gallery begins at place 0, which is where the search looks for the cover ("Que la
\* posicion 0 exista siempre que haya fotos lo sostiene reindex", covers).
PageStands ==
  /\ \A i \in DOMAIN rows : i \in files \cup cut \/ GoingAway(i)
  /\ calm => \A s \in Singles : column[s] = "set" => s \in files \/ GoingAway(s)
  /\ calm /\ Quiet =>
       /\ \A i, j \in DOMAIN rows : rows[i] = rows[j] => i = j
       /\ \A kind \in Kinds : Cardinality(Of(kind)) <= MaxPhotos[kind]
       /\ {rows[i].pos : i \in Of("gallery")} = 0 .. Cardinality(Of("gallery")) - 1

-----------------------------------------------------------------------------
(* The inductive invariant of PageStands *)

Request ==
  [pc : {"idle", "increment", "upload", "save", "destroy", "delete", "reindex", "renumber",
         "replace", "show", "destroySingle", "clear", "sweep"},
   kind : Kinds, file : 0 .. uploads \cup Singles, left : Nat, pos : Nat, list : Seq(1 .. uploads)]

\* What a request is about: photos to add, a photo or an image to remove, an order to write.
Adding(m) == m.pc \in {"increment", "upload", "save"}
Removing(m) == m.pc \in {"destroy", "delete"}
TakingAway(m, file) == m.pc \in {"delete", "clear"} /\ m.file = file
Numbering(m) == m.pc \in {"reindex", "renumber"} /\ m.kind = "gallery"
Holds(m) ==
  /\ m.pc = "save" \/ Removing(m) => m.file \in 1 .. uploads
  /\ m.pc \in {"replace", "show", "destroySingle", "clear"} => m.file \in Singles
  /\ Adding(m) => m.left \in Nat \ {0}
RequestsTyped == hs \in [Handlers -> Request] /\ \A h \in Handlers : Holds(hs[h])

\* What is uploaded is of one request until it is saved: nobody can be removing it.
Apart(m, n) == m.pc = "save" /\ (n.pc = "save" \/ Removing(n)) => m.file # n.file
FilesStand ==
  /\ \A h \in Handlers : hs[h].pc = "save" => hs[h].file \in files /\ hs[h].file \notin DOMAIN rows
  /\ \A g, h \in Handlers : g # h => Apart(hs[g], hs[h])
  /\ \A i \in DOMAIN rows : i \in files \cup cut \/ \E h \in Handlers : TakingAway(hs[h], i)

\* A request that nothing overlaps finds the places and the images as it left them.
Enumerated(list, S) ==
  /\ DOMAIN list = 1 .. Cardinality(S) /\ \A k \in DOMAIN list : list[k] \in S
  /\ \A i \in S : \E k \in DOMAIN list : list[k] = i
  /\ \A k, l \in DOMAIN list : list[k] = list[l] => k = l
Steady(m) ==
  /\ Adding(m) => Cardinality(Of(m.kind)) + m.left <= MaxPhotos[m.kind]
  /\ m.pc = "increment" => m.kind = "portfolio" /\ m.pos = 0
  /\ m.pc \in {"upload", "save"} /\ m.kind = "gallery" => m.pos = Cardinality(Of("gallery"))
  /\ m.pc \in {"upload", "save"} /\ m.kind = "portfolio" =>
       \A i \in Of("portfolio") : rows[i].pos \notin m.pos .. m.pos + m.left - 1
  /\ Removing(m) => m.file \in Of(m.kind)
  /\ m.pc = "renumber" => Enumerated(m.list, Of(m.kind))
  /\ m.pc = "show" => m.file \in files
  /\ m.pc = "sweep" => column[Avatar] = "left"
Compact == {rows[i].pos : i \in Of("gallery")} = 0 .. Cardinality(Of("gallery")) - 1
PlacesStand ==
  /\ \A i, j \in DOMAIN rows : rows[i] = rows[j] => i = j
  /\ \A kind \in Kinds : Cardinality(Of(kind)) <= MaxPhotos[kind]
AloneWith(m) ==
  /\ Steady(m) /\ PlacesStand /\ (Numbering(m) \/ Compact)
  /\ \A s \in Singles : column[s] = "set" => s \in files \/ TakingAway(m, s)

ImagesInv ==
  /\ TypeOK /\ RequestsTyped /\ FilesStand
  /\ calm => /\ \A g, h \in Handlers : hs[g].pc # "idle" /\ hs[h].pc # "idle" => g = h
             /\ \A h \in Handlers : hs[h].pc # "idle" => AloneWith(hs[h])
             /\ Quiet => AloneWith(Idle)
====
