-------------------------------- MODULE Photos ---------------------------------
(***************************************************************************)
(* The photos of one placement (cockpit/app/main.py, upload_photo and      *)
(* get_photo_thumbnail): files in a directory, rows in SQLite, and         *)
(* previews that are generated on the first request and kept.              *)
(*                                                                         *)
(* The handlers run on the event loop.  An upload counts the rows, derives *)
(* its file name from the count, and then awaits the body: other requests  *)
(* run meanwhile.  The rest of it -- write the file, insert the row or     *)
(* take the file back -- has no await and is one step, unless the disk is  *)
(* full or the process dies in between.  The browser may keep a preview    *)
(* for a year, so every answer ever given counts: `shown`.                 *)
(***************************************************************************)
EXTENDS Naturals, Sequences

CONSTANTS
  Uploads,    \* requests POST /api/photo/{placement}, each with a photo of its own
  Exts,       \* file name extensions
  MaxPhotos,  \* MAX_PHOTOS_PER_PLACEMENT
  MaxClock    \* bound: clock of the file times; steps of one tick may share a time

ASSUME PhotosAssumption == MaxPhotos \in Nat /\ MaxClock \in Nat /\ Exts # {}

None    == "none"      \* no file
Damaged == "damaged"   \* a file that no decoder reads
Numbers == 1..(MaxPhotos + 1)
Names   == Numbers \X Exts
File    == [photo: Uploads \cup {None, Damaged}, mtime: 0..MaxClock]

VARIABLES
  now,      \* the clock
  file,     \* name -> what is on disk
  thumb,    \* number -> the preview next to it, <number>.thumb.jpg
  rows,     \* the photo rows: name, and (history) the photo they were inserted for
  upload,   \* request -> [at, name]
  twice,    \* history: pairs of uploads that held the same number at once
  shown     \* history: photo id -> what its preview has been answered with

vars == <<now, file, thumb, rows, upload, twice, shown>>

TypeOK ==
  /\ now \in 0..MaxClock
  /\ file \in [Names -> File] /\ thumb \in [Numbers -> File]
  /\ rows \in Seq([name: Names, photo: Uploads])
  /\ upload \in [Uploads -> [at: {"new", "reading", "stored", "refused", "broken"}, name: Names]]
  /\ twice \subseteq SUBSET Uploads
  /\ shown \in [1..MaxPhotos -> SUBSET Uploads]

Nothing == [photo |-> None, mtime |-> 0]

Init ==
  /\ now = 0
  /\ file = [n \in Names |-> Nothing]
  /\ thumb = [n \in Numbers |-> Nothing]
  /\ rows = <<>>
  /\ upload \in [Uploads -> [at: {"new"}, name: {<<1, e>> : e \in Exts}]]
  /\ twice = {}
  /\ shown = [i \in 1..MaxPhotos |-> {}]

Reading == {u \in Uploads : upload[u].at = "reading"}

-----------------------------------------------------------------------------
(* The file number is one more than the rows that count_photos finds. *)
NextNumber == Len(rows) + 1

Receive(u) ==
  /\ upload[u].at = "new"
  /\ NextNumber \in Numbers
  /\ upload' = [upload EXCEPT ![u] = [at |-> "reading", name |-> <<NextNumber, @.name[2]>>]]
  /\ twice' = twice \cup {{u, v} : v \in {w \in Reading : upload[w].name[1] = NextNumber}}
  /\ UNCHANGED <<now, file, thumb, rows, shown>>

Write(u, photo) == file' = [file EXCEPT ![upload[u].name] = [photo |-> photo, mtime |-> now]]
Insert(u)       == rows' = Append(rows, [name |-> upload[u].name, photo |-> u])
Answer(u, at)   == upload' = [upload EXCEPT ![u].at = at]

(* Bug: the limit is checked when the name is chosen, not at the insert. *)
StoreUnchecked(u) ==
  /\ u \in Reading /\ upload[u].name[1] <= MaxPhotos
  /\ Write(u, u) /\ Insert(u) /\ Answer(u, "stored")
  /\ UNCHANGED <<now, thumb, twice, shown>>

Store(u) ==
  /\ u \in Reading
  /\ Len(rows) < MaxPhotos
  /\ Write(u, u) /\ Insert(u) /\ Answer(u, "stored")
  /\ UNCHANGED <<now, thumb, twice, shown>>

(* add_photo raises ValueError: 409, and the file just written is removed, *)
(* whoever's it was before.                                                *)
Refuse(u) ==
  /\ u \in Reading
  /\ Len(rows) >= MaxPhotos
  /\ file' = [file EXCEPT ![upload[u].name] = Nothing]
  /\ Answer(u, "refused")
  /\ UNCHANGED <<now, thumb, rows, twice, shown>>

(* Bug: the row is inserted before the file is written. *)
BreakAfterInsert(u) ==
  /\ u \in Reading /\ Len(rows) < MaxPhotos
  /\ Insert(u) /\ Answer(u, "broken")
  /\ UNCHANGED <<now, file, thumb, twice, shown>>

(* The disk is full, or the process dies after writing or while it does.   *)
Break(u) ==
  /\ u \in Reading
  /\ \E photo \in {u, Damaged} : Write(u, photo)
  /\ Answer(u, "broken")
  /\ UNCHANGED <<now, thumb, rows, twice, shown>>

(* A process that dies forgets the uploads it was reading; one that dies   *)
(* while it writes takes a Break step before.                              *)
Restart ==
  /\ Reading # {}
  /\ upload' = [u \in Uploads |-> IF u \in Reading THEN [upload[u] EXCEPT !.at = "broken"] ELSE upload[u]]
  /\ UNCHANGED <<now, file, thumb, rows, twice, shown>>

-----------------------------------------------------------------------------
(* GET /api/photo/{id}: what the row's file holds. *)
Original(i) == file[rows[i].name]

(* Bug: one preview for the placement. *)
ThumbOfPlacement(i) == 1

(* _thumbnail_path: the stem of the file name, so its number. *)
ThumbOf(i) == rows[i].name[1]

Fresh(i) == /\ thumb[ThumbOf(i)].photo # None
            /\ thumb[ThumbOf(i)].mtime >= Original(i).mtime

Show(i, photo) == shown' = [shown EXCEPT ![i] = @ \cup {photo}]

(* GET /api/photo/{id}/thumb, without an await.  A missing file is a 404.  *)
PreviewKept(i) ==
  /\ i \in DOMAIN rows
  /\ Original(i).photo # None /\ Fresh(i)
  /\ Show(i, thumb[ThumbOf(i)].photo)
  /\ UNCHANGED <<now, file, thumb, rows, upload, twice>>

(* A damaged original raises before anything is written: 404 as well. *)
PreviewMade(i) ==
  /\ i \in DOMAIN rows
  /\ Original(i).photo \in Uploads /\ ~Fresh(i)
  /\ thumb' = [thumb EXCEPT ![ThumbOf(i)] = [photo |-> Original(i).photo, mtime |-> now]]
  /\ Show(i, Original(i).photo)
  /\ UNCHANGED <<now, file, rows, upload, twice>>

Tick ==
  /\ now < MaxClock
  /\ now' = now + 1
  /\ UNCHANGED <<file, thumb, rows, upload, twice, shown>>

Next ==
  \/ \E u \in Uploads : Receive(u) \/ Store(u) \/ Refuse(u) \/ Break(u)
  \/ \E i \in 1..MaxPhotos : PreviewKept(i) \/ PreviewMade(i)
  \/ Restart \/ Tick

Spec == Init /\ [][Next]_vars

-----------------------------------------------------------------------------
(***************************************************************************)
(* Properties.                                                             *)
(***************************************************************************)
Rivals(u) == {v \in Uploads \ {u} : {u, v} \in twice}

(* However many uploads overlap, a placement never has more rows than      *)
(* MAX_PHOTOS_PER_PLACEMENT: add_photo counts again under the lock.        *)
PhotosBounded == Len(rows) <= MaxPhotos

(* A row's file is there and holds the photo the row was inserted for, or  *)
(* that of an upload that was given the same name while it was under way   *)
(* -- unless such a rival was refused, and removed the file, or broke off. *)
(* Crashes, full disks and orphaned files of earlier uploads do no harm.   *)
RowsHavePhotos ==
  \A i \in DOMAIN rows :
    LET u     == rows[i].photo
        rival == {v \in Rivals(u) : upload[v].name = upload[u].name} IN
    (\A v \in rival : upload[v].at \notin {"refused", "broken"})
      => Original(i).photo \in {u} \cup rival

(* The preview of a photo is never that of another one, nor that of an     *)
(* orphaned file of its number, unless two uploads held the number at once.*)
PreviewsShowTheirPhoto ==
  \A i \in DOMAIN rows : Rivals(rows[i].photo) = {} => shown[i] \subseteq {rows[i].photo}
=============================================================================
