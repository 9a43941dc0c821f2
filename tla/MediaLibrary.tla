----------------------------- MODULE MediaLibrary -----------------------------
(***************************************************************************)
(* Files a user uploads (cloudinary.service.ts) and their rows             *)
(* (media-files.service.ts).                                               *)
(*                                                                         *)
(* The file is stored at Cloudinary, then its row is inserted; a deletion  *)
(* reads the row for the type of the file, destroys the file, then deletes *)
(* the row of the user who asks: only this last step looks at the owner.   *)
(* Cloudinary answers "not found" without an error to the wrong type, and  *)
(* a failing call may have done what it was asked.                         *)
(*                                                                         *)
(* Left out: folders, formats, sizes, URLs; files of WhatsApp messages,    *)
(* which have no row.                                                      *)
(***************************************************************************)
EXTENDS Statements, SequencesExt

CONSTANTS Files,        \* public ids
          Uploaders     \* users

\* None stands for no file, no type, no row, no answer and nobody.
ASSUME MediaAssumption ==
    /\ None \notin Files /\ None \notin Uploaders
    /\ None \notin {"image", "video", "raw"} /\ None \notin {"stored", "refused", "removed"}
    /\ None \notin [kind : {"image", "video", "raw"}, owner : Uploaders]

VARIABLES
    asset,      \* asset[f]: resource_type of the file at Cloudinary, or None
    mediaRow,   \* mediaRow[f]: row of media_files, [kind, owner], or None
    mediaTold,  \* mediaTold[f]: the last answer about the file
    handling,   \* handling[h]: a request under way
    halfDone,   \* history: files whose deletion stopped half-way
    taken       \* history: files destroyed for a user who does not own their row

mediaVars == <<asset, mediaRow, mediaTold, handling, halfDone, taken>>

AssetKinds == {"image", "video", "raw"}
Batches    == {<<k>> : k \in AssetKinds} \cup {<<"image", "video">>}
NoHandling == [pc |-> "idle", user |-> None, file |-> None, kinds |-> <<>>, kind |-> None]

MediaInit == /\ asset = [f \in Files |-> None] /\ mediaRow = asset
             /\ mediaTold = asset /\ halfDone = {} /\ taken = {}
             /\ handling = [h \in Handlers |-> NoHandling]

MediaAt(h, pc)   == handling[h].pc = pc
MediaGoes(h, w)  == handling' = [handling EXCEPT ![h] = w]
MediaEnds(h)     == MediaGoes(h, NoHandling)
TellUser(f, what) == mediaTold' = [mediaTold EXCEPT ![f] = what]
NewFiles == {f \in Files : mediaTold[f] = None /\ \A o \in Handlers : handling[o].file # f}

----------------------------------------------------------------------------
(* Uploads: one file, or several images and videos one after the other *)

BeginUpload(h) ==
    /\ MediaAt(h, "idle") /\ Begins
    /\ \E u \in Uploaders, kinds \in Batches :
          MediaGoes(h, [NoHandling EXCEPT !.pc = "upload", !.user = u, !.kinds = kinds])
    /\ UNCHANGED <<asset, mediaRow, mediaTold, halfDone, taken, faults>>

\* uploadImage, uploadVideo, uploadRaw: a failure ends the request, the files before stay.
UploadBuffer(h) ==
    /\ MediaAt(h, "upload") /\ NewFiles # {}
    /\ LET w == handling[h]
           f == AnyOf(NewFiles)
       IN  \/ /\ Answers
              /\ asset' = [asset EXCEPT ![f] = Head(w.kinds)]
              /\ MediaGoes(h, [w EXCEPT !.pc = "persist", !.file = f, !.kind = Head(w.kinds)])
           \/ Fails /\ MediaEnds(h) /\ UNCHANGED asset
    /\ UNCHANGED <<mediaRow, mediaTold, halfDone, taken, calls>>

\* On with the next file of the request.
NextFile(h) ==
    LET w == handling[h]
    IN  IF Len(w.kinds) = 1 THEN MediaEnds(h)
        ELSE MediaGoes(h, [w EXCEPT !.pc = "upload", !.kinds = Tail(@), !.file = None])

\* saveFromCloudinary.
RowOf(w) == [kind |-> w.kind, owner |-> w.user]

\* Without its row a raw file is answered all the same, an image or a video is an error.
ToldWithoutRow(w) == IF w.kind = "raw" THEN "stored" ELSE "refused"

\* persistUpload: the file stays, with its row or without.
PersistUpload(h) ==
    /\ MediaAt(h, "persist")
    /\ LET w == handling[h]
           f == w.file
       IN  \/ /\ Answers /\ TellUser(f, "stored") /\ NextFile(h)
              /\ mediaRow' = [mediaRow EXCEPT ![f] = RowOf(w)]
           \/ Fails /\ TellUser(f, ToldWithoutRow(w)) /\ MediaEnds(h) /\ UNCHANGED mediaRow
    /\ UNCHANGED <<asset, halfDone, taken, calls>>

----------------------------------------------------------------------------
(* removeForUser *)

\* mutant: the type is not looked up.
KindAlwaysImage(f) == "image"
\* The type deleteFile asks Cloudinary to destroy.
KindOf(f) == IF mediaRow[f] = None THEN "image" ELSE mediaRow[f].kind

\* The row of a file is this user's.
Owns(u, f) == mediaRow[f] # None /\ mediaRow[f].owner = u

\* findByPublicId in deleteFile: any user may name a public id, once it is known (Cloudinary
\* draws it at the upload), whoever has the file.
BeginRemove(h) ==
    /\ MediaAt(h, "idle") /\ Begins
    /\ \E f \in Files, u \in Uploaders :
          /\ mediaTold[f] # None
          /\ MediaGoes(h, [NoHandling EXCEPT !.pc = "destroy", !.user = u, !.file = f,
                                             !.kind = KindOf(f)])
    /\ UNCHANGED <<asset, mediaRow, mediaTold, halfDone, taken, faults>>

\* uploader.destroy: another type is "not found", which is no error.
Destroy(h) ==
    /\ MediaAt(h, "destroy")
    /\ LET w == handling[h]
           destroyed == [asset EXCEPT ![w.file] = IF @ = w.kind THEN None ELSE @]
       IN  /\ \/ /\ Answers /\ asset' = destroyed
                 /\ MediaGoes(h, [w EXCEPT !.pc = "delete"]) /\ UNCHANGED halfDone
              \/ /\ Fails /\ asset' \in {asset, destroyed} /\ MediaEnds(h)
                 /\ halfDone' = halfDone \cup {w.file}
           /\ taken' = IF asset' = asset \/ Owns(w.user, w.file) THEN taken
                       ELSE taken \cup {w.file}
    /\ UNCHANGED <<mediaRow, mediaTold, calls>>

\* deleteByPublicId: without a row of the user's the answer is 404.
DeleteByPublicId(h) ==
    /\ MediaAt(h, "delete")
    /\ LET f == handling[h].file
           owned == Owns(handling[h].user, f)
       IN  \/ /\ owned /\ Answers /\ TellUser(f, "removed")
              /\ mediaRow' = [mediaRow EXCEPT ![f] = None] /\ UNCHANGED halfDone
           \/ ~owned /\ Answers /\ UNCHANGED <<mediaRow, mediaTold, halfDone>>
           \/ Fails /\ halfDone' = halfDone \cup {f} /\ UNCHANGED <<mediaRow, mediaTold>>
    /\ MediaEnds(h)
    /\ UNCHANGED <<asset, taken, calls>>

\* listForUser: the rows of a user.
ListMedia(u) == {f \in Files : Owns(u, f)}

MediaNext == \E h \in Handlers : \/ BeginUpload(h) \/ UploadBuffer(h) \/ PersistUpload(h)
                                 \/ BeginRemove(h) \/ Destroy(h) \/ DeleteByPublicId(h)

MediaSpec == MediaInit /\ calls = 0 /\ faults = 0 /\ [][MediaNext]_<<mediaVars, counters>>

----------------------------------------------------------------------------
(* Properties *)

\* Types of the files and of the rows.
MediaTypeOK ==
    \A f \in Files : /\ asset[f] \in AssetKinds \cup {None}
                     /\ mediaRow[f] # None => mediaRow[f].owner \in Uploaders
                     /\ mediaTold[f] \in {None, "stored", "refused", "removed"}

\* The owner of a file removes it, and is past Cloudinary.
Removing(f) == \E h \in Handlers : /\ MediaAt(h, "delete") /\ handling[h].file = f
                                   /\ Owns(handling[h].user, f)

\* A file of the library is at Cloudinary, with the type of its row, unless its owner
\* removes it, or a deletion failed half-way or came from another user; one that was removed
\* is nowhere, and one told stored without a row is a raw file.
FilesFollowRows ==
    /\ \A u \in Uploaders, f \in Files : f \in ListMedia(u) =>
          asset[f] = mediaRow[f].kind \/ f \in halfDone \cup taken \/ Removing(f)
    /\ \A f \in Files :
          /\ mediaTold[f] = "removed" => asset[f] = None /\ mediaRow[f] = None
          /\ mediaTold[f] = "stored" /\ mediaRow[f] = None => asset[f] \in {"raw"}

\* Not so of this program: without a failure, a file of the library goes by a deletion of
\* its owner only.
OnlyOwnersRemove ==
    \A u \in Uploaders, f \in Files : f \in ListMedia(u) =>
       asset[f] = mediaRow[f].kind \/ f \in halfDone \/ Removing(f)
================================================================================
