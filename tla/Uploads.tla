------------------------------ MODULE Uploads ------------------------------
(***************************************************************************)
(* Uploaded pictures and the rows that name them.  An upload chooses a     *)
(* file name from its target and the time in milliseconds, opens the file, *)
(* copies the picture into it, only then updates the row, and answers:     *)
(* steps of a goroutine, with no lock and no transaction around them.      *)
(* Uploaded files are served as immutable and are never removed.  The      *)
(* other requests that write the same columns are here as well: the        *)
(* profile edit, the GitHub sign-in that fills an empty avatar, and the    *)
(* bodies that carry a URL of their own, which nothing compares with the   *)
(* uploads.                                                                *)
(*                                                                         *)
(* A request is accepted by an action; one that is refused (400, 401, 403, *)
(* 404) changes nothing and is not a step.  All pictures have one type:    *)
(* pictures of two types never share a name.                               *)
(***************************************************************************)
EXTENDS Integers

CONSTANTS
  Requests,     \* the request slots of the server
  Builders,     \* the signed-in builders
  BuildIds,     \* the builds there are at first
  Pictures,
  Pieces,       \* number of writes it takes to copy a picture
  Hole,         \* a piece of a file that was not written
  NoFile,       \* no file has this name
  NoImage,      \* the empty avatar_url or cover_image
  Elsewhere,    \* an address outside this server
  DisplayNames,
  NoName,       \* the body of a profile edit has no display name
  Bios,         \* values of the columns bio, website and twitter_url
  NoBio,        \* all three are empty, or the body has none of them
  MaxTime,      \* bound on the clock, in milliseconds
  Faults        \* a copy or a statement may fail

Targets == [kind : {"avatar"}, of : Builders] \cup [kind : {"cover"}, of : BuildIds]
FileNames == [target : Targets, at : 0..MaxTime]
Contents == [1..Pieces -> Pictures \cup {Hole}]
Images == FileNames \cup {NoImage, Elsewhere}

ASSUME BoundAssumption == Pieces \in Nat \ {0} /\ MaxTime \in Nat
ASSUME DistinctAssumption ==
  /\ Hole \notin Pictures /\ NoFile \notin Contents
  /\ NoImage \notin FileNames /\ Elsewhere \notin FileNames
  /\ NoName \notin DisplayNames /\ NoBio \notin Bios
ASSUME FlagAssumption == Faults \in BOOLEAN

VARIABLES
  now,       \* the clock
  files,     \* the upload directory: name -> contents, or NoFile
  builds,    \* the builds that exist
  avatar,    \* column avatar_url of builders
  cover,     \* column cover_image of builds
  names,     \* column display_name of builders
  bios,      \* columns bio, website and twitter_url of builders
  req,       \* what each request is about to do
  chosen,    \* history: the file names that requests chose, and when
  reused,    \* history: the file names chosen twice in one millisecond
  answered,  \* history: the uploads that were answered with their URL
  typed,     \* history: the targets whose row names a file because a body
             \* did, and no upload had been answered with it
  asked      \* history: the display name each builder asked for last

rows == <<builds, avatar, cover, names, bios>>
history == <<chosen, reused, answered, typed, asked>>
vars == <<now, files, rows, req, history>>

Uploading == {"create", "copy", "row", "answer"}
Upload == [pc : Uploading, file : FileNames, picture : Pictures, piece : Nat]
Edit == [pc : {"profile"}, builder : Builders, name : DisplayNames, given : BOOLEAN,
         bio : Bios \cup {NoBio}]
Idle == [pc |-> "idle"]
Active(r) == req[r].pc # "idle"
Answer(r) == req' = [req EXCEPT ![r] = Idle]

AvatarOf(b) == [kind |-> "avatar", of |-> b]
CoverOf(i) == [kind |-> "cover", of |-> i]

(* POST /builders stores the avatar_url, the name and the bio of its body. *)
Init ==
  /\ now = 0
  /\ files = [n \in FileNames |-> NoFile]
  /\ builds = BuildIds
  /\ avatar \in [Builders -> Images]
  /\ cover = [i \in BuildIds |-> NoImage]
  /\ names \in [Builders -> DisplayNames]
  /\ bios \in [Builders -> Bios \cup {NoBio}]
  /\ req = [r \in Requests |-> Idle]
  /\ chosen = {}
  /\ reused = {}
  /\ answered = {}
  /\ typed = {AvatarOf(b) : b \in {c \in Builders : avatar[c] \in FileNames}}
  /\ asked = names

-----------------------------------------------------------------------------
(* Mutant: the name is made of the target only. *)
FixedName(target) == [target |-> target, at |-> 0]

(* handle-<ms> in avatars/, id-<ms> in covers/. *)
FileName(target) == [target |-> target, at |-> now]

(* The body was read, its type recognised and the name chosen; the file is *)
(* not open yet.                                                           *)
StartUpload(r, target, picture) ==
  LET n == FileName(target) IN
  /\ ~Active(r)
  /\ req' = [req EXCEPT ![r] = [pc |-> "create", file |-> n,
                               picture |-> picture, piece |-> 1]]
  /\ chosen' = chosen \cup {[file |-> n, at |-> now]}
  /\ reused' = IF [file |-> n, at |-> now] \in chosen THEN reused \cup {n} ELSE reused
  /\ UNCHANGED <<now, files, rows, answered, typed, asked>>

UploadAvatar(r, b, picture) == StartUpload(r, AvatarOf(b), picture)

(* GetOwnerID answered with the caller, before the body was read. *)
UploadCover(r, i, picture) ==
  /\ i \in builds
  /\ StartUpload(r, CoverOf(i), picture)

(* Mutant: the row is updated as soon as there is a file. *)
NameAtOnce(r) ==
  LET q == req[r] IN
  /\ q.pc = "create"
  /\ files' = [files EXCEPT ![q.file] = [k \in 1..Pieces |-> Hole]]
  /\ avatar' = IF q.file.target.kind = "avatar"
                 THEN [avatar EXCEPT ![q.file.target.of] = q.file] ELSE avatar
  /\ req' = [req EXCEPT ![r].pc = "copy"]
  /\ typed' = typed \ {q.file.target}
  /\ UNCHANGED <<now, builds, cover, names, bios, chosen, reused, answered, asked>>

(* os.Create empties a file that is there already. *)
CreateFile(r) ==
  /\ req[r].pc = "create"
  /\ files' = [files EXCEPT ![req[r].file] = [k \in 1..Pieces |-> Hole]]
  /\ req' = [req EXCEPT ![r].pc = "copy"]
  /\ UNCHANGED <<now, rows, history>>

(* io.Copy, one write after the other. *)
CopyPiece(r) ==
  LET q == req[r] IN
  /\ q.pc = "copy"
  /\ files' = [files EXCEPT ![q.file][q.piece] = q.picture]
  /\ req' = [req EXCEPT ![r].piece = q.piece + 1,
                        ![r].pc = IF q.piece = Pieces THEN "row" ELSE "copy"]
  /\ UNCHANGED <<now, rows, history>>

(* The file cannot be made or written: 500, and what was written stays. *)
CopyFails(r) ==
  /\ req[r].pc \in {"create", "copy"}
  /\ Answer(r)
  /\ UNCHANGED <<now, files, rows, history>>

(* UPDATE builders SET avatar_url. *)
UpdateAvatar(r) ==
  LET q == req[r] IN
  /\ q.pc = "row" /\ q.file.target.kind = "avatar"
  /\ avatar' = [avatar EXCEPT ![q.file.target.of] = q.file]
  /\ typed' = typed \ {q.file.target}
  /\ req' = [req EXCEPT ![r].pc = "answer"]
  /\ UNCHANGED <<now, files, builds, cover, names, bios, chosen, reused, answered, asked>>

(* UPDATE builds SET cover_image touches no row when the build is gone. *)
UpdateCoverImage(r) ==
  LET q == req[r] IN
  /\ q.pc = "row" /\ q.file.target.kind = "cover"
  /\ IF q.file.target.of \in builds
       THEN /\ cover' = [cover EXCEPT ![q.file.target.of] = q.file]
            /\ typed' = typed \ {q.file.target}
       ELSE UNCHANGED <<cover, typed>>
  /\ req' = [req EXCEPT ![r].pc = "answer"]
  /\ UNCHANGED <<now, files, builds, avatar, names, bios, chosen, reused, answered, asked>>

(* 200 with the URL; for an avatar after the row was read again. *)
AnswerUpload(r) ==
  LET q == req[r] IN
  /\ q.pc = "answer"
  /\ answered' = answered \cup {[file |-> q.file, picture |-> q.picture]}
  /\ Answer(r)
  /\ UNCHANGED <<now, files, rows, chosen, reused, typed, asked>>

-----------------------------------------------------------------------------
(* PUT /builders/me: the session check read the builder, and a body without *)
(* a display name stands for the one it read.  The other columns are taken *)
(* from the body as they are, empty when it has none.                      *)
UpdateProfile(r, b, name, bio) ==
  /\ ~Active(r)
  /\ req' = [req EXCEPT ![r] =
       [pc |-> "profile", builder |-> b, given |-> name # NoName, bio |-> bio,
        name |-> IF name = NoName THEN names[b] ELSE name]]
  /\ UNCHANGED <<now, files, rows, history>>

(* Mutant: a name that was left out is written as empty. *)
WriteBlank(r) ==
  LET q == req[r] IN
  /\ q.pc = "profile"
  /\ names' = [names EXCEPT ![q.builder] = IF q.given THEN q.name ELSE NoName]
  /\ bios' = [bios EXCEPT ![q.builder] = q.bio]
  /\ asked' = IF q.given THEN [asked EXCEPT ![q.builder] = q.name] ELSE asked
  /\ Answer(r)
  /\ UNCHANGED <<now, files, builds, avatar, cover, chosen, reused, answered, typed>>

(* UPDATE builders SET display_name, bio, website, twitter_url.  The row is *)
(* read again for the answer, which changes nothing: 200, or 500 when that  *)
(* read fails.                                                              *)
WriteProfile(r) ==
  LET q == req[r] IN
  /\ q.pc = "profile"
  /\ names' = [names EXCEPT ![q.builder] = q.name]
  /\ bios' = [bios EXCEPT ![q.builder] = q.bio]
  /\ asked' = IF q.given THEN [asked EXCEPT ![q.builder] = q.name] ELSE asked
  /\ Answer(r)
  /\ UNCHANGED <<now, files, builds, avatar, cover, chosen, reused, answered, typed>>

(* Mutant: without its "AND avatar_url = ''". *)
RefreshAlways(b) ==
  /\ avatar' = [avatar EXCEPT ![b] = Elsewhere]
  /\ UNCHANGED <<now, files, builds, cover, names, bios, req, history>>

(* A GitHub sign-in fills the avatar of a builder who has none. *)
RefreshAvatar(b) ==
  /\ avatar[b] = NoImage
  /\ avatar' = [avatar EXCEPT ![b] = Elsewhere]
  /\ UNCHANGED <<now, files, builds, cover, names, bios, req, history>>

Answered == {a.file : a \in answered}

(* POST /builds and PUT /builds/{id} store the cover_image of the body,    *)
(* whatever it is: the URL an upload was answered with, that of a file     *)
(* which is being written, was left behind or does not exist, or another.  *)
WriteCover(i, image) ==
  /\ i \in builds
  /\ cover' = [cover EXCEPT ![i] = image]
  /\ typed' = IF image \in FileNames \ Answered
                THEN typed \cup {CoverOf(i)} ELSE typed \ {CoverOf(i)}
  /\ UNCHANGED <<now, files, builds, avatar, names, bios, req, chosen, reused, answered, asked>>

(* DELETE /builds/{id}: the row goes, its files stay. *)
DeleteBuild(i) ==
  /\ i \in builds
  /\ builds' = builds \ {i}
  /\ cover' = [cover EXCEPT ![i] = NoImage]
  /\ typed' = typed \ {CoverOf(i)}
  /\ UNCHANGED <<now, files, avatar, names, bios, req, chosen, reused, answered, asked>>

-----------------------------------------------------------------------------
(* A statement fails: 500.  When it is the UPDATE, the file stays and no    *)
(* row names it; when it is the reading after the UPDATE of an avatar, the  *)
(* row names the file though the upload was not answered with it.           *)
StatementFails(r) ==
  /\ \/ req[r].pc \in {"row", "profile"}
     \/ req[r].pc = "answer" /\ req[r].file.target.kind = "avatar"
  /\ Answer(r)
  /\ UNCHANGED <<now, files, rows, history>>

Restart ==
  /\ req' = [r \in Requests |-> Idle]
  /\ UNCHANGED <<now, files, rows, history>>

Tick ==
  /\ now < MaxTime
  /\ now' = now + 1
  /\ UNCHANGED <<files, rows, req, history>>

Begin(r) ==
  \/ \E b \in Builders, p \in Pictures : UploadAvatar(r, b, p)
  \/ \E i \in BuildIds, p \in Pictures : UploadCover(r, i, p)
  \/ \E b \in Builders, name \in DisplayNames \cup {NoName}, bio \in Bios \cup {NoBio} :
       UpdateProfile(r, b, name, bio)
Step(r) ==
  \/ CreateFile(r) \/ CopyPiece(r) \/ UpdateAvatar(r) \/ UpdateCoverImage(r)
  \/ AnswerUpload(r) \/ WriteProfile(r)
Fail(r) == Faults /\ (CopyFails(r) \/ StatementFails(r))
Others ==
  \/ \E b \in Builders : RefreshAvatar(b)
  \/ \E i \in BuildIds :
       \/ DeleteBuild(i)
       \/ \E image \in Images : WriteCover(i, image)

Next ==
  \/ \E r \in Requests : Begin(r) \/ Step(r) \/ Fail(r)
  \/ Others \/ Restart \/ Tick

Spec == Init /\ [][Next]_vars
-----------------------------------------------------------------------------
(* Everything has its type. *)
TypeOK ==
  /\ now \in 0..MaxTime
  /\ files \in [FileNames -> Contents \cup {NoFile}]
  /\ builds \subseteq BuildIds
  /\ avatar \in [Builders -> Images]
  /\ cover \in [BuildIds -> Images]
  /\ names \in [Builders -> DisplayNames]
  /\ bios \in [Builders -> Bios \cup {NoBio}]
  /\ req \in [Requests -> Upload \cup Edit \cup {Idle}]
  /\ \A r \in Requests : req[r].pc \in {"create", "copy"} => req[r].piece \in 1..Pieces
  /\ chosen \subseteq [file : FileNames, at : 0..MaxTime]
  /\ reused \subseteq FileNames
  /\ answered \subseteq [file : FileNames, picture : Pictures]
  /\ typed \subseteq Targets
  /\ asked \in [Builders -> DisplayNames]

Whole(picture) == [k \in 1..Pieces |-> picture]

(* "ServeUploads serves uploaded files with immutable cache headers"       *)
(* (handler/upload.go:226): what an upload was answered with is what its   *)
(* URL shows for ever, whatever is uploaded, fails or restarts later,      *)
(* unless two uploads chose that name in one millisecond.                  *)
AnsweredStays ==
  \A a \in answered : a.file \notin reused => files[a.file] = Whole(a.picture)

(* A row that an upload wrote, or that was given the URL of an answer,     *)
(* names a whole picture, and goes on doing so, whether the upload was     *)
(* answered, failed after its UPDATE or was cut off by a restart, and      *)
(* whatever half-written files lie around; an avatar is its own builder's  *)
(* (handler/upload.go:98-121).  What a body wrote of its own, and names    *)
(* chosen twice in one millisecond, are nobody's promise.                  *)
Row(t) == IF t.kind = "avatar" THEN avatar[t.of] ELSE cover[t.of]

RowsNameWhole ==
  \A t \in Targets \ typed : Row(t) \in FileNames =>
    /\ Row(t) \notin reused => \E p \in Pictures : files[Row(t)] = Whole(p)
    /\ t.kind = "avatar" => Row(t).target = t

(* An avatar, once there is one, is only replaced by an upload of its      *)
(* builder: no profile edit and no GitHub sign-in takes it away, though    *)
(* both write the row (handler/builder.go:104, store/auth.go:188).         *)
AvatarOnlyByUpload ==
  [][\A b \in Builders :
       \/ avatar'[b] = avatar[b]
       \/ avatar[b] = NoImage
       \/ \E r \in Requests :
            /\ req[r].pc = "row" /\ req'[r].pc = "answer"
            /\ req[r].file.target = AvatarOf(b)
            /\ avatar'[b] = req[r].file]_vars

(* The display name is the one its builder asked for last: an edit that    *)
(* leaves the name out leaves the name alone (handler/builder.go:103).     *)
NameAsAsked == names = asked

(* "Keep existing values if not provided" (handler/builder.go:102), of the *)
(* other columns of an edit: they change only by an edit that has them.    *)
KeepExistingValues ==
  [][\A b \in Builders : bios'[b] # bios[b] =>
       \E r \in Requests :
         /\ req[r].pc = "profile" /\ req'[r] # req[r]
         /\ req[r].builder = b /\ req[r].bio # NoBio]_vars
=============================================================================
