--------------------------- MODULE UploadsProofs ---------------------------
(***************************************************************************)
(* Theorems about Uploads, for every set of requests, builders, builds and *)
(* pictures, every number of pieces, with and without faults; and of the   *)
(* profile edits of MCUploads that follow one another.                     *)
(***************************************************************************)
EXTENDS MCUploads, TLAPS

(* A request that copies has opened its file. *)
Opened == \A r \in Requests : req[r].pc = "copy" => files[req[r].file] # NoFile

TInv == TypeOK /\ Opened

LEMMA RequestKinds ==
  ASSUME TypeOK, NEW r \in Requests
  PROVE  /\ req[r].pc \in Uploading => req[r] \in Upload
         /\ req[r].pc = "profile" => req[r] \in Edit
         /\ req[r] \notin Upload => req[r].pc \notin Uploading
<1>1. req[r] \in Upload \cup Edit \cup {Idle}
  BY DEF TypeOK
<1>2. \A q \in Edit : q.pc = "profile"
  BY DEF Edit
<1>3. Idle.pc = "idle"
  BY DEF Idle
<1>4. \A q \in Upload : q.pc \in Uploading
  BY DEF Upload
<1>5. QED BY <1>1, <1>2, <1>3, <1>4 DEF Uploading

LEMMA FileNameIsName ==
  ASSUME TypeOK, NEW target \in Targets
  PROVE  /\ FileName(target) \in FileNames
         /\ FileName(target).target = target /\ FileName(target).at = now
BY DEF FileName, FileNames, TypeOK

LEMMA TargetsAre ==
  /\ \A b \in Builders : AvatarOf(b) \in Targets
  /\ \A i \in BuildIds : CoverOf(i) \in Targets
BY DEF Targets, AvatarOf, CoverOf

LEMMA TypeInit == Init => TInv
<1> SUFFICES ASSUME Init PROVE TInv
  OBVIOUS
<1>1. \A r \in Requests : req[r] = Idle /\ req[r].pc = "idle"
  BY DEF Init, Idle
<1>2. typed \subseteq Targets
  BY TargetsAre DEF Init
<1>3. TypeOK
  <2>1. NoImage \in Images /\ now \in 0..MaxTime
    BY BoundAssumption DEF Init, Images
  <2>2. cover \in [BuildIds -> Images] /\ req \in [Requests -> Upload \cup Edit \cup {Idle}]
    BY <2>1 DEF Init
  <2>3. /\ files \in [FileNames -> Contents \cup {NoFile}]
        /\ asked \in [Builders -> DisplayNames]
    BY DEF Init
  <2>4. QED BY <1>1, <1>2, <2>1, <2>2, <2>3 DEF Init, TypeOK
<1>4. Opened
  BY <1>1 DEF Opened
<1>5. QED BY <1>3, <1>4 DEF TInv

(* What TypeOK says of the requests. *)
ReqOK ==
  /\ req \in [Requests -> Upload \cup Edit \cup {Idle}]
  /\ \A r \in Requests : req[r].pc \in {"create", "copy"} => req[r].piece \in 1..Pieces

(* A request that moves to a proper record keeps it. *)
LEMMA MoveTypes ==
  ASSUME TypeOK, NEW r \in Requests, NEW q \in Upload \cup Edit \cup {Idle},
         q.pc \in {"create", "copy"} => q.piece \in 1..Pieces,
         req' = [req EXCEPT ![r] = q]
  PROVE  /\ ReqOK'
         /\ req'[r] = q /\ \A s \in Requests : s # r => req'[s] = req[s]
BY DEF TypeOK, ReqOK

LEMMA AnswerTypes ==
  ASSUME TypeOK, NEW r \in Requests, Answer(r)
  PROVE  /\ ReqOK'
         /\ req'[r] = Idle /\ \A s \in Requests : s # r => req'[s] = req[s]
<1>1. Idle.pc \notin {"create", "copy"}
  BY DEF Idle
<1>2. QED BY <1>1, MoveTypes DEF Answer

LEMMA TypeStart ==
  ASSUME TInv, NEW r \in Requests, NEW target \in Targets, NEW p \in Pictures,
         StartUpload(r, target, p)
  PROVE  TInv'
<1> USE DEF TInv
<1> DEFINE n == FileName(target)
           q == [pc |-> "create", file |-> n, picture |-> p, piece |-> 1]
<1>1. n \in FileNames
  BY FileNameIsName
<1>2. q \in Upload /\ q.pc = "create" /\ q.piece \in 1..Pieces
  BY <1>1, BoundAssumption DEF Upload, Uploading
<1>3. /\ req' = [req EXCEPT ![r] = q]
      /\ chosen' = chosen \cup {[file |-> n, at |-> now]}
      /\ reused' \subseteq reused \cup {n}
      /\ UNCHANGED <<now, files, rows, answered, typed, asked>>
  BY DEF StartUpload
<1> HIDE DEF n, q
<1>4. ReqOK' /\ req'[r] = q /\ \A s \in Requests : s # r => req'[s] = req[s]
  BY <1>2, <1>3, MoveTypes
<1>5. chosen' \subseteq [file : FileNames, at : 0..MaxTime] /\ reused' \subseteq FileNames
  BY <1>1, <1>3 DEF TypeOK
<1>6. TypeOK'
  BY <1>3, <1>4, <1>5 DEF TypeOK, ReqOK, rows
<1>7. Opened'
  BY <1>2, <1>3, <1>4 DEF Opened
<1>8. QED BY <1>6, <1>7

LEMMA TypeCreate ==
  ASSUME TInv, NEW r \in Requests, CreateFile(r)
  PROVE  TInv'
<1> USE DEF TInv
<1>1. req[r] \in Upload /\ req[r].piece \in 1..Pieces
  BY RequestKinds DEF CreateFile, Uploading, TypeOK
<1> DEFINE q == [req[r] EXCEPT !.pc = "copy"]
<1> DEFINE c == [k \in 1..Pieces |-> Hole]
<1>2. /\ q \in Upload /\ q.pc = "copy" /\ q.file = req[r].file
      /\ q.piece \in 1..Pieces /\ req[r].file \in FileNames
  BY <1>1 DEF Upload, Uploading
<1>3. /\ req' = [req EXCEPT ![r] = q]
      /\ files' = [files EXCEPT ![req[r].file] = c]
      /\ UNCHANGED <<now, rows, history>>
  BY DEF CreateFile
<1>4. c \in Contents /\ c # NoFile
  BY DistinctAssumption DEF Contents
<1> HIDE DEF q, c
<1>5. ReqOK' /\ req'[r] = q /\ \A s \in Requests : s # r => req'[s] = req[s]
  BY <1>2, <1>3, MoveTypes
<1>6. files' \in [FileNames -> Contents \cup {NoFile}]
  BY <1>2, <1>3, <1>4 DEF TypeOK
<1>7. TypeOK'
  BY <1>3, <1>5, <1>6 DEF TypeOK, ReqOK, rows, history
<1>8. ASSUME NEW s \in Requests, req'[s].pc = "copy" PROVE files'[req'[s].file] # NoFile
  <2>1. req'[s].file \in FileNames
    BY <1>7, <1>8, RequestKinds, <1>5, <1>2 DEF Uploading, Upload
  <2>2. QED BY <2>1, <1>2, <1>3, <1>4, <1>5, <1>8 DEF Opened, TypeOK
<1>9. QED BY <1>7, <1>8 DEF Opened

LEMMA TypeCopy ==
  ASSUME TInv, NEW r \in Requests, CopyPiece(r)
  PROVE  TInv'
<1> USE DEF TInv
<1>1. req[r] \in Upload /\ req[r].piece \in 1..Pieces /\ files[req[r].file] # NoFile
  BY RequestKinds DEF CopyPiece, Uploading, TypeOK, Opened
<1> DEFINE pc == IF req[r].piece = Pieces THEN "row" ELSE "copy"
           q == [req[r] EXCEPT !.piece = req[r].piece + 1, !.pc = pc]
<1> DEFINE c == [files[req[r].file] EXCEPT ![req[r].piece] = req[r].picture]
<1>2. /\ req[r].file \in FileNames /\ req[r].picture \in Pictures
      /\ req[r].pc = "copy"
  BY <1>1 DEF Upload, CopyPiece
<1>3. /\ q \in Upload /\ q.pc \in {"copy", "row"} /\ q.file = req[r].file
      /\ q.pc \in {"create", "copy"} => q.piece \in 1..Pieces
  <2>1. /\ pc \in {"copy", "row"} /\ req[r].piece + 1 \in Nat
        /\ pc = "copy" => req[r].piece + 1 \in 1..Pieces
    BY <1>1, BoundAssumption
  <2> DEFINE k == req[r].piece + 1
  <2>2. k \in Nat /\ (pc = "copy" => k \in 1..Pieces)
    BY <2>1
  <2> HIDE DEF pc, k
  <2>3. [req[r] EXCEPT !.piece = k, !.pc = pc] \in Upload
    BY <1>1, <2>1, <2>2 DEF Upload, Uploading
  <2>4. /\ q.pc = pc /\ q.file = req[r].file /\ q.piece = k
    BY <1>1 DEF Upload, k
  <2>5. QED BY <2>1, <2>2, <2>3, <2>4 DEF k
<1>4. files[req[r].file] \in Contents
  BY <1>1, <1>2 DEF TypeOK
<1>5. c \in Contents /\ c # NoFile
  BY <1>1, <1>2, <1>4, DistinctAssumption DEF Contents
<1>6. /\ req' = [req EXCEPT ![r] = q]
      /\ files' = [files EXCEPT ![req[r].file] = c]
      /\ UNCHANGED <<now, rows, history>>
  BY DEF CopyPiece
<1> HIDE DEF q, c
<1>7. ReqOK' /\ req'[r] = q /\ \A s \in Requests : s # r => req'[s] = req[s]
  BY <1>3, <1>6, MoveTypes
<1>8. files' \in [FileNames -> Contents \cup {NoFile}]
  BY <1>2, <1>5, <1>6 DEF TypeOK
<1>9. TypeOK'
  BY <1>6, <1>7, <1>8 DEF TypeOK, ReqOK, rows, history
<1>10. ASSUME NEW s \in Requests, req'[s].pc = "copy" PROVE files'[req'[s].file] # NoFile
  <2>1. req'[s].file \in FileNames
    BY <1>9, <1>10, RequestKinds, <1>7, <1>3 DEF Uploading, Upload
  <2>2. QED BY <2>1, <1>1, <1>2, <1>3, <1>5, <1>6, <1>7, <1>10 DEF Opened, TypeOK
<1>11. QED BY <1>9, <1>10 DEF Opened

(* The steps that end a request and leave the files and the images alone. *)
LEMMA TypeEnd ==
  ASSUME TInv, NEW r \in Requests, Answer(r),
         UNCHANGED <<now, files, builds, avatar, cover, chosen, reused, typed>>,
         names' \in [Builders -> DisplayNames], asked' \in [Builders -> DisplayNames],
         bios' \in [Builders -> Bios \cup {NoBio}],
         answered' \subseteq [file : FileNames, picture : Pictures]
  PROVE  TInv'
<1>1. TypeOK /\ Opened
  BY DEF TInv
<1>2. ReqOK' /\ req'[r] = Idle /\ \A s \in Requests : s # r => req'[s] = req[s]
  BY <1>1, AnswerTypes
<1>3. TypeOK'
  BY <1>1, <1>2 DEF TypeOK, ReqOK
<1>4. Opened'
  BY <1>1, <1>2 DEF Opened, Idle
<1>5. QED BY <1>3, <1>4 DEF TInv

(* An upload writes its row. *)
LEMMA TypeRow ==
  ASSUME TInv, NEW r \in Requests, UpdateAvatar(r) \/ UpdateCoverImage(r)
  PROVE  TInv'
<1> DEFINE q == [req[r] EXCEPT !.pc = "answer"]
<1>t. TypeOK /\ Opened
  BY DEF TInv
<1>1. req[r] \in Upload
  BY <1>t, RequestKinds DEF UpdateAvatar, UpdateCoverImage, Uploading
<1>2. req[r].file \in Images
  BY <1>1 DEF Upload, Images
<1>3. q \in Upload /\ q.pc = "answer"
  BY <1>1 DEF Upload, Uploading
<1>4. /\ req' = [req EXCEPT ![r] = q] /\ typed' \subseteq typed
      /\ UNCHANGED <<now, files, builds, names, bios, chosen, reused, answered, asked>>
  BY DEF UpdateAvatar, UpdateCoverImage
<1>5. avatar' \in [Builders -> Images] /\ cover' \in [BuildIds -> Images]
  BY <1>t, <1>2 DEF TypeOK, UpdateAvatar, UpdateCoverImage
<1> HIDE DEF q
<1>6. ReqOK' /\ req'[r] = q /\ \A s \in Requests : s # r => req'[s] = req[s]
  BY <1>t, <1>3, <1>4, MoveTypes
<1>7. TypeOK'
  BY <1>t, <1>4, <1>5, <1>6 DEF TypeOK, ReqOK
<1>8. Opened'
  BY <1>t, <1>3, <1>4, <1>6 DEF Opened
<1>9. QED BY <1>7, <1>8 DEF TInv

(* Any step keeps the types. *)
LEMMA TypeStep == TInv /\ [Next]_vars => TInv'
<1> SUFFICES ASSUME TInv, [Next]_vars PROVE TInv'
  OBVIOUS
<1>t. TypeOK /\ Opened
  BY DEF TInv
<1>1. ASSUME NEW r \in Requests, NEW b \in Builders, NEW p \in Pictures, UploadAvatar(r, b, p)
      PROVE  TInv'
  BY <1>1, TypeStart, TargetsAre DEF UploadAvatar
<1>2. ASSUME NEW r \in Requests, NEW i \in BuildIds, NEW p \in Pictures, UploadCover(r, i, p)
      PROVE  TInv'
  BY <1>2, TypeStart, TargetsAre DEF UploadCover
<1>3. ASSUME NEW r \in Requests, NEW b \in Builders, NEW name \in DisplayNames \cup {NoName},
             NEW bio \in Bios \cup {NoBio}, UpdateProfile(r, b, name, bio)
      PROVE  TInv'
  <2> DEFINE q == [pc |-> "profile", builder |-> b, given |-> name # NoName, bio |-> bio,
                   name |-> IF name = NoName THEN names[b] ELSE name]
  <2>1. (IF name = NoName THEN names[b] ELSE name) \in DisplayNames
    BY <1>t DEF TypeOK
  <2>2. q \in Edit /\ q.pc = "profile"
    BY <2>1 DEF Edit
  <2>3. req' = [req EXCEPT ![r] = q] /\ UNCHANGED <<now, files, rows, history>>
    BY <1>3 DEF UpdateProfile
  <2> HIDE DEF q
  <2>4. ReqOK' /\ req'[r] = q /\ \A s \in Requests : s # r => req'[s] = req[s]
    BY <1>t, <2>2, <2>3, MoveTypes
  <2>5. TypeOK'
    BY <1>t, <2>3, <2>4 DEF TypeOK, ReqOK, rows, history
  <2>6. Opened'
    BY <1>t, <2>2, <2>3, <2>4 DEF Opened
  <2>7. QED BY <2>5, <2>6 DEF TInv
<1>4. ASSUME NEW r \in Requests, AnswerUpload(r)
      PROVE  TInv'
  <2>1. req[r] \in Upload
    BY <1>t, <1>4, RequestKinds DEF AnswerUpload, Uploading
  <2>2. req[r].file \in FileNames /\ req[r].picture \in Pictures
    BY <2>1 DEF Upload
  <2>3. answered' \subseteq [file : FileNames, picture : Pictures]
    BY <1>t, <1>4, <2>2 DEF TypeOK, AnswerUpload
  <2>4. Answer(r) /\ UNCHANGED <<now, files, rows, chosen, reused, typed, asked>>
    BY <1>4 DEF AnswerUpload
  <2>5. QED BY <1>t, <2>3, <2>4, TypeEnd DEF TypeOK, rows
<1>5. ASSUME NEW r \in Requests, WriteProfile(r)
      PROVE  TInv'
  <2>1. req[r] \in Edit
    BY <1>t, <1>5, RequestKinds DEF WriteProfile
  <2>2. req[r].name \in DisplayNames /\ req[r].bio \in Bios \cup {NoBio}
    BY <2>1 DEF Edit
  <2>3. /\ names' \in [Builders -> DisplayNames] /\ asked' \in [Builders -> DisplayNames]
        /\ bios' \in [Builders -> Bios \cup {NoBio}]
    BY <1>t, <1>5, <2>2 DEF TypeOK, WriteProfile
  <2>4. /\ Answer(r)
        /\ UNCHANGED <<now, files, builds, avatar, cover, chosen, reused, answered, typed>>
    BY <1>5 DEF WriteProfile
  <2>5. QED BY <1>t, <2>3, <2>4, TypeEnd DEF TypeOK
<1>6. ASSUME NEW r \in Requests, CopyFails(r) \/ StatementFails(r)
      PROVE  TInv'
  <2>1. Answer(r) /\ UNCHANGED <<now, files, rows, history>>
    BY <1>6 DEF CopyFails, StatementFails
  <2>2. QED BY <1>t, <2>1, TypeEnd DEF TypeOK, rows, history
<1>7. ASSUME Others
      PROVE  TInv'
  <2>1. UNCHANGED <<now, files, names, bios, req, chosen, reused, answered, asked>>
    BY <1>7 DEF Others, RefreshAvatar, DeleteBuild, WriteCover, history
  <2>2. builds' \subseteq BuildIds /\ avatar' \in [Builders -> Images]
    BY <1>t, <1>7 DEF Others, RefreshAvatar, DeleteBuild, WriteCover, TypeOK, Images
  <2>3. cover' \in [BuildIds -> Images]
    BY <1>t, <1>7 DEF Others, RefreshAvatar, DeleteBuild, WriteCover, TypeOK, Images
  <2>4. typed' \subseteq Targets
    BY <1>t, <1>7, TargetsAre
       DEF Others, RefreshAvatar, DeleteBuild, WriteCover, TypeOK, history
  <2>5. QED BY <1>t, <2>1, <2>2, <2>3, <2>4 DEF TInv, TypeOK, Opened
<1>8. CASE Restart
  <2>1. \A s \in Requests : req'[s] = Idle /\ req'[s].pc = "idle"
    BY <1>8 DEF Restart, Idle
  <2>2. TypeOK'
    BY <1>t, <1>8, <2>1 DEF TypeOK, Restart, rows, history
  <2>3. Opened'
    BY <2>1 DEF Opened
  <2>4. QED BY <2>2, <2>3 DEF TInv
<1>9. CASE Tick
  BY <1>t, <1>9, BoundAssumption DEF TInv, TypeOK, Opened, Tick, rows, history
<1>10. CASE UNCHANGED vars
  BY <1>t, <1>10 DEF TInv, TypeOK, Opened, vars, rows, history
<1>11. QED
  BY <1>1, <1>2, <1>3, <1>4, <1>5, <1>6, <1>7, <1>8, <1>9, <1>10,
     TypeCreate, TypeCopy, TypeRow
     DEF Next, Begin, Step, Fail

(* The type invariant. *)
THEOREM TypeCorrect == Spec => []TypeOK
<1>1. Init => TInv
  BY TypeInit
<1>2. TInv /\ [Next]_vars => TInv'
  BY TypeStep
<1>3. TInv => TypeOK
  BY DEF TInv
<1>4. QED BY <1>1, <1>2, <1>3, PTL DEF Spec

-----------------------------------------------------------------------------
Up(r) == req[r].pc \in Uploading
Stamp(n) == [file |-> n, at |-> n.at]

(* Whoever holds a file name chose it, or its upload did. *)
Given == /\ \A r \in Requests : Up(r) => Stamp(req[r].file) \in chosen
         /\ \A a \in answered : Stamp(a.file) \in chosen

(* Two uploads, running or answered, share a name only when it was reused. *)
Apart ==
  /\ \A r, s \in Requests :
       r # s /\ Up(r) /\ Up(s) /\ req[r].file = req[s].file => req[r].file \in reused
  /\ \A r \in Requests, a \in answered :
       Up(r) /\ a.file = req[r].file => a.file \in reused

(* What a request has copied so far is in its file. *)
Copied ==
  \A r \in Requests :
    /\ req[r].pc = "create" => req[r].piece = 1
    /\ req[r].pc \in {"copy", "row", "answer"} /\ req[r].file \notin reused =>
         /\ files[req[r].file] # NoFile
         /\ \A k \in 1..Pieces :
              req[r].pc # "copy" \/ k < req[r].piece => files[req[r].file][k] = req[r].picture

FInv == Given /\ Apart /\ Copied /\ AnsweredStays

LEMMA FilesInit == Init => FInv
<1> SUFFICES ASSUME Init PROVE FInv
  OBVIOUS
<1>1. \A r \in Requests : req[r].pc = "idle"
  BY DEF Init, Idle
<1>2. answered = {}
  BY DEF Init
<1>3. QED BY <1>1, <1>2 DEF FInv, Given, Apart, Copied, AnsweredStays, Up, Uploading

LEMMA FilesStart ==
  ASSUME TInv, FInv, NEW r \in Requests, NEW target \in Targets, NEW p \in Pictures,
         StartUpload(r, target, p)
  PROVE  FInv'
<1> DEFINE n == FileName(target)
           q == [pc |-> "create", file |-> n, picture |-> p, piece |-> 1]
<1>1. n \in FileNames /\ n.at = now
  BY FileNameIsName DEF TInv
<1>2. q.pc = "create" /\ q.file = n /\ q.piece = 1
  OBVIOUS
<1>3. /\ req' = [req EXCEPT ![r] = q]
      /\ chosen' = chosen \cup {Stamp(n)}
      /\ reused' = IF Stamp(n) \in chosen THEN reused \cup {n} ELSE reused
      /\ UNCHANGED <<files, answered>>
  BY <1>1 DEF StartUpload, Stamp
<1> HIDE DEF n, q
<1>4. req'[r] = q /\ \A s \in Requests : s # r => req'[s] = req[s]
  BY <1>3 DEF TInv, TypeOK
<1>5. reused \subseteq reused' /\ (Stamp(n) \in chosen => n \in reused')
  BY <1>3
<1>6. Given'
  BY <1>2, <1>3, <1>4 DEF FInv, Given, Up, Stamp
<1>7. Apart'
  BY <1>2, <1>3, <1>4, <1>5 DEF FInv, Given, Apart, Up
<1>8. Copied'
  BY <1>2, <1>3, <1>4, <1>5 DEF FInv, Copied
<1>9. AnsweredStays'
  BY <1>3, <1>5 DEF FInv, AnsweredStays, Whole
<1>10. QED BY <1>6, <1>7, <1>8, <1>9 DEF FInv

(* Writing into the file of a request: whoever else knows that file shares *)
(* it, so that its name was reused.                                        *)
LEMMA FilesWrite ==
  ASSUME TInv, FInv, NEW r \in Requests, Up(r), NEW c, NEW q \in Upload,
         q.file = req[r].file, q.pc \in {"copy", "row"},
         req[r].file \in FileNames,
         req' = [req EXCEPT ![r] = q],
         files' = [files EXCEPT ![req[r].file] = c],
         UNCHANGED <<chosen, reused, answered>>,
         q.file \notin reused =>
           /\ c # NoFile
           /\ \A k \in 1..Pieces : q.pc = "row" \/ k < q.piece => c[k] = q.picture
  PROVE  FInv'
<1>1. req'[r] = q /\ \A s \in Requests : s # r => req'[s] = req[s]
  BY DEF TInv, TypeOK
<1>2. /\ files'[req[r].file] = c
      /\ \A f \in FileNames : f # req[r].file => files'[f] = files[f]
  BY DEF TInv, TypeOK
<1>3. \A s \in Requests : Up(s)' => Up(s) /\ req'[s].file = req[s].file
  BY <1>1 DEF Up, Uploading
<1>4. Given'
  BY <1>3 DEF FInv, Given
<1>5. Apart'
  BY <1>3 DEF FInv, Apart
<1>6. Copied'
  <2>1. ASSUME NEW s \in Requests, s # r, req[s].pc \in {"copy", "row", "answer"},
               req[s].file \notin reused
        PROVE  files'[req[s].file] = files[req[s].file]
    <3>1. req[s].file # req[r].file
      BY <2>1 DEF FInv, Apart, Up, Uploading
    <3>2. req[s].file \in FileNames
      BY <2>1, RequestKinds DEF TInv, Uploading, Upload
    <3>3. QED BY <1>2, <3>1, <3>2
  <2>2. QED BY <1>1, <1>2, <2>1 DEF FInv, Copied
<1>7. AnsweredStays'
  <2>1. ASSUME NEW a \in answered, a.file \notin reused
        PROVE  files'[a.file] = files[a.file]
    <3>1. a.file # req[r].file
      BY <2>1 DEF FInv, Apart
    <3>2. a.file \in FileNames
      BY DEF TInv, TypeOK
    <3>3. QED BY <1>2, <3>1, <3>2
  <2>2. QED BY <2>1 DEF FInv, AnsweredStays, Whole
<1>8. QED BY <1>4, <1>5, <1>6, <1>7 DEF FInv

LEMMA FilesCreate ==
  ASSUME TInv, FInv, NEW r \in Requests, CreateFile(r)
  PROVE  FInv'
<1>1. req[r] \in Upload /\ req[r].pc = "create" /\ req[r].piece = 1 /\ Up(r)
  BY RequestKinds DEF CreateFile, Uploading, TInv, FInv, Copied, Up
<1> DEFINE q == [req[r] EXCEPT !.pc = "copy"]
           c == [k \in 1..Pieces |-> Hole]
<1>2. /\ q \in Upload /\ q.pc = "copy" /\ q.file = req[r].file
      /\ q.piece = 1 /\ req[r].file \in FileNames
  BY <1>1 DEF Upload, Uploading
<1>3. /\ req' = [req EXCEPT ![r] = q]
      /\ files' = [files EXCEPT ![req[r].file] = c]
      /\ UNCHANGED <<chosen, reused, answered>>
  BY DEF CreateFile, history
<1>4. c # NoFile
  BY DistinctAssumption DEF Contents
<1>5. \A k \in 1..Pieces : ~(k < 1)
  OBVIOUS
<1> HIDE DEF q, c
<1>6. QED BY <1>1, <1>2, <1>3, <1>4, <1>5, FilesWrite

LEMMA FilesCopy ==
  ASSUME TInv, FInv, NEW r \in Requests, CopyPiece(r)
  PROVE  FInv'
<1>1. /\ req[r] \in Upload /\ req[r].pc = "copy" /\ req[r].piece \in 1..Pieces /\ Up(r)
      /\ files[req[r].file] # NoFile
  BY RequestKinds DEF CopyPiece, Uploading, TInv, TypeOK, Opened, Up
<1> DEFINE pc == IF req[r].piece = Pieces THEN "row" ELSE "copy"
           n == req[r].piece + 1
           q == [req[r] EXCEPT !.piece = n, !.pc = pc]
           c == [files[req[r].file] EXCEPT ![req[r].piece] = req[r].picture]
<1>2. req[r].file \in FileNames /\ req[r].picture \in Pictures
  BY <1>1 DEF Upload
<1>3. files[req[r].file] \in Contents
  BY <1>1, <1>2 DEF TInv, TypeOK
<1>4. c \in Contents /\ c # NoFile
  BY <1>1, <1>2, <1>3, DistinctAssumption DEF Contents
<1>5. /\ \A k \in 1..Pieces : k # req[r].piece => c[k] = files[req[r].file][k]
      /\ c[req[r].piece] = req[r].picture
  BY <1>1, <1>3 DEF Contents
<1>6. \A k \in 1..Pieces : pc = "row" \/ k < n => k = req[r].piece \/ k < req[r].piece
  BY <1>1, BoundAssumption
<1>7. n \in Nat /\ pc \in {"copy", "row"}
  BY <1>1, BoundAssumption
<1>8. /\ req' = [req EXCEPT ![r] = q]
      /\ files' = [files EXCEPT ![req[r].file] = c]
      /\ UNCHANGED <<chosen, reused, answered>>
  BY DEF CopyPiece, history
<1> HIDE DEF pc, n, c
<1>9. /\ q \in Upload /\ q.pc = pc /\ q.file = req[r].file
      /\ q.piece = n /\ q.picture = req[r].picture
  BY <1>1, <1>7 DEF Upload, Uploading
<1> HIDE DEF q
<1>10. ASSUME q.file \notin reused, NEW k \in 1..Pieces, q.pc = "row" \/ k < q.piece
       PROVE  c[k] = q.picture
  <2>1. CASE k = req[r].piece
    BY <2>1, <1>5, <1>9
  <2>2. CASE k < req[r].piece /\ k # req[r].piece
    BY <2>2, <1>1, <1>5, <1>9, <1>10 DEF FInv, Copied
  <2>3. QED BY <2>1, <2>2, <1>6, <1>9, <1>10, <1>1
<1>11. QED BY <1>1, <1>2, <1>4, <1>7, <1>8, <1>9, <1>10, FilesWrite

(* What an upload that writes or has written its row made of its file. *)
LEMMA CopiedWhole ==
  ASSUME TInv, FInv, NEW r \in Requests, req[r].pc \in {"row", "answer"},
         req[r].file \notin reused
  PROVE  files[req[r].file] = Whole(req[r].picture)
<1>1. req[r] \in Upload
  BY RequestKinds DEF TInv, Uploading
<1>2. /\ files[req[r].file] # NoFile
      /\ \A k \in 1..Pieces : files[req[r].file][k] = req[r].picture
  BY DEF FInv, Copied
<1>3. files[req[r].file] \in Contents
  BY <1>1, <1>2 DEF TInv, TypeOK, Upload
<1>4. QED BY <1>2, <1>3 DEF Contents, Whole

(* The row is written: the upload goes on to its answer. *)
LEMMA FilesRow ==
  ASSUME TInv, FInv, NEW r \in Requests, UpdateAvatar(r) \/ UpdateCoverImage(r)
  PROVE  FInv'
<1> DEFINE q == [req[r] EXCEPT !.pc = "answer"]
<1>1. req[r] \in Upload /\ req[r].pc = "row" /\ Up(r)
  BY RequestKinds DEF UpdateAvatar, UpdateCoverImage, Uploading, TInv, Up
<1>2. q.pc = "answer" /\ q.file = req[r].file /\ q.picture = req[r].picture
  BY <1>1 DEF Upload
<1>3. req' = [req EXCEPT ![r] = q] /\ UNCHANGED <<files, chosen, reused, answered>>
  BY DEF UpdateAvatar, UpdateCoverImage
<1> HIDE DEF q
<1>4. req'[r] = q /\ \A s \in Requests : s # r => req'[s] = req[s]
  BY <1>3 DEF TInv, TypeOK
<1>5. \A s \in Requests : Up(s)' => Up(s) /\ req'[s].file = req[s].file
  BY <1>1, <1>2, <1>4 DEF Up
<1>6. Given'
  BY <1>3, <1>5 DEF FInv, Given
<1>7. Apart'
  BY <1>3, <1>5 DEF FInv, Apart
<1>8. Copied'
  BY <1>1, <1>2, <1>3, <1>4 DEF FInv, Copied
<1>9. AnsweredStays'
  BY <1>3 DEF FInv, AnsweredStays, Whole
<1>10. QED BY <1>6, <1>7, <1>8, <1>9 DEF FInv

LEMMA FilesAnswered ==
  ASSUME TInv, FInv, NEW r \in Requests, AnswerUpload(r)
  PROVE  FInv'
<1>1. req[r] \in Upload /\ req[r].pc = "answer" /\ Up(r)
  BY RequestKinds DEF AnswerUpload, Uploading, TInv, Up
<1> DEFINE a == [file |-> req[r].file, picture |-> req[r].picture]
<1>2. /\ req' = [req EXCEPT ![r] = Idle]
      /\ answered' = answered \cup {a}
      /\ UNCHANGED <<files, chosen, reused>>
  BY DEF AnswerUpload, Answer
<1>3. /\ req'[r].pc = "idle" /\ \A s \in Requests : s # r => req'[s] = req[s]
  BY <1>2 DEF TInv, TypeOK, Idle
<1>4. Given'
  BY <1>1, <1>2, <1>3 DEF FInv, Given, Up, Uploading
<1>5. Apart'
  BY <1>1, <1>2, <1>3 DEF FInv, Apart, Up, Uploading
<1>6. Copied'
  BY <1>2, <1>3 DEF FInv, Copied
<1>7. req[r].file \notin reused => files[req[r].file] = Whole(req[r].picture)
  BY <1>1, CopiedWhole
<1>8. AnsweredStays'
  <2>1. ASSUME NEW x \in answered', x.file \notin reused'
        PROVE  files'[x.file] = Whole(x.picture)
    <3>1. CASE x \in answered
      BY <3>1, <2>1, <1>2 DEF FInv, AnsweredStays
    <3>2. CASE x = a
      BY <3>2, <2>1, <1>2, <1>7
    <3>3. QED BY <3>1, <3>2, <1>2
  <2>2. QED BY <2>1 DEF AnsweredStays, Whole
<1>9. QED BY <1>4, <1>5, <1>6, <1>8 DEF FInv

(* A step that leaves the files and their names alone, and at most ends    *)
(* uploads.                                                                *)
LEMMA FilesElse ==
  ASSUME TInv, FInv, UNCHANGED <<files, chosen, reused, answered>>,
         \A s \in Requests : Up(s)' => req'[s] = req[s]
  PROVE  FInv'
<1>1. \A s \in Requests : Up(s)' => Up(s)
  BY DEF Up
<1>2. Given'
  BY <1>1 DEF FInv, Given
<1>3. Apart'
  BY <1>1 DEF FInv, Apart
<1>4. \A s \in Requests : req'[s].pc \in Uploading => req'[s] = req[s]
  BY DEF Up
<1>5. Copied'
  BY <1>4 DEF FInv, Copied, Uploading
<1>6. AnsweredStays'
  BY DEF FInv, AnsweredStays, Whole
<1>7. QED BY <1>2, <1>3, <1>5, <1>6 DEF FInv

LEMMA FilesStep == TInv /\ FInv /\ [Next]_vars => FInv'
<1> SUFFICES ASSUME TInv, FInv, [Next]_vars PROVE FInv'
  OBVIOUS
<1>t. req \in [Requests -> Upload \cup Edit \cup {Idle}]
  BY DEF TInv, TypeOK
<1>1. ASSUME NEW r \in Requests, Begin(r)
      PROVE  FInv'
  <2>1. ASSUME NEW b \in Builders, NEW p \in Pictures, UploadAvatar(r, b, p)
        PROVE  FInv'
    BY <2>1, FilesStart, TargetsAre DEF UploadAvatar
  <2>2. ASSUME NEW i \in BuildIds, NEW p \in Pictures, UploadCover(r, i, p)
        PROVE  FInv'
    BY <2>2, FilesStart, TargetsAre DEF UploadCover
  <2>3. ASSUME NEW b \in Builders, NEW name \in DisplayNames \cup {NoName},
               NEW bio \in Bios \cup {NoBio}, UpdateProfile(r, b, name, bio)
        PROVE  FInv'
    BY <1>t, <2>3, FilesElse DEF UpdateProfile, history, Up, Uploading
  <2>4. QED BY <1>1, <2>1, <2>2, <2>3 DEF Begin
<1>2. ASSUME NEW r \in Requests, WriteProfile(r) \/ CopyFails(r) \/ StatementFails(r)
      PROVE  FInv'
  BY <1>t, <1>2, FilesElse
     DEF WriteProfile, CopyFails, StatementFails, Answer, Idle, history, Up, Uploading
<1>3. CASE Restart
  BY <1>t, <1>3, FilesElse DEF Restart, Idle, history, Up, Uploading
<1>4. CASE Others
  BY <1>4, FilesElse DEF Others, RefreshAvatar, DeleteBuild, WriteCover, history
<1>5. CASE Tick \/ UNCHANGED vars
  BY <1>5, FilesElse DEF Tick, vars, history
<1>6. QED
  BY <1>1, <1>2, <1>3, <1>4, <1>5, FilesCreate, FilesCopy, FilesRow, FilesAnswered
     DEF Next, Step, Fail

(* What an upload was answered with is what its URL shows for ever. *)
THEOREM PublishedStays == Spec => []AnsweredStays
<1>1. Init => TInv /\ FInv
  BY TypeInit, FilesInit
<1>2. TInv /\ FInv /\ [Next]_vars => (TInv /\ FInv)'
  BY TypeStep, FilesStep
<1>3. TInv /\ FInv => AnsweredStays
  BY DEF FInv
<1>4. QED BY <1>1, <1>2, <1>3, PTL DEF Spec

-----------------------------------------------------------------------------
(* A name that was chosen, of a whole picture that no request writes into; *)
(* or one that was chosen twice in one millisecond.                        *)
Settled(f) ==
  /\ Stamp(f) \in chosen
  /\ f \notin reused =>
       /\ \E p \in Pictures : files[f] = Whole(p)
       /\ \A r \in Requests : req[r].pc \in {"create", "copy"} => req[r].file # f

(* A row that no body wrote names a settled file, an avatar its builder's. *)
RInv ==
  \A t \in Targets \ typed : Row(t) \in FileNames =>
    Settled(Row(t)) /\ (t.kind = "avatar" => Row(t).target = t)

(* An upload that is about to write its row knows its target, and settled  *)
(* its file.                                                               *)
LEMMA AtRow ==
  ASSUME TInv, FInv, NEW r \in Requests, req[r].pc = "row"
  PROVE  /\ req[r].file \in FileNames /\ req[r].file.target \in Targets
         /\ Settled(req[r].file)
<1>1. req[r] \in Upload /\ Up(r)
  BY RequestKinds DEF TInv, Uploading, Up
<1>2. req[r].file \in FileNames /\ req[r].picture \in Pictures
  BY <1>1 DEF Upload
<1>3. Stamp(req[r].file) \in chosen
  BY <1>1 DEF FInv, Given
<1>4. ASSUME NEW s \in Requests, req[s].pc \in {"create", "copy"}, req[s].file = req[r].file
      PROVE  req[r].file \in reused
  BY <1>1, <1>4 DEF FInv, Apart, Up, Uploading
<1>5. QED BY <1>2, <1>3, <1>4, CopiedWhole DEF Settled, FileNames

(* So is what an upload was answered with. *)
LEMMA AnsweredSettled ==
  ASSUME TInv, FInv, NEW f \in Answered
  PROVE  Settled(f)
<1>1. PICK a \in answered : f = a.file
  BY DEF Answered
<1>2. a.picture \in Pictures
  BY DEF TInv, TypeOK
<1>3. Stamp(f) \in chosen
  BY <1>1 DEF FInv, Given
<1>4. f \notin reused => files[f] = Whole(a.picture)
  BY <1>1 DEF FInv, AnsweredStays
<1>5. \A s \in Requests : req[s].pc \in {"create", "copy"} /\ req[s].file = f => f \in reused
  BY <1>1 DEF FInv, Apart, Up, Uploading
<1>6. QED BY <1>2, <1>3, <1>4, <1>5 DEF Settled

(* A step that writes no file and starts no upload settles nothing anew. *)
LEMMA SettledElse ==
  ASSUME NEW f, Settled(f), UNCHANGED <<files, chosen, reused>>,
         \A r \in Requests : req'[r].pc \in {"create", "copy"} => req'[r] = req[r]
  PROVE  Settled(f)'
BY DEF Settled, Whole, Stamp

(* Writing into the file of a request leaves a settled one alone. *)
LEMMA SettledWrite ==
  ASSUME TInv, NEW f \in FileNames, Settled(f), NEW r \in Requests,
         CreateFile(r) \/ CopyPiece(r)
  PROVE  Settled(f)'
<1>1. req[r] \in Upload /\ req[r].pc \in {"create", "copy"}
  BY RequestKinds DEF TInv, CreateFile, CopyPiece, Uploading
<1>2. UNCHANGED <<chosen, reused>>
  BY DEF CreateFile, CopyPiece, history
<1>3. \A g \in FileNames : g # req[r].file => files'[g] = files[g]
  BY DEF TInv, TypeOK, CreateFile, CopyPiece
<1>4. /\ req'[r].file = req[r].file
      /\ \A s \in Requests : s # r => req'[s] = req[s]
  BY <1>1 DEF TInv, TypeOK, CreateFile, CopyPiece, Upload
<1>5. f \notin reused => f # req[r].file
  BY <1>1 DEF Settled
<1>6. QED BY <1>2, <1>3, <1>4, <1>5 DEF Settled, Whole, Stamp

(* A name that is chosen again is reused from then on. *)
LEMMA SettledStart ==
  ASSUME TInv, NEW f \in FileNames, Settled(f), NEW r \in Requests,
         NEW target \in Targets, NEW p, StartUpload(r, target, p)
  PROVE  Settled(f)'
<1> DEFINE n == FileName(target)
<1>1. n.at = now
  BY FileNameIsName DEF TInv
<1>2. /\ chosen' = chosen \cup {Stamp(n)} /\ files' = files
      /\ reused' = IF Stamp(n) \in chosen THEN reused \cup {n} ELSE reused
  BY <1>1 DEF StartUpload, Stamp
<1>3. req'[r].file = n /\ \A s \in Requests : s # r => req'[s] = req[s]
  BY DEF TInv, TypeOK, StartUpload
<1> HIDE DEF n
<1>4. CASE f = n
  BY <1>2, <1>4 DEF Settled, Stamp
<1>5. CASE f # n
  BY <1>2, <1>3, <1>5 DEF Settled, Whole, Stamp
<1>6. QED BY <1>4, <1>5

(* What is settled stays so. *)
LEMMA SettledStep ==
  ASSUME TInv, [Next]_vars, NEW f \in FileNames, Settled(f)
  PROVE  Settled(f)'
<1>t. req \in [Requests -> Upload \cup Edit \cup {Idle}]
  BY DEF TInv, TypeOK
<1>1. ASSUME NEW r \in Requests, Begin(r)
      PROVE  Settled(f)'
  <2>1. ASSUME NEW b \in Builders, NEW name, NEW bio, UpdateProfile(r, b, name, bio)
        PROVE  Settled(f)'
    BY <1>t, <2>1, SettledElse DEF UpdateProfile, history
  <2>2. QED BY <1>1, <2>1, SettledStart, TargetsAre DEF Begin, UploadAvatar, UploadCover
<1>2. ASSUME NEW r \in Requests, UpdateAvatar(r) \/ UpdateCoverImage(r)
      PROVE  Settled(f)'
  <2>1. req[r] \in Upload
    BY <1>2, RequestKinds DEF TInv, UpdateAvatar, UpdateCoverImage, Uploading
  <2>2. req'[r].pc = "answer" /\ \A s \in Requests : s # r => req'[s] = req[s]
    BY <1>t, <1>2, <2>1 DEF UpdateAvatar, UpdateCoverImage, Upload
  <2>3. UNCHANGED <<files, chosen, reused>>
    BY <1>2 DEF UpdateAvatar, UpdateCoverImage
  <2>4. QED BY <2>2, <2>3, SettledElse
<1>3. ASSUME NEW r \in Requests, AnswerUpload(r) \/ WriteProfile(r) \/ Fail(r)
      PROVE  Settled(f)'
  <2>1. Answer(r) /\ UNCHANGED <<files, chosen, reused>>
    BY <1>3 DEF AnswerUpload, WriteProfile, Fail, CopyFails, StatementFails, history
  <2>2. QED BY <1>t, <2>1, SettledElse DEF Answer, Idle
<1>4. CASE Others
  BY <1>4, SettledElse DEF Others, RefreshAvatar, DeleteBuild, WriteCover, history
<1>5. CASE Restart
  BY <1>5, SettledElse DEF Restart, Idle, history
<1>6. CASE Tick \/ UNCHANGED vars
  BY <1>6, SettledElse DEF Tick, vars, history
<1>7. QED BY <1>1, <1>2, <1>3, <1>4, <1>5, <1>6, SettledWrite DEF Next, Step

(* Every row of a step is the row it was, or holds what it may. *)
LEMMA RowsStep == TInv /\ FInv /\ RInv /\ [Next]_vars => RInv'
<1> SUFFICES ASSUME TInv, FInv, RInv, [Next]_vars,
                    NEW t \in Targets, t \notin typed', NEW f \in FileNames, Row(t)' = f
             PROVE  Settled(f)' /\ (t.kind = "avatar" => f.target = t)
  BY DEF RInv, Row, Settled, Stamp, Whole
<1>t. avatar \in [Builders -> Images] /\ cover \in [BuildIds -> Images]
  BY DEF TInv, TypeOK
<1>d. NoImage \notin FileNames /\ Elsewhere \notin FileNames
  BY DistinctAssumption
<1>k. \/ t.kind = "avatar" /\ t.of \in Builders /\ t = AvatarOf(t.of)
      \/ t.kind = "cover" /\ t.of \in BuildIds /\ t = CoverOf(t.of)
  BY DEF Targets, AvatarOf, CoverOf
<1>1. ASSUME Row(t)' = Row(t), t \notin typed
      PROVE  Settled(f)' /\ (t.kind = "avatar" => f.target = t)
  BY <1>1, SettledStep DEF RInv
<1>2. ASSUME NEW r \in Requests, UpdateAvatar(r) \/ UpdateCoverImage(r)
      PROVE  Settled(f)' /\ (t.kind = "avatar" => f.target = t)
  <2> DEFINE n == req[r].file
  <2>1. n \in FileNames /\ n.target \in Targets /\ Settled(n)
    BY <1>2, AtRow DEF UpdateAvatar, UpdateCoverImage
  <2>2. CASE f = n /\ n.target = t
    BY <2>1, <2>2, SettledStep
  <2>3. CASE n.target # t
    <3>1. t \notin typed
      BY <1>2, <2>3 DEF UpdateAvatar, UpdateCoverImage
    <3>2. Row(t)' = Row(t)
      BY <1>2, <1>t, <1>k, <2>1, <2>3
         DEF UpdateAvatar, UpdateCoverImage, Row, Targets, AvatarOf, CoverOf
    <3>3. QED BY <1>1, <3>1, <3>2
  <2>4. CASE n.target = t /\ f # n
    <3>1. Row(t)' = Row(t) /\ typed' = typed
      BY <1>2, <1>t, <1>k, <2>4 DEF UpdateAvatar, UpdateCoverImage, Row
    <3>2. QED BY <1>1, <3>1
  <2>5. QED BY <2>2, <2>3, <2>4
<1>3. ASSUME NEW b \in Builders, RefreshAvatar(b)
      PROVE  Settled(f)' /\ (t.kind = "avatar" => f.target = t)
  <2>1. typed' = typed /\ (Row(t)' = Row(t) \/ Row(t)' = Elsewhere)
    BY <1>3, <1>t, <1>k DEF RefreshAvatar, Row, history
  <2>2. QED BY <1>1, <1>d, <2>1
<1>4. ASSUME NEW i \in BuildIds, DeleteBuild(i)
      PROVE  Settled(f)' /\ (t.kind = "avatar" => f.target = t)
  <2>1. CASE t = CoverOf(i)
    BY <1>4, <1>t, <1>d, <2>1 DEF DeleteBuild, Row, CoverOf
  <2>2. CASE t # CoverOf(i)
    <3>1. t \notin typed /\ Row(t)' = Row(t)
      BY <1>4, <1>t, <1>k, <2>2 DEF DeleteBuild, Row
    <3>2. QED BY <1>1, <3>1
  <2>3. QED BY <2>1, <2>2
<1>5. ASSUME NEW i \in BuildIds, NEW image \in Images, WriteCover(i, image)
      PROVE  Settled(f)' /\ (t.kind = "avatar" => f.target = t)
  <2>1. CASE t = CoverOf(i)
    <3>1. f = image /\ t.kind = "cover" /\ image \in FileNames
      BY <1>5, <1>t, <2>1 DEF WriteCover, Row, CoverOf
    <3>2. image \in Answered
      BY <1>5, <2>1, <3>1 DEF WriteCover
    <3>3. QED BY <3>1, <3>2, AnsweredSettled, SettledStep
  <2>2. CASE t # CoverOf(i)
    <3>1. t \notin typed /\ Row(t)' = Row(t)
      BY <1>5, <1>t, <1>k, <2>2 DEF WriteCover, Row
    <3>2. QED BY <1>1, <3>1
  <2>3. QED BY <2>1, <2>2
<1>6. ASSUME UNCHANGED <<avatar, cover, typed>>
      PROVE  Settled(f)' /\ (t.kind = "avatar" => f.target = t)
  BY <1>1, <1>6 DEF Row
<1>7. ASSUME NEW r \in Requests, Begin(r)
      PROVE  UNCHANGED <<avatar, cover, typed>>
  BY <1>7 DEF Begin, UploadAvatar, UploadCover, UpdateProfile, StartUpload, rows, history
<1>8. ASSUME NEW r \in Requests,
             CreateFile(r) \/ CopyPiece(r) \/ AnswerUpload(r) \/ WriteProfile(r) \/ Fail(r)
      PROVE  UNCHANGED <<avatar, cover, typed>>
  BY <1>8 DEF CreateFile, CopyPiece, AnswerUpload, WriteProfile, Fail, CopyFails,
              StatementFails, rows, history
<1>9. ASSUME Restart \/ Tick \/ UNCHANGED vars
      PROVE  UNCHANGED <<avatar, cover, typed>>
  BY <1>9 DEF Restart, Tick, vars, rows, history
<1>10. QED
  BY <1>2, <1>3, <1>4, <1>5, <1>6, <1>7, <1>8, <1>9 DEF Next, Step, Others

LEMMA RowsInit == Init => RInv
<1> SUFFICES ASSUME Init, NEW t \in Targets, t \notin typed PROVE Row(t) \notin FileNames
  BY DEF RInv
<1>1. CASE t.kind = "avatar"
  BY <1>1 DEF Init, Targets, AvatarOf, Row
<1>2. CASE t.kind = "cover"
  BY <1>2, DistinctAssumption DEF Init, Targets, Row
<1>3. QED BY <1>1, <1>2 DEF Targets

(* A row that no body wrote names a whole picture and goes on doing so,    *)
(* through failures after the UPDATE and restarts, unless its name was     *)
(* chosen twice in one millisecond; an avatar is its own builder's.        *)
THEOREM RowsNamePictures == Spec => []RowsNameWhole
<1>1. Init => TInv /\ FInv /\ RInv
  BY TypeInit, FilesInit, RowsInit
<1>2. TInv /\ FInv /\ RInv /\ [Next]_vars => (TInv /\ FInv /\ RInv)'
  BY TypeStep, FilesStep, RowsStep
<1>3. RInv => RowsNameWhole
  BY DEF RInv, RowsNameWhole, Settled
<1>4. QED BY <1>1, <1>2, <1>3, PTL DEF Spec

(* No profile edit and no GitHub sign-in takes an avatar away. *)
THEOREM AvatarsStay == Spec => AvatarOnlyByUpload
<1> DEFINE Kept(b) ==
      \/ avatar'[b] = avatar[b]
      \/ avatar[b] = NoImage
      \/ \E r \in Requests :
           /\ req[r].pc = "row" /\ req'[r].pc = "answer"
           /\ req[r].file.target = AvatarOf(b)
           /\ avatar'[b] = req[r].file
<1>1. Init => TInv
  BY TypeInit
<1>2. TInv /\ [Next]_vars => TInv'
  BY TypeStep
<1>3. TInv /\ [Next]_vars => [\A b \in Builders : Kept(b)]_vars
  <2> SUFFICES ASSUME TInv, Next, NEW b \in Builders PROVE Kept(b)
    OBVIOUS
  <2>t. avatar \in [Builders -> Images] /\ req \in [Requests -> Upload \cup Edit \cup {Idle}]
    BY DEF TInv, TypeOK
  <2>1. ASSUME NEW r \in Requests, UpdateAvatar(r)
        PROVE  Kept(b)
    <3> DEFINE f == req[r].file
    <3>1. req[r] \in Upload
      BY <2>1, RequestKinds DEF TInv, UpdateAvatar, Uploading
    <3>2. f.target.of \in Builders /\ f.target = AvatarOf(f.target.of)
      BY <2>1, <3>1 DEF UpdateAvatar, Upload, FileNames, Targets, AvatarOf
    <3>3. avatar' = [avatar EXCEPT ![f.target.of] = f] /\ req[r].pc = "row"
      BY <2>1 DEF UpdateAvatar
    <3>4. req'[r].pc = "answer"
      BY <2>1, <2>t, <3>1 DEF UpdateAvatar, Upload
    <3> HIDE DEF f
    <3>5. CASE f.target.of = b
      <4>1. avatar'[b] = f /\ f.target = AvatarOf(b)
        BY <2>t, <3>2, <3>3, <3>5
      <4>2. QED BY <3>3, <3>4, <4>1 DEF f
    <3>6. CASE f.target.of # b
      BY <2>t, <3>2, <3>3, <3>6
    <3>7. QED BY <3>5, <3>6
  <2>2. ASSUME NEW c \in Builders, RefreshAvatar(c)
        PROVE  Kept(b)
    BY <2>t, <2>2 DEF RefreshAvatar
  <2>3. ASSUME avatar' = avatar
        PROVE  Kept(b)
    BY <2>3
  <2>4. ASSUME NEW r \in Requests, Begin(r) \/ Fail(r) \/ CreateFile(r) \/ CopyPiece(r)
                                   \/ UpdateCoverImage(r) \/ AnswerUpload(r) \/ WriteProfile(r)
        PROVE  avatar' = avatar
    BY <2>4 DEF Begin, UploadAvatar, UploadCover, UpdateProfile, StartUpload, Fail,
                CopyFails, StatementFails, CreateFile, CopyPiece, UpdateCoverImage,
                AnswerUpload, WriteProfile, rows
  <2>5. ASSUME Restart \/ Tick
        PROVE  avatar' = avatar
    BY <2>5 DEF Restart, Tick, rows
  <2>6. ASSUME NEW i \in BuildIds, DeleteBuild(i) \/ \E image : WriteCover(i, image)
        PROVE  avatar' = avatar
    BY <2>6 DEF DeleteBuild, WriteCover
  <2>7. QED
    BY <2>1, <2>2, <2>3, <2>4, <2>5, <2>6 DEF Next, Step, Others
<1>4. QED BY <1>1, <1>2, <1>3, PTL DEF Spec, AvatarOnlyByUpload

-----------------------------------------------------------------------------
(* Edits in turn.  An edit whose body has no name holds the name its       *)
(* builder has: no other edit of that builder runs that could change it.   *)
Holds(q) == q.pc = "profile" /\ ~q.given => q.name = names[q.builder]
NamesInv == TInv /\ InTurn /\ NameAsAsked /\ \A r \in Requests : Holds(req[r])

(* A step that writes no name, and at most ends edits. *)
LEMMA NamesElse ==
  ASSUME NamesInv, TInv', InTurn', UNCHANGED <<names, asked>>,
         \A r \in Requests : Editing(r)' => req'[r] = req[r]
  PROVE  NamesInv'
<1>1. \A r \in Requests : Holds(req[r])'
  BY DEF NamesInv, Holds, Editing
<1>2. QED BY <1>1 DEF NamesInv, NameAsAsked

(* An edit begins with the name its builder has, or one that is given. *)
LEMMA NamesBegin ==
  ASSUME NamesInv, TInv', InTurn', NEW r \in Requests, NEW b \in Builders,
         NEW name \in DisplayNames \cup {NoName}, NEW bio, UpdateProfile(r, b, name, bio)
  PROVE  NamesInv'
<1> DEFINE q == [pc |-> "profile", builder |-> b, given |-> name # NoName, bio |-> bio,
                 name |-> IF name = NoName THEN names[b] ELSE name]
<1>1. ~q.given => q.name = names[q.builder]
  OBVIOUS
<1>2. req' = [req EXCEPT ![r] = q] /\ UNCHANGED <<names, asked>>
  BY DEF UpdateProfile, rows, history
<1> HIDE DEF q
<1>3. req'[r] = q /\ \A s \in Requests : s # r => req'[s] = req[s]
  BY <1>2 DEF NamesInv, TInv, TypeOK
<1>4. \A s \in Requests : Holds(req[s])'
  BY <1>1, <1>2, <1>3 DEF NamesInv, Holds
<1>5. QED BY <1>2, <1>4 DEF NamesInv, NameAsAsked

(* An edit writes the name that was asked for last. *)
LEMMA NamesWrite ==
  ASSUME NamesInv, TInv', InTurn', NEW r \in Requests, WriteProfile(r)
  PROVE  NamesInv'
<1> DEFINE b == req[r].builder
           n == req[r].name
<1>1. req[r] \in Edit /\ b \in Builders /\ Editing(r) /\ Holds(req[r])
  BY RequestKinds DEF NamesInv, TInv, WriteProfile, Edit, Editing
<1>2. /\ names' = [names EXCEPT ![b] = n]
      /\ asked' = IF req[r].given THEN [asked EXCEPT ![b] = n] ELSE asked
      /\ req' = [req EXCEPT ![r] = Idle]
  BY DEF WriteProfile, Answer
<1>3. req'[r].pc = "idle" /\ \A s \in Requests : s # r => req'[s] = req[s]
  BY <1>2 DEF NamesInv, TInv, TypeOK, Idle
<1>4. names' = asked'
  BY <1>1, <1>2 DEF NamesInv, TInv, TypeOK, NameAsAsked, Holds, Editing
<1>5. ASSUME NEW s \in Requests, s # r, Editing(s) PROVE Holds(req[s])'
  <2>1. req[s].builder # b /\ req[s].builder \in Builders
    BY <1>1, <1>5, RequestKinds DEF NamesInv, TInv, InTurn, Editing, Edit
  <2>2. names'[req[s].builder] = names[req[s].builder]
    BY <1>2, <2>1 DEF NamesInv, TInv, TypeOK
  <2>3. QED BY <1>3, <1>5, <2>2 DEF NamesInv, Holds
<1>6. \A s \in Requests : Holds(req[s])'
  BY <1>3, <1>5 DEF Holds, Editing
<1>7. QED BY <1>4, <1>6 DEF NamesInv, NameAsAsked

LEMMA NamesStep == NamesInv /\ [Next /\ InTurn']_vars => NamesInv'
<1> SUFFICES ASSUME NamesInv, [Next /\ InTurn']_vars PROVE NamesInv'
  OBVIOUS
<1>1. TInv' /\ InTurn'
  BY TypeStep DEF NamesInv, InTurn, Editing, vars
<1>t. req \in [Requests -> Upload \cup Edit \cup {Idle}]
  BY DEF NamesInv, TInv, TypeOK
<1>2. ASSUME NEW r \in Requests, Begin(r) PROVE NamesInv'
  <2>1. ASSUME NEW target, NEW p, StartUpload(r, target, p) PROVE NamesInv'
    BY <1>t, <1>1, <2>1, NamesElse DEF StartUpload, rows, Editing
  <2>2. QED BY <1>1, <1>2, <2>1, NamesBegin DEF Begin, UploadAvatar, UploadCover
<1>3. ASSUME NEW r \in Requests,
             CreateFile(r) \/ CopyPiece(r) \/ UpdateAvatar(r) \/ UpdateCoverImage(r)
      PROVE  NamesInv'
  <2>1. req[r].pc \in Uploading /\ req[r] \in Upload
    BY <1>3, RequestKinds
       DEF CreateFile, CopyPiece, UpdateAvatar, UpdateCoverImage, Uploading, NamesInv, TInv
  <2>2. req'[r].pc # "profile" /\ \A s \in Requests : s # r => req'[s] = req[s]
    BY <1>t, <1>3, <2>1 DEF CreateFile, CopyPiece, UpdateAvatar, UpdateCoverImage, Upload
  <2>3. UNCHANGED <<names, asked>>
    BY <1>3 DEF CreateFile, CopyPiece, UpdateAvatar, UpdateCoverImage, rows, history
  <2>4. QED BY <1>1, <2>2, <2>3, NamesElse DEF Editing
<1>4. ASSUME NEW r \in Requests, AnswerUpload(r) \/ Fail(r)
      PROVE  NamesInv'
  <2>1. Answer(r) /\ UNCHANGED <<names, asked>>
    BY <1>4 DEF AnswerUpload, Fail, CopyFails, StatementFails, rows, history
  <2>2. QED BY <1>t, <1>1, <2>1, NamesElse DEF Answer, Idle, Editing
<1>5. CASE Others
  <2>1. UNCHANGED <<req, names, asked>>
    BY <1>5 DEF Others, RefreshAvatar, DeleteBuild, WriteCover, history
  <2>2. QED BY <1>1, <2>1, NamesElse
<1>6. CASE Restart
  BY <1>1, <1>6, NamesElse DEF Restart, Idle, Editing, rows, history
<1>7. CASE Tick \/ UNCHANGED vars
  BY <1>1, <1>7, NamesElse DEF Tick, vars, rows, history
<1>8. QED BY <1>1, <1>2, <1>3, <1>4, <1>5, <1>6, <1>7, NamesWrite DEF Next, Step

LEMMA NamesInit == Init => NamesInv
BY TypeInit DEF Init, NamesInv, InTurn, Editing, NameAsAsked, Holds, Idle

(* Whatever else goes on or fails, the display name of a builder whose     *)
(* edits follow one another is the one that was asked for last             *)
(* (handler/builder.go:103).                                               *)
THEOREM NamesInTurn == Init /\ [][Next /\ InTurn']_vars => []NameAsAsked
<1>1. NamesInv => NameAsAsked
  BY DEF NamesInv
<1>2. QED BY <1>1, NamesInit, NamesStep, PTL

(* So it is in the behaviours of MCUploads that are about profiles.        *)
THEOREM SerialNames == MCSpec => []SerialNameAsAsked
<1>1. MCInit => (profiles => NamesInv)
  BY NamesInit DEF MCInit
<1>2. (profiles => NamesInv) /\ [MCNext]_<<vars, profiles>> => (profiles => NamesInv)'
  BY NamesStep DEF MCNext, ProfilesNext
<1>3. (profiles => NamesInv) => SerialNameAsAsked
  BY DEF NamesInv, SerialNameAsAsked
<1>4. QED BY <1>1, <1>2, <1>3, PTL DEF MCSpec
=============================================================================
