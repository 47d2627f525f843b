---------------------------- MODULE UploadsProofs ----------------------------
(***************************************************************************)
(* Theorems about Uploads, for any number of keys, requests and failures.  *)
(***************************************************************************)
EXTENDS Uploads, FiniteSetTheorems, TLAPS

USE KeysAssumption, LimitsAssumption

(***************************************************************************)
(* Keys and files.                                                         *)
(***************************************************************************)

LEMMA KeyOfFile == ASSUME NEW k, NEW f \in FilesOf(k) PROVE f[1] = k
  BY DEF FilesOf

LEMMA FileOfKey == ASSUME NEW k \in Keys PROVE FilesOf(k) \subseteq Files
  BY DEF Files

LEMMA FileHasKey ==
  ASSUME NEW f \in Files
  PROVE  f[1] \in Keys /\ f \in FilesOf(f[1])
  BY KeyOfFile DEF Files

LEMMA ProtectedFiles ==
  /\ Protected \subseteq Files
  /\ \A f \in Files : f \in Protected <=> f[1] \in Docs \cup Credentials
  /\ \A f \in Protected : f[1] \in Docs \cup Credentials
<1>1. \A f \in Protected : f \in Files /\ f[1] \in Docs \cup Credentials
  BY KeyOfFile DEF Protected, Files, Keys
<1>2. ASSUME NEW f \in Files, f[1] \in Docs \cup Credentials PROVE f \in Protected
  BY <1>2, FileHasKey DEF Protected
<1> QED
  BY <1>1, <1>2

LEMMA FilesApart ==
  ASSUME NEW k, NEW l, k # l
  PROVE  FilesOf(k) \cap FilesOf(l) = {}
  BY KeyOfFile

LEMMA DirectoryProtected == \A d \in {"verification", "credentials"} : Directory(d) \subseteq Protected
  BY DEF Directory, Protected

(***************************************************************************)
(* Types.                                                                  *)
(***************************************************************************)

LEMMA IdleRequest == Idle \in Request
  BY DEF Request

LEMMA NewUpload ==
  ASSUME NEW op \in {"submit", "upload", "avatar"}, NEW k \in KeysFor[op]
  PROVE  [op |-> op, key |-> k, step |-> "write"] \in Request
  BY DEF Request, KeysFor

LEMMA NewReview ==
  ASSUME NEW op \in {"approve", "reject"}, NEW k \in Credentials
  PROVE  [op |-> op, key |-> k, step |-> "verdict"] \in Request
  BY DEF Request

LEMMA NextStep ==
  ASSUME NEW r \in Request, r.step \in {"write", "insert"}, r.op # "avatar", NEW st \in {"insert", "unlink"}
  PROVE  [r EXCEPT !.step = st] \in Request
  BY DEF Request, Idle

\* What the step of a request says of its key.
LEMMA StepsOfRequests ==
  ASSUME NEW r \in Request
  PROVE  /\ r.step \in {"idle", "write", "insert", "unlink", "verdict"}
         /\ r.step = "idle" <=> r = Idle
         /\ r.key = NoKey <=> r = Idle
         /\ r # Idle => r.key \in Keys
         /\ r.step \in {"insert", "unlink"} => r.op # "avatar"
         /\ r.step \in {"insert", "unlink", "verdict"} => r.key \in Docs \cup Credentials
         /\ r.step = "write" /\ r.op # "avatar" => r.key \in Docs \cup Credentials
         /\ r.op = "avatar" => r.key \in Avatars /\ r.step = "write"
         /\ r.key \in Avatars => r.op = "avatar"
  BY DEF Request, Idle, Keys

LEMMA ScriptShape ==
  /\ Off \in ScriptRun
  /\ [Off EXCEPT !.state = "walk", !.dirs = Directories] \in ScriptRun
  /\ \A r \in ScriptRun, dirs \in SUBSET Directories, todo \in SUBSET Protected : r.state = "walk" =>
       [r EXCEPT !.dirs = dirs, !.todo = todo] \in ScriptRun
  /\ \A r \in ScriptRun, dirs \in SUBSET Directories, unlisted \in SUBSET Directories : r.state = "walk" =>
       [r EXCEPT !.dirs = dirs, !.unlisted = unlisted] \in ScriptRun
  /\ \A r \in ScriptRun, todo \in SUBSET Protected : r.state = "walk" =>
       [r EXCEPT !.todo = todo, !.state = "walk", !.file = NoFile, !.saw = "absent"] \in ScriptRun
  /\ \A r \in ScriptRun, todo \in SUBSET Protected, f \in Protected, saw \in {"torn", "plain"} :
       [r EXCEPT !.todo = todo, !.state = "truncate", !.file = f, !.saw = saw] \in ScriptRun
  /\ \A r \in ScriptRun : r.state = "truncate" => [r EXCEPT !.state = "rewrite"] \in ScriptRun
  /\ \A r \in ScriptRun : [r EXCEPT !.state = "walk", !.file = NoFile, !.saw = "absent"] \in ScriptRun
<1>1. Off \in ScriptRun
  BY DEF Off, ScriptRun
<1>2. [Off EXCEPT !.state = "walk", !.dirs = Directories] \in ScriptRun
  BY DEF Off, ScriptRun
<1>3. ASSUME NEW r \in ScriptRun, NEW dirs \in SUBSET Directories, NEW todo \in SUBSET Protected, r.state = "walk"
      PROVE  [r EXCEPT !.dirs = dirs, !.todo = todo] \in ScriptRun
  BY <1>3 DEF ScriptRun
<1>4. ASSUME NEW r \in ScriptRun, NEW todo \in SUBSET Protected, r.state = "walk"
      PROVE  [r EXCEPT !.todo = todo, !.state = "walk", !.file = NoFile, !.saw = "absent"] \in ScriptRun
  BY <1>4 DEF ScriptRun
<1>5. ASSUME NEW r \in ScriptRun, NEW todo \in SUBSET Protected, NEW f \in Protected, NEW saw \in {"torn", "plain"}
      PROVE  [r EXCEPT !.todo = todo, !.state = "truncate", !.file = f, !.saw = saw] \in ScriptRun
  BY DEF ScriptRun
<1>6. ASSUME NEW r \in ScriptRun, r.state = "truncate" PROVE [r EXCEPT !.state = "rewrite"] \in ScriptRun
  BY <1>6 DEF ScriptRun
<1>7. ASSUME NEW r \in ScriptRun
      PROVE  [r EXCEPT !.state = "walk", !.file = NoFile, !.saw = "absent"] \in ScriptRun
  BY DEF ScriptRun
<1>8. ASSUME NEW r \in ScriptRun, NEW dirs \in SUBSET Directories, NEW unlisted \in SUBSET Directories,
             r.state = "walk"
      PROVE  [r EXCEPT !.dirs = dirs, !.unlisted = unlisted] \in ScriptRun
  BY <1>8 DEF ScriptRun
<1> QED
  BY <1>1, <1>2, <1>3, <1>4, <1>5, <1>6, <1>7, <1>8

Contents == [Files -> Content]
Rows     == [Docs \cup Credentials -> Status]

LEMMA SealedSkipped ==
  ASSUME NEW c \in Content \ {"absent"}, NEW skip \in Encrypted(c)
  PROVE  skip \in BOOLEAN /\ (~skip => c \in {"torn", "plain"}) /\ (c = "plain" => ~skip)
         /\ (c \in {"sealed", "garbled"} => skip)
  BY DEF Encrypted, Content

\* What the script does to its own state, one fact for each of its steps.
LEMMA ScriptMoves ==
  ASSUME script \in ScriptRun, disk \in Contents
  PROVE  /\ (\/ ScriptStarts \/ ScriptWalks \/ ScriptListFails \/ ScriptTruncates \/ ScriptRewrites
             \/ ScriptEnds \/ ScriptKilled) => script' \in ScriptRun
         /\ \A f \in Files : ScriptReads(f) => script' \in ScriptRun /\ f \in Protected
<1>1. ScriptStarts \/ ScriptTruncates \/ ScriptRewrites \/ ScriptEnds \/ ScriptKilled => script' \in ScriptRun
  BY ScriptShape DEF ScriptStarts, ScriptTruncates, ScriptRewrites, ScriptEnds, ScriptKilled
<1>2. ASSUME ScriptWalks PROVE script' \in ScriptRun
  <2>1. PICK d \in Directories :
          script' = [script EXCEPT !.dirs = script.dirs \ {d}, !.todo = {f \in Directory(d) : disk[f] # "absent"}]
    BY <1>2 DEF ScriptWalks, NextDirectory, Directories
  <2>2. script.dirs \ {d} \in SUBSET Directories
    BY DEF ScriptRun
  <2>3. PICK todo \in SUBSET Protected : todo = {f \in Directory(d) : disk[f] # "absent"}
    BY DirectoryProtected DEF Directories
  <2>4. script.state = "walk"
    BY <1>2 DEF ScriptWalks
  <2>5. script' = [script EXCEPT !.dirs = script.dirs \ {d}, !.todo = todo]
    BY <2>1, <2>3
  <2> QED
    BY <2>2, <2>4, <2>5, ScriptShape
<1>3. ASSUME NEW f \in Files, ScriptReads(f) PROVE script' \in ScriptRun /\ f \in Protected
  <2>1. f \in Protected /\ script.todo \ {f} \in SUBSET Protected
    BY <1>3 DEF ScriptReads, ScriptRun
  <2>2. CASE disk[f] = "absent"
    BY <1>3, <2>1, <2>2, ScriptShape DEF ScriptReads
  <2>3. CASE disk[f] # "absent"
    <3>0. disk[f] \in Content
      BY <1>3 DEF Contents
    <3>1. PICK skip \in Encrypted(disk[f]) :
            script' = [script EXCEPT !.todo = script.todo \ {f},
                         !.state = IF skip THEN "walk" ELSE "truncate",
                         !.file = IF skip THEN NoFile ELSE f,
                         !.saw = IF skip THEN "absent" ELSE disk[f]]
      BY <1>3, <2>3 DEF ScriptReads
    <3>2. skip \in BOOLEAN /\ (~skip => disk[f] \in {"torn", "plain"})
      BY <2>3, <3>0, <3>1, SealedSkipped
    <3>3. CASE skip
      BY <1>3, <2>1, <3>1, <3>3, ScriptShape DEF ScriptReads
    <3>4. CASE ~skip
      BY <1>3, <2>1, <3>1, <3>2, <3>4, ScriptShape DEF ScriptReads
    <3> QED
      BY <3>2, <3>3, <3>4
  <2> QED
    BY <2>2, <2>3
<1>4. ASSUME ScriptListFails PROVE script' \in ScriptRun
  <2>1. PICK d \in Directories :
          script' = [script EXCEPT !.dirs = script.dirs \ {d}, !.unlisted = script.unlisted \cup {d}]
    BY <1>4 DEF ScriptListFails, NextDirectory, Directories
  <2>2. script.dirs \ {d} \in SUBSET Directories /\ script.unlisted \cup {d} \in SUBSET Directories
    BY DEF ScriptRun
  <2>3. script.state = "walk"
    BY <1>4 DEF ScriptListFails
  <2> QED
    BY <2>1, <2>2, <2>3, ScriptShape
<1> QED
  BY <1>1, <1>2, <1>3, <1>4

LEMMA FaultCounted ==
  ASSUME faults \in 0..MaxFaults, spoilt \subseteq Keys, NEW ks \in SUBSET Keys, Fault(ks)
  PROVE  faults' \in 0..MaxFaults /\ spoilt' \subseteq Keys
  BY DEF Fault

\* What files and rows are after each way to change them.
LEMMA DiskWritten ==
  ASSUME disk \in Contents, NEW c \in Content
  PROVE  /\ \A f \in Files : [disk EXCEPT ![f] = c] \in Contents
         /\ \A F \in SUBSET Files : [f \in Files |-> IF f \in F THEN c ELSE disk[f]] \in Contents
  BY DEF Contents

LEMMA RowWritten ==
  ASSUME row \in Rows, NEW k \in Docs \cup Credentials, NEW st \in Status
  PROVE  [row EXCEPT ![k] = st] \in Rows
  BY DEF Rows

LEMMA TypeInit == Init => TypeOK
<1> SUFFICES ASSUME Init PROVE TypeOK
  OBVIOUS
<1>1. disk \in [Files -> Content]
  BY DEF Init, Content
<1>2. req \in [Slots -> Request] /\ script \in ScriptRun
  BY IdleRequest, ScriptShape DEF Init
<1> QED
  BY <1>1, <1>2 DEF Init, TypeOK

LEMMA TypeKept == TypeOK /\ [Next]_vars => TypeOK'
<1> SUFFICES ASSUME TypeOK, [Next]_vars PROVE TypeOK'
  OBVIOUS
<1> DEFINE Goal == /\ disk' \in Contents /\ writing' \subseteq Files /\ row' \in Rows
                   /\ avatar' \in Avatars \cup {NoKey} /\ req' \in [Slots -> Request] /\ script' \in ScriptRun
                   /\ faults' \in 0..MaxFaults /\ spoilt' \subseteq Keys
<1>q. SUFFICES Goal
  BY DEF TypeOK, Contents, Rows, ScriptRun
<1>0. /\ disk \in Contents /\ writing \subseteq Files /\ row \in Rows
      /\ avatar \in Avatars \cup {NoKey} /\ req \in [Slots -> Request] /\ script \in ScriptRun
      /\ faults \in 0..MaxFaults /\ spoilt \subseteq Keys
  BY DEF TypeOK, Contents, Rows, ScriptRun
<1>c. /\ {"absent", "torn", "plain", "sealed", "garbled"} \subseteq Content
      /\ {"PENDING", "APPROVED", "REJECTED"} \subseteq Status
  BY DEF Content, Status
<1>k. Docs \cup Credentials \subseteq Keys /\ Avatars \subseteq Keys
  BY DEF Keys
<1>d. ASSUME NEW s \in Slots, Done(s) PROVE req' \in [Slots -> Request]
  BY <1>0, <1>d, IdleRequest DEF Done
<1>g. ASSUME NEW s \in Slots, NEW st \in {"insert", "unlink"}, req[s].step \in {"write", "insert"},
             req[s].op # "avatar", Goto(s, st)
      PROVE  req' \in [Slots -> Request]
  <2>1. req' = [req EXCEPT ![s] = [req[s] EXCEPT !.step = st]]
    BY <1>g DEF Goto
  <2> QED
    BY <1>0, <1>g, <2>1, NextStep
<1>1. ASSUME NEW s \in Slots, NEW op \in {"submit", "upload", "avatar"}, NEW k \in Keys, UploadArrives(s, op, k)
      PROVE  Goal
  <2>1. req' = [req EXCEPT ![s] = [op |-> op, key |-> k, step |-> "write"]] /\ k \in KeysFor[op]
    BY <1>1 DEF UploadArrives, Arrive
  <2>2. req' \in [Slots -> Request]
    BY <1>0, <2>1, NewUpload
  <2> QED
    BY <1>0, <1>1, <2>2, FileOfKey DEF UploadArrives, NoFault
<1>2. ASSUME NEW s \in Slots, NEW op \in {"approve", "reject"}, NEW k \in Credentials, ReviewArrives(s, op, k)
      PROVE  Goal
  <2>1. req' = [req EXCEPT ![s] = [op |-> op, key |-> k, step |-> "verdict"]]
    BY <1>2 DEF ReviewArrives, Arrive
  <2>2. req' \in [Slots -> Request]
    BY <1>0, <2>1, NewReview
  <2> QED
    BY <1>0, <1>2, <2>2 DEF ReviewArrives, NoFault
<1>3. ASSUME NEW f \in Files, WriteEnds(f) PROVE Goal
  BY <1>0, <1>3, <1>c, DiskWritten DEF WriteEnds, NoFault
<1>4. ASSUME NEW f \in Files, WriteFails(f) PROVE Goal
  <2>1. req' \in [Slots -> Request]
    BY <1>0, <1>4, IdleRequest DEF WriteFails
  <2>2. disk' \in Contents
    BY <1>0, <1>4, <1>c, DiskWritten DEF WriteFails
  <2>3. faults' \in 0..MaxFaults /\ spoilt' \subseteq Keys
    BY <1>0, <1>4, FileHasKey, FaultCounted DEF WriteFails
  <2> QED
    BY <1>0, <1>4, <2>1, <2>2, <2>3 DEF WriteFails
<1>5. ASSUME NEW s \in Slots, Checks(s) PROVE Goal
  BY <1>0, <1>5, <1>g DEF Checks, NoFault
<1>6. ASSUME NEW s \in Slots, InsertFails(s) PROVE Goal
  <2>1. req[s].op # "avatar"
    BY <1>0, <1>6, StepsOfRequests DEF InsertFails
  <2> QED
    BY <1>0, <1>6, <1>g, <2>1, FaultCounted DEF InsertFails
<1>7. ASSUME NEW s \in Slots, Inserts(s) \/ Verdict(s) PROVE Goal
  <2>1. PICK st \in Status : row' = [row EXCEPT ![req[s].key] = st]
    BY <1>7, <1>c DEF Inserts, Verdict
  <2>2. row' \in Rows
    BY <1>0, <2>1 DEF Rows
  <2> QED
    BY <1>0, <1>7, <1>d, <2>2 DEF Inserts, Verdict, NoFault
<1>8. ASSUME NEW s \in Slots, Unlinks(s) \/ UnlinkFails(s) PROVE Goal
  <2>1. PICK F \in SUBSET FilesOf(req[s].key) : disk' = [f \in Files |-> IF f \in F THEN "absent" ELSE disk[f]]
    BY <1>8 DEF Unlinks, UnlinkFails
  <2>2. disk' \in Contents
    BY <1>0, <2>1 DEF Contents, Content
  <2>3. req[s].key \in Keys
    BY <1>0, <1>8, <1>k, StepsOfRequests DEF Unlinks, UnlinkFails
  <2>4. faults' \in 0..MaxFaults /\ spoilt' \subseteq Keys
    BY <1>0, <1>8, <2>3, FaultCounted DEF Unlinks, UnlinkFails, NoFault
  <2> QED
    BY <1>0, <1>8, <1>d, <2>2, <2>4 DEF Unlinks, UnlinkFails
<1>9. ASSUME NEW s \in Slots, AvatarSet(s) \/ AvatarFails(s) PROVE Goal
  <2>1. req[s].key \in Avatars
    BY <1>0, <1>9, StepsOfRequests DEF AvatarSet, AvatarFails, At
  <2>2. faults' \in 0..MaxFaults /\ spoilt' \subseteq Keys
    BY <1>0, <1>9, <1>k, <2>1, FaultCounted DEF AvatarSet, AvatarFails, NoFault
  <2> QED
    BY <1>0, <1>9, <1>d, <2>1, <2>2 DEF AvatarSet, AvatarFails
<1>10. ASSUME NEW k \in Docs, DocumentVerdict(k) PROVE Goal
  <2>1. PICK st \in Status : row' = [row EXCEPT ![k] = st]
    BY <1>10, <1>c DEF DocumentVerdict
  <2> QED
    BY <1>0, <1>10, <2>1, RowWritten DEF DocumentVerdict, NoFault
<1>11. CASE ScriptStarts \/ ScriptWalks \/ ScriptEnds
  BY <1>0, <1>11, ScriptMoves DEF ScriptStarts, ScriptWalks, ScriptEnds, NoFault
<1>12. CASE ScriptTruncates \/ ScriptRewrites
  <2>1. PICK c \in Content : disk' = [disk EXCEPT ![script.file] = c]
    BY <1>12, <1>c DEF ScriptTruncates, ScriptRewrites
  <2>2. disk' \in Contents
    BY <1>0, <2>1 DEF Contents
  <2> QED
    BY <1>0, <1>12, <2>2, ScriptMoves DEF ScriptTruncates, ScriptRewrites, NoFault
<1>13. ASSUME NEW f \in Files, ScriptReads(f) PROVE Goal
  BY <1>0, <1>13, ScriptMoves DEF ScriptReads, NoFault
<1>14. CASE ScriptKilled
  <2>1. PICK ks \in SUBSET Keys : Fault(ks)
    <3>1. script.state = "rewrite" => script.file[1] \in Keys
      BY <1>0, ProtectedFiles, FileHasKey DEF ScriptRun
    <3> QED
      BY <1>14, <3>1 DEF ScriptKilled
  <2> QED
    BY <1>0, <1>14, <2>1, FaultCounted, ScriptMoves DEF ScriptKilled
<1>15. CASE Crash
  <2>1. PICK begun \in SUBSET writing : disk' = [f \in Files |-> IF f \in begun THEN "torn" ELSE disk[f]]
    BY <1>15 DEF Crash
  <2>2. disk' \in Contents
    BY <1>0, <1>c, <2>1, DiskWritten
  <2>3. (InFlight \cup {f[1] : f \in writing}) \ {NoKey} \in SUBSET Keys
    BY <1>0, FileHasKey, StepsOfRequests DEF InFlight
  <2>4. req' \in [Slots -> Request]
    BY <1>15, IdleRequest DEF Crash
  <2> QED
    BY <1>0, <1>15, <2>2, <2>3, <2>4, FaultCounted DEF Crash
<1>16. CASE ScriptListFails
  <2>1. Fault({})
    BY <1>16 DEF ScriptListFails
  <2>2. faults' \in 0..MaxFaults /\ spoilt' \subseteq Keys
    BY <1>0, <2>1, FaultCounted
  <2> QED
    BY <1>0, <1>16, <2>2, ScriptMoves DEF ScriptListFails
<1>17. CASE UNCHANGED vars
  BY <1>0, <1>17 DEF vars
<1> QED
  BY <1>1, <1>2, <1>3, <1>4, <1>5, <1>6, <1>7, <1>8, <1>9, <1>10, <1>11, <1>12, <1>13, <1>14, <1>15, <1>16, <1>17
  DEF Next, Arrivals, Handle, Failures, Script

\* Every row, file and request in flight keeps its shape.
THEOREM TypeCorrect == Spec => []TypeOK
BY TypeInit, TypeKept, PTL DEF Spec

(***************************************************************************)
(* What is named can be read, and what is not named is gone.               *)
(*                                                                         *)
(* A key is named by its row or by the profile.  No upload in flight is    *)
(* named, and no two have one key; no file that is being written is named; *)
(* an upload that is about to be named has all its files on the disk; and  *)
(* the script has the disk for itself.                                     *)
(***************************************************************************)

Named(k) == \/ k \in Docs \cup Credentials /\ row[k] # "NONE"
            \/ k \in Avatars /\ avatar = k
Uploading(s, k) == req[s].key = k /\ req[s].step \in {"write", "insert", "unlink"}
Good(f) == disk[f] \in {"plain", "sealed"}

OneKeyEach ==
  \A s \in Slots, k \in Keys :
    /\ Uploading(s, k) => ~Named(k) /\ \A t \in Slots : Uploading(t, k) => t = s
    /\ req[s].step = "verdict" /\ req[s].key = k => Named(k)
FilesFollow ==
  \A s \in Slots, k \in Keys : Uploading(s, k) => \A f \in FilesOf(k) :
    /\ f \in writing \/ req[s].step = "unlink" \/ Good(f)
    /\ f \in writing => req[s].step = "write"
WritesUnnamed ==
  \A f \in writing : ~Named(f[1]) /\ (f[1] \in spoilt \/ \E s \in Slots : Uploading(s, f[1]))
NamesReadable ==
  \A f \in Files : Named(f[1]) => \/ Good(f)
                                  \/ script.state = "rewrite" /\ script.file = f
                                  \/ f[1] \in spoilt \cap Legacy
ScriptAlone == script.state # "off" => writing = {} /\ \A s \in Slots : req[s] = Idle
Rewriting ==
  script.state \in {"truncate", "rewrite"} =>
    /\ disk[script.file] # "absent"
    /\ Named(script.file[1]) => /\ script.file[1] \in Legacy
                                /\ script.saw = "plain" \/ script.file[1] \in spoilt
OldPlain == \A f \in Protected : disk[f] = "plain" => f[1] \in Legacy

FilesInv ==
  /\ TypeOK /\ OneKeyEach /\ FilesFollow /\ WritesUnnamed /\ NamesReadable
  /\ ScriptAlone /\ Rewriting /\ OldPlain /\ NothingLeftBehind

LEMMA FilesInvReadable == FilesInv => RowsReadable
<1> SUFFICES ASSUME FilesInv PROVE RowsReadable
  OBVIOUS
<1>0. TypeOK /\ NamesReadable
  BY DEF FilesInv
<1>1. ASSUME NEW f \in Protected, row[f[1]] # "NONE"
      PROVE  \/ Serve(f) = "as sent"
             \/ script.state = "rewrite" /\ script.file = f
             \/ f[1] \in spoilt \cap Legacy
  <2>1. f \in Files /\ Named(f[1])
    BY <1>1, ProtectedFiles DEF Named
  <2>2. Good(f) => Serve(f) = "as sent"
    BY <1>1 DEF Good, Serve, Decrypted
  <2> QED
    BY <1>0, <2>1, <2>2 DEF NamesReadable
<1>2. ASSUME avatar # NoKey, NEW f \in FilesOf(avatar) PROVE Serve(f) = "as sent"
  <2>1. avatar \in Avatars /\ f[1] = avatar /\ f \in Files
    BY <1>0, <1>2, KeyOfFile, FileOfKey DEF TypeOK, Keys
  <2>2. f \notin Protected /\ f[1] \notin Legacy
    BY <2>1, ProtectedFiles
  <2>3. script.state = "rewrite" => script.file \in Protected
    BY <1>0 DEF TypeOK, ScriptRun
  <2>4. Named(f[1])
    BY <2>1 DEF Named
  <2>5. Good(f)
    BY <1>0, <2>1, <2>2, <2>3, <2>4 DEF NamesReadable
  <2> QED
    BY <2>2, <2>5 DEF Good, Serve, Decrypted
<1> QED
  BY <1>1, <1>2 DEF RowsReadable

LEMMA FilesInvInit == Init => FilesInv
<1> SUFFICES ASSUME Init PROVE FilesInv
  OBVIOUS
<1>1. TypeOK
  BY TypeInit
<1>2. /\ \A s \in Slots : req[s] = Idle
      /\ writing = {} /\ script.state = "off"
  BY DEF Init, Off
<1>3. \A s \in Slots, k \in Keys : ~Uploading(s, k) /\ req[s].step # "verdict"
  BY <1>2 DEF Uploading, Idle
<1>4. \A k \in Keys : Named(k) <=> k \in Legacy
  BY DEF Init, Named
<1>5. \A f \in Files : disk[f] = IF f[1] \in Legacy THEN "plain" ELSE "absent"
  BY DEF Init
<1>6. NamesReadable
  BY <1>4, <1>5, FileHasKey DEF NamesReadable, Good
<1>7. NothingLeftBehind /\ OldPlain
  BY <1>5, ProtectedFiles DEF NothingLeftBehind, OldPlain, Init
<1>8. OneKeyEach /\ FilesFollow /\ WritesUnnamed /\ ScriptAlone /\ Rewriting
  BY <1>2, <1>3 DEF OneKeyEach, FilesFollow, WritesUnnamed, ScriptAlone, Rewriting
<1> QED
  BY <1>1, <1>6, <1>7, <1>8 DEF FilesInv

\* A step that changes neither requests nor what is written keeps what they hold apart.
LEMMA SameRequests ==
  ASSUME FilesInv, UNCHANGED <<row, avatar, req, writing>>, spoilt \subseteq spoilt'
  PROVE  /\ \A k : Named(k)' = Named(k)
         /\ \A s, k : Uploading(s, k)' = Uploading(s, k)
         /\ OneKeyEach' /\ WritesUnnamed'
         /\ \A k : Taken(k)' = Taken(k)
<1>1. \A k : Named(k)' = Named(k)
  BY DEF Named
<1>2. \A s, k : Uploading(s, k)' = Uploading(s, k)
  BY DEF Uploading
<1>3. \A k : Taken(k)' = Taken(k)
  BY DEF Taken, InFlight
<1>4. OneKeyEach'
  BY <1>1, <1>2 DEF OneKeyEach, FilesInv
<1>5. WritesUnnamed'
  BY <1>1, <1>2 DEF WritesUnnamed, FilesInv
<1> QED
  BY <1>1, <1>2, <1>3, <1>4, <1>5

LEMMA FilesInvScript ==
  ASSUME FilesInv, TypeOK',
         \/ ScriptStarts \/ ScriptWalks \/ ScriptListFails \/ ScriptTruncates \/ ScriptRewrites \/ ScriptEnds
         \/ ScriptKilled
         \/ \E f \in Files : ScriptReads(f)
  PROVE  FilesInv'
<1>0. /\ TypeOK /\ OneKeyEach /\ FilesFollow /\ WritesUnnamed /\ NamesReadable
      /\ ScriptAlone /\ Rewriting /\ OldPlain /\ NothingLeftBehind
  BY DEF FilesInv
<1>a. UNCHANGED <<row, avatar, req, writing>>
  BY DEF ScriptStarts, ScriptWalks, ScriptListFails, ScriptTruncates, ScriptRewrites, ScriptEnds,
     ScriptKilled, ScriptReads
<1>b. spoilt \subseteq spoilt'
  BY DEF ScriptStarts, ScriptWalks, ScriptListFails, ScriptTruncates, ScriptRewrites, ScriptEnds,
     ScriptKilled, ScriptReads,
         NoFault, Fault
<1>s. /\ \A k : Named(k)' = Named(k)
      /\ \A s, k : Uploading(s, k)' = Uploading(s, k)
      /\ OneKeyEach' /\ WritesUnnamed'
      /\ \A k : Taken(k)' = Taken(k)
  BY <1>a, <1>b, SameRequests
<1>c. ScriptAlone'
  BY <1>0, <1>a DEF ScriptAlone, ScriptStarts, ScriptWalks, ScriptListFails, ScriptTruncates, ScriptRewrites, ScriptEnds,
     ScriptKilled, ScriptReads, Off
<1>d. \A s \in Slots, k \in Keys : ~Uploading(s, k)'
  <2>1. \/ \A s \in Slots : req[s] = Idle
        \/ script.state = "off"
    BY <1>0 DEF ScriptAlone
  <2>2. \A s \in Slots : req[s] = Idle
    BY <2>1 DEF ScriptStarts, ScriptWalks, ScriptListFails, ScriptTruncates, ScriptRewrites, ScriptEnds,
     ScriptKilled, ScriptReads
  <2> QED
    BY <1>s, <2>2 DEF Uploading, Idle
<1>e. FilesFollow'
  BY <1>d DEF FilesFollow
<1>f. script \in ScriptRun /\ disk \in Contents
  BY <1>0 DEF TypeOK, Contents
<1>1. ASSUME ScriptStarts \/ ScriptWalks \/ ScriptListFails \/ ScriptEnds \/ \E f \in Files : ScriptReads(f)
      PROVE  NamesReadable' /\ Rewriting' /\ OldPlain' /\ NothingLeftBehind'
  <2>1. disk' = disk /\ spoilt' = spoilt
    BY <1>1 DEF ScriptStarts, ScriptWalks, ScriptListFails, ScriptEnds, ScriptReads, NoFault, Fault
  <2>2. script.state # "rewrite"
    BY <1>1 DEF ScriptStarts, ScriptWalks, ScriptListFails, ScriptEnds, ScriptReads
  <2>3. NamesReadable'
    BY <1>0, <1>s, <2>1, <2>2 DEF NamesReadable, Good
  <2>4. OldPlain' /\ NothingLeftBehind'
    BY <1>0, <1>a, <1>s, <2>1 DEF OldPlain, NothingLeftBehind
  <2>5. ASSUME NEW f \in Files, ScriptReads(f) PROVE Rewriting'
    <3>1. f \in Protected /\ script.state = "walk"
      BY <1>f, <2>5, ScriptMoves DEF ScriptReads
    <3>2. CASE disk[f] = "absent"
      <4>0. script' = Off
        BY <2>5, <3>2 DEF ScriptReads
      <4>1. script'.state = "off"
        BY <4>0 DEF Off
      <4> QED
        BY <4>1 DEF Rewriting
    <3>3. CASE disk[f] # "absent"
      <4>0. disk[f] \in Content \ {"absent"}
        BY <1>f, <3>3 DEF Contents
      <4>1. PICK skip \in Encrypted(disk[f]) :
              script' = [script EXCEPT !.todo = script.todo \ {f},
                           !.state = IF skip THEN "walk" ELSE "truncate",
                           !.file = IF skip THEN NoFile ELSE f,
                           !.saw = IF skip THEN "absent" ELSE disk[f]]
        BY <2>5, <3>3 DEF ScriptReads
      <4>2. (skip => script'.state = "walk") /\ (~skip => script'.file = f /\ script'.saw = disk[f])
        BY <1>f, <4>1 DEF ScriptRun
      <4>3. ~skip => disk[f] \in {"torn", "plain"}
        BY <4>0, SealedSkipped
      <4>4. ~skip /\ Named(f[1]) => f[1] \in Legacy /\ (disk[f] = "plain" \/ f[1] \in spoilt)
        BY <1>0, <2>2, <3>1, <4>3 DEF NamesReadable, Good, OldPlain
      <4> QED
        BY <1>s, <2>1, <3>3, <4>2, <4>4 DEF Rewriting
    <3> QED
      BY <3>2, <3>3
  <2>6. ASSUME ScriptStarts \/ ScriptWalks \/ ScriptListFails \/ ScriptEnds PROVE Rewriting'
    <3>1. ScriptStarts => script'.state = "walk"
      BY DEF ScriptStarts, Off
    <3>2. ScriptWalks \/ ScriptListFails => script'.state = "walk"
      BY <1>f DEF ScriptWalks, ScriptListFails, ScriptRun
    <3>3. ScriptEnds => script'.state = "off"
      BY DEF ScriptEnds, Off
    <3> QED
      BY <2>6, <3>1, <3>2, <3>3 DEF Rewriting
  <2> QED
    BY <1>1, <2>3, <2>4, <2>5, <2>6
<1>2. ASSUME ScriptTruncates \/ ScriptRewrites \/ ScriptKilled
      PROVE  NamesReadable' /\ Rewriting' /\ OldPlain' /\ NothingLeftBehind'
  <2>1. CASE ScriptKilled
    <3>1. disk' = disk /\ script'.state = "off" /\ (script.state = "rewrite" => script.file[1] \in spoilt')
      BY <2>1 DEF ScriptKilled, Off, Fault
    <3>2. \A f \in Files : script.state = "rewrite" /\ script.file = f /\ Named(f[1]) => f[1] \in spoilt' \cap Legacy
      BY <1>0, <3>1 DEF Rewriting
    <3>3. NamesReadable'
      BY <1>0, <1>b, <1>s, <3>1, <3>2 DEF NamesReadable, Good
    <3> QED
      BY <1>0, <1>a, <1>b, <1>s, <3>1, <3>3 DEF OldPlain, NothingLeftBehind, Rewriting
  <2>2. CASE ScriptTruncates \/ ScriptRewrites
    <3>1. PICK c \in Content : /\ disk' = [disk EXCEPT ![script.file] = c] /\ c # "absent" /\ c # "plain"
                               /\ ScriptTruncates => c = "torn"
                               /\ ScriptRewrites => c = IF script.saw = "plain" THEN "sealed" ELSE "garbled"
      <4>1. CASE ScriptTruncates
        BY <4>1 DEF ScriptTruncates, ScriptRewrites, Content
      <4>2. CASE ScriptRewrites
        BY <4>2 DEF ScriptTruncates, ScriptRewrites, Content
      <4> QED
        BY <2>2, <4>1, <4>2
    <3>2. /\ script.file \in Protected /\ script.state \in {"truncate", "rewrite"}
          /\ spoilt' = spoilt
      BY <1>f, <2>2 DEF ScriptTruncates, ScriptRewrites, ScriptRun, NoFault
    <3>3. \A f \in Files : disk'[f] = IF f = script.file THEN c ELSE disk[f]
      BY <1>f, <3>1 DEF Contents
    <3>4. OldPlain' /\ NothingLeftBehind'
      BY <1>0, <1>a, <1>s, <3>1, <3>2, <3>3, ProtectedFiles DEF OldPlain, NothingLeftBehind, Rewriting
    <3>5. CASE ScriptTruncates
      <4>1. script'.state = "rewrite" /\ script'.file = script.file /\ script'.saw = script.saw /\ script.state = "truncate"
        BY <1>f, <3>5 DEF ScriptTruncates, ScriptRun
      <4>2. NamesReadable'
        BY <1>0, <1>s, <3>2, <3>3, <4>1 DEF NamesReadable, Good
      <4>3. Rewriting'
        BY <1>0, <1>s, <3>1, <3>2, <3>3, <4>1, ProtectedFiles DEF Rewriting
      <4> QED
        BY <3>4, <4>2, <4>3
    <3>6. CASE ScriptRewrites
      <4>1. script'.state = "walk"
        BY <1>f, <3>6 DEF ScriptRewrites, ScriptRun
      <4>2. Named(script.file[1]) => c = "sealed" \/ script.file[1] \in spoilt \cap Legacy
        BY <1>0, <3>1, <3>2, <3>6 DEF Rewriting
      <4>3. NamesReadable'
        BY <1>0, <1>s, <3>2, <3>3, <4>1, <4>2 DEF NamesReadable, Good
      <4> QED
        BY <3>4, <4>1, <4>3 DEF Rewriting
    <3> QED
      BY <2>2, <3>5, <3>6
  <2> QED
    BY <1>2, <2>1, <2>2
<1> QED
  BY <1>1, <1>2, <1>c, <1>e, <1>s DEF FilesInv

\* Requests that take a slot or move on, while rows and files stay.
LEMMA FilesInvArrivals ==
  ASSUME FilesInv, TypeOK', NEW s \in Slots,
         \/ \E op \in {"submit", "upload", "avatar"}, k \in Keys : UploadArrives(s, op, k)
         \/ \E op \in {"approve", "reject"}, k \in Credentials : ReviewArrives(s, op, k)
  PROVE  FilesInv'
<1>0. /\ TypeOK /\ OneKeyEach /\ FilesFollow /\ WritesUnnamed /\ NamesReadable
      /\ ScriptAlone /\ Rewriting /\ OldPlain /\ NothingLeftBehind
  BY DEF FilesInv
<1>a. /\ UNCHANGED <<row, avatar, disk, script, faults, spoilt>>
      /\ script.state = "off"
      /\ req[s] = Idle
  BY DEF UploadArrives, ReviewArrives, NoFault, Arrive
<1>n. \A k : Named(k)' = Named(k)
  BY <1>a DEF Named
<1>b. NamesReadable' /\ ScriptAlone' /\ Rewriting' /\ OldPlain'
  <2>1. NamesReadable' /\ OldPlain'
    BY <1>0, <1>a, <1>n DEF NamesReadable, OldPlain, Good
  <2> QED
    BY <1>a, <2>1 DEF ScriptAlone, Rewriting
<1>r. req \in [Slots -> Request]
  BY <1>0 DEF TypeOK
<1>1. ASSUME NEW op \in {"submit", "upload", "avatar"}, NEW k \in Keys, UploadArrives(s, op, k)
      PROVE  FilesInv'
  <2>1. /\ req' = [req EXCEPT ![s] = [op |-> op, key |-> k, step |-> "write"]]
        /\ writing' = writing \cup FilesOf(k)
    BY <1>1 DEF UploadArrives, Arrive
  <2>2. /\ req'[s].key = k /\ req'[s].step = "write"
        /\ \A t \in Slots : t # s => req'[t] = req[t]
    BY <1>r, <2>1
  <2>3. /\ \A f \in FilesOf(k) : f \notin writing
        /\ \A t \in Slots : req[t].key # k
        /\ \A f \in FilesOf(k) : disk[f] = "absent"
        /\ k \notin Avatars => row[k] = "NONE"
    BY <1>1 DEF UploadArrives, Fresh, Unused, Taken, InFlight
  <2>4. ~Named(k)
    <3>1. CASE k \in Avatars
      <4>1. <<k, "file">> \in FilesOf(k)
        BY <3>1 DEF FilesOf
      <4>2. <<k, "file">> \in Files /\ disk[<<k, "file">>] = "absent"
        BY <2>3, <4>1, FileOfKey
      <4>3. k \notin Legacy
        BY <3>1
      <4> QED
        BY <1>0, <1>a, <4>2, <4>3 DEF NamesReadable, Good
    <3>2. CASE k \notin Avatars
      BY <2>3, <3>2 DEF Named
    <3> QED
      BY <3>1, <3>2
  <2>5. /\ \A l \in Keys : Uploading(s, l)' <=> l = k
        /\ \A t \in Slots, l \in Keys : t # s => (Uploading(t, l)' <=> Uploading(t, l))
        /\ \A t \in Slots : t # s => ~Uploading(t, k)
    BY <2>2, <2>3 DEF Uploading
  <2>6. OneKeyEach'
    BY <1>0, <1>n, <2>2, <2>4, <2>5 DEF OneKeyEach
  <2>7. FilesFollow'
    <3>1. \A l \in Keys : l # k => FilesOf(l) \cap FilesOf(k) = {}
      BY FilesApart
    <3> QED
      BY <1>0, <1>a, <2>1, <2>2, <2>3, <2>5, <3>1 DEF FilesFollow, Good
  <2>8. WritesUnnamed'
    <3>1. \A f \in FilesOf(k) : f[1] = k
      BY KeyOfFile
    <3>2. \A f \in writing : f[1] \in Keys
      BY <1>0, FileHasKey DEF TypeOK
    <3>3. \A t \in Slots, l \in Keys : Uploading(t, l) => Uploading(t, l)'
      BY <1>a, <2>5 DEF Uploading, Idle
    <3> QED
      BY <1>0, <1>a, <1>n, <2>1, <2>4, <2>5, <3>1, <3>2, <3>3 DEF WritesUnnamed
  <2>9. NothingLeftBehind'
    <3>1. ASSUME NEW l \in Keys, Taken(l) PROVE Taken(l)'
      <4>1. CASE l \in InFlight
        <5>1. PICK t \in Slots : req[t].key = l
          BY <4>1 DEF InFlight
        <5>2. t # s
          BY <1>a, <5>1 DEF Idle, Keys
        <5> QED
          BY <2>2, <5>1, <5>2 DEF Taken, InFlight
      <4>2. CASE \E f \in FilesOf(l) : f \in writing
        BY <2>1, <4>2 DEF Taken
      <4> QED
        BY <3>1, <4>1, <4>2 DEF Taken
    <3> QED
      BY <1>0, <1>a, <3>1, ProtectedFiles, FileHasKey DEF NothingLeftBehind
  <2> QED
    BY <1>b, <2>6, <2>7, <2>8, <2>9 DEF FilesInv
<1>2. ASSUME NEW op \in {"approve", "reject"}, NEW k \in Credentials, ReviewArrives(s, op, k)
      PROVE  FilesInv'
  <2>1. /\ req' = [req EXCEPT ![s] = [op |-> op, key |-> k, step |-> "verdict"]]
        /\ writing' = writing /\ row[k] = "PENDING"
    BY <1>2 DEF ReviewArrives, Arrive
  <2>2. /\ req'[s].key = k /\ req'[s].step = "verdict"
        /\ \A t \in Slots : t # s => req'[t] = req[t]
    BY <1>r, <2>1
  <2>3. \A t \in Slots, l \in Keys : Uploading(t, l)' <=> Uploading(t, l)
    BY <1>a, <2>2 DEF Uploading, Idle
  <2>4. OneKeyEach'
    <3>1. Named(k)
      BY <2>1 DEF Named
    <3> QED
      BY <1>0, <1>n, <2>2, <2>3, <3>1 DEF OneKeyEach
  <2>5. FilesFollow'
    <3>1. \A t \in Slots, l \in Keys : Uploading(t, l) => t # s
      BY <1>a DEF Uploading, Idle
    <3> QED
      BY <1>0, <1>a, <2>1, <2>2, <2>3, <3>1 DEF FilesFollow, Good
  <2>6. WritesUnnamed'
    <3>1. \A f \in writing : f[1] \in Keys
      BY <1>0, FileHasKey DEF TypeOK
    <3> QED
      BY <1>0, <1>a, <1>n, <2>1, <2>3, <3>1 DEF WritesUnnamed
  <2>7. NothingLeftBehind'
    <3>1. ASSUME NEW l \in Keys, Taken(l) PROVE Taken(l)'
      <4>1. CASE l \in InFlight
        <5>1. PICK t \in Slots : req[t].key = l
          BY <4>1 DEF InFlight
        <5>2. t # s
          BY <1>a, <5>1 DEF Idle, Keys
        <5> QED
          BY <2>2, <5>1, <5>2 DEF Taken, InFlight
      <4>2. CASE \E f \in FilesOf(l) : f \in writing
        BY <2>1, <4>2 DEF Taken
      <4> QED
        BY <3>1, <4>1, <4>2 DEF Taken
    <3> QED
      BY <1>0, <1>a, <3>1, ProtectedFiles, FileHasKey DEF NothingLeftBehind
  <2> QED
    BY <1>b, <2>4, <2>5, <2>6, <2>7 DEF FilesInv
<1> QED
  BY <1>1, <1>2

\* A write that ends, well or not.
LEMMA FilesInvWrites ==
  ASSUME FilesInv, TypeOK', NEW g \in Files, WriteEnds(g) \/ WriteFails(g)
  PROVE  FilesInv'
<1>0. /\ TypeOK /\ OneKeyEach /\ FilesFollow /\ WritesUnnamed /\ NamesReadable
      /\ ScriptAlone /\ Rewriting /\ OldPlain /\ NothingLeftBehind
  BY DEF FilesInv
<1>r. /\ req \in [Slots -> Request] /\ disk \in Contents /\ script \in ScriptRun
      /\ writing \subseteq Files /\ spoilt \subseteq Keys
  BY <1>0 DEF TypeOK, Contents
<1>a. /\ UNCHANGED <<row, avatar, script>>
      /\ g \in writing /\ writing' = writing \ {g}
      /\ spoilt \subseteq spoilt' /\ (WriteFails(g) => g[1] \in spoilt')
  BY DEF WriteEnds, WriteFails, NoFault, Fault
<1>n. \A k : Named(k)' = Named(k)
  BY <1>a DEF Named
<1>k. g[1] \in Keys /\ g \in FilesOf(g[1]) /\ ~Named(g[1])
  BY <1>0, <1>a, FileHasKey DEF WritesUnnamed
<1>d. /\ \A f \in Files : f # g => disk'[f] = disk[f]
      /\ WriteEnds(g) => disk'[g] = IF g \in Protected THEN "sealed" ELSE "plain"
      /\ WriteFails(g) => disk'[g] \in {disk[g], "torn"}
  BY <1>r DEF WriteEnds, WriteFails, Contents
<1>off. script.state = "off"
  BY <1>0, <1>a DEF ScriptAlone
<1>u. \A t \in Slots : \/ req'[t] = req[t]
                       \/ WriteFails(g) /\ req'[t] = Idle /\ req[t].key = g[1] /\ req[t].step = "write"
  BY <1>r DEF WriteEnds, WriteFails
<1>v. \A t \in Slots, l \in Keys : /\ Uploading(t, l)' => Uploading(t, l) /\ req'[t] = req[t]
                                   /\ Uploading(t, l) /\ ~(WriteFails(g) /\ l = g[1]) => Uploading(t, l)'
  BY <1>u DEF Uploading, Idle
<1>1. OneKeyEach'
  <2>1. \A t \in Slots : req'[t].step = "verdict" => req'[t] = req[t]
    BY <1>u DEF Idle
  <2> QED
    BY <1>0, <1>n, <1>v, <2>1 DEF OneKeyEach
<1>2. FilesFollow'
  <2> SUFFICES ASSUME NEW t \in Slots, NEW l \in Keys, Uploading(t, l)', NEW f \in FilesOf(l)
               PROVE  /\ f \in writing' \/ req'[t].step = "unlink" \/ Good(f)'
                      /\ f \in writing' => req'[t].step = "write"
    BY DEF FilesFollow
  <2>1. /\ Uploading(t, l) /\ req'[t] = req[t] /\ f \in Files
        /\ f \in writing \/ req[t].step = "unlink" \/ Good(f)
        /\ f \in writing => req[t].step = "write"
    BY <1>0, <1>v, FileOfKey DEF FilesFollow
  <2>2. CASE f # g
    BY <1>a, <1>d, <2>1, <2>2 DEF Good
  <2>3. CASE f = g /\ WriteEnds(g)
    BY <1>a, <1>d, <2>1, <2>3 DEF Good
  <2>4. CASE f = g /\ WriteFails(g)
    <3>1. l = g[1] /\ req[t].key = g[1] /\ req[t].step = "write"
      BY <1>a, <2>1, <2>4, KeyOfFile DEF Uploading
    <3>2. req'[t] = Idle
      BY <1>r, <2>4, <3>1 DEF WriteFails
    <3> QED
      BY <2>1, <3>1, <3>2 DEF Idle
  <2> QED
    BY <2>2, <2>3, <2>4
<1>3. WritesUnnamed'
  <2>1. \A f \in writing : f[1] \in Keys
    BY <1>r, FileHasKey
  <2> QED
    BY <1>0, <1>a, <1>n, <1>v, <2>1 DEF WritesUnnamed
<1>4. NamesReadable' /\ OldPlain'
  <2>1. NamesReadable'
    BY <1>0, <1>a, <1>d, <1>k, <1>n DEF NamesReadable, Good
  <2>2. OldPlain'
    BY <1>0, <1>d, ProtectedFiles DEF OldPlain
  <2> QED
    BY <2>1, <2>2
<1>5. ScriptAlone' /\ Rewriting'
  BY <1>a, <1>off DEF ScriptAlone, Rewriting
<1>6. NothingLeftBehind'
  <2> SUFFICES ASSUME NEW f \in Protected, disk'[f] # "absent", row'[f[1]] = "NONE", ~Taken(f[1])', f[1] \notin spoilt'
               PROVE  FALSE
    BY DEF NothingLeftBehind
  <2>1. f \in Files /\ f[1] \in Keys /\ f[1] \notin spoilt /\ f \in FilesOf(f[1])
    BY <1>a, ProtectedFiles, FileHasKey
  <2>2. \A t \in Slots : req'[t] = req[t] \/ req[t].key # f[1]
    BY <1>a, <1>u
  <2>3. ~\E t \in Slots : req[t].key = f[1]
    BY <2>2 DEF Taken, InFlight
  <2>4. ASSUME NEW h \in FilesOf(f[1]), h \in writing PROVE FALSE
    <3>1. h[1] = f[1]
      BY KeyOfFile
    <3> QED
      BY <1>0, <2>1, <2>3, <2>4, <3>1 DEF WritesUnnamed, Uploading
  <2>5. ~Taken(f[1])
    BY <2>3, <2>4 DEF Taken, InFlight
  <2>6. disk'[f] = disk[f]
    BY <1>a, <1>d, <2>1, <2>4
  <2> QED
    BY <1>0, <1>a, <2>1, <2>5, <2>6 DEF NothingLeftBehind
<1> QED
  BY <1>1, <1>2, <1>3, <1>4, <1>5, <1>6 DEF FilesInv

\* The transaction's decision, and its failure.
LEMMA FilesInvDecides ==
  ASSUME FilesInv, TypeOK', NEW s \in Slots, Checks(s) \/ InsertFails(s)
  PROVE  FilesInv'
<1>0. /\ TypeOK /\ OneKeyEach /\ FilesFollow /\ WritesUnnamed /\ NamesReadable
      /\ ScriptAlone /\ Rewriting /\ OldPlain /\ NothingLeftBehind
  BY DEF FilesInv
<1>r. req \in [Slots -> Request] /\ script \in ScriptRun
  BY <1>0 DEF TypeOK
<1>1. PICK st \in {"insert", "unlink"} : req' = [req EXCEPT ![s].step = st]
  BY DEF Checks, InsertFails, Goto
<1>a. /\ UNCHANGED <<row, avatar, disk, script, writing>> /\ spoilt' = spoilt
      /\ req[s].step \in {"write", "insert"}
  BY DEF Checks, InsertFails, NoFault, Fault
<1>2. /\ req'[s].key = req[s].key /\ req'[s].step = st
      /\ \A t \in Slots : t # s => req'[t] = req[t]
  <2>1. req' = [req EXCEPT ![s] = [req[s] EXCEPT !.step = st]]
    BY <1>1
  <2> QED
    BY <1>r, <1>a, <2>1 DEF Request, Idle
<1>3. \A t \in Slots, k \in Keys : Uploading(t, k)' <=> Uploading(t, k)
  BY <1>a, <1>2 DEF Uploading
<1>n. \A k : Named(k)' = Named(k)
  BY <1>a DEF Named
<1>t. \A k : Taken(k)' = Taken(k)
  BY <1>a, <1>2 DEF Taken, InFlight
<1>off. script.state = "off"
  <2>1. req[s] # Idle
    BY <1>a DEF Idle
  <2> QED
    BY <1>0, <2>1 DEF ScriptAlone
<1>4. OneKeyEach'
  BY <1>0, <1>n, <1>2, <1>3 DEF OneKeyEach
<1>5. FilesFollow'
  <2>1. ASSUME NEW f \in FilesOf(req[s].key) PROVE f \notin writing
    <3>1. CASE Checks(s)
      BY <2>1, <3>1 DEF Checks, Written
    <3>2. CASE InsertFails(s)
      <4>1. req[s].step = "insert"
        BY <3>2 DEF InsertFails
      <4>2. req[s].key \in Keys /\ Uploading(s, req[s].key)
        BY <1>r, <4>1, StepsOfRequests DEF Uploading, Idle
      <4> QED
        BY <1>0, <2>1, <4>1, <4>2 DEF FilesFollow
    <3> QED
      BY <3>1, <3>2
  <2> SUFFICES ASSUME NEW t \in Slots, NEW l \in Keys, Uploading(t, l)', NEW f \in FilesOf(l)
               PROVE  /\ f \in writing' \/ req'[t].step = "unlink" \/ Good(f)'
                      /\ f \in writing' => req'[t].step = "write"
    BY DEF FilesFollow
  <2>2. /\ f \in writing \/ req[t].step = "unlink" \/ Good(f)
        /\ f \in writing => req[t].step = "write"
    BY <1>0, <1>3 DEF FilesFollow
  <2>3. CASE t # s
    BY <1>a, <1>2, <2>2, <2>3 DEF Good
  <2>4. CASE t = s
    BY <1>a, <1>2, <2>1, <2>2, <2>4 DEF Good, Uploading
  <2> QED
    BY <2>3, <2>4
<1>6. WritesUnnamed'
  <2>1. \A f \in writing : f[1] \in Keys
    BY <1>0, FileHasKey DEF TypeOK
  <2> QED
    BY <1>0, <1>a, <1>n, <1>3, <2>1 DEF WritesUnnamed
<1>7. NamesReadable' /\ OldPlain' /\ NothingLeftBehind'
  BY <1>0, <1>a, <1>n, <1>t DEF NamesReadable, OldPlain, Good, NothingLeftBehind
<1>8. ScriptAlone' /\ Rewriting'
  BY <1>a, <1>off DEF ScriptAlone, Rewriting
<1> QED
  BY <1>4, <1>5, <1>6, <1>7, <1>8 DEF FilesInv

\* A request that leaves its slot, having named its key, removed its files or neither.
LEMMA FilesInvLeaves ==
  ASSUME FilesInv, TypeOK', NEW s \in Slots,
         Inserts(s) \/ Unlinks(s) \/ UnlinkFails(s) \/ AvatarSet(s) \/ AvatarFails(s) \/ Verdict(s)
  PROVE  FilesInv'
<1>0. /\ TypeOK /\ OneKeyEach /\ FilesFollow /\ WritesUnnamed /\ NamesReadable
      /\ ScriptAlone /\ Rewriting /\ OldPlain /\ NothingLeftBehind
  BY DEF FilesInv
<1>r. req \in [Slots -> Request] /\ disk \in Contents /\ row \in Rows
  BY <1>0 DEF TypeOK, Contents, Rows
<1>key. PICK key : key = req[s].key
  OBVIOUS
<1> USE <1>key
<1>a. /\ req' = [req EXCEPT ![s] = Idle]
      /\ UNCHANGED <<writing, script>>
      /\ spoilt \subseteq spoilt'
  BY DEF Inserts, Unlinks, UnlinkFails, AvatarSet, AvatarFails, Verdict, Done, NoFault, Fault
<1>b. req[s].step \in {"write", "insert", "unlink", "verdict"} /\ key \in Keys
  <2>1. req[s].step \in {"write", "insert", "unlink", "verdict"}
    BY DEF Inserts, Unlinks, UnlinkFails, AvatarSet, AvatarFails, Verdict, At
  <2> QED
    BY <1>r, <2>1, StepsOfRequests DEF Idle
<1>c. \A t \in Slots : t # s => req'[t] = req[t]
  BY <1>r, <1>a
<1>i. req'[s] = Idle
  BY <1>r, <1>a
<1>off. script.state = "off"
  <2>1. req[s] # Idle
    BY <1>b DEF Idle
  <2> QED
    BY <1>0, <2>1 DEF ScriptAlone
<1>u. \A t \in Slots, k \in Keys : /\ Uploading(t, k)' => t # s /\ Uploading(t, k)
                                   /\ t # s /\ Uploading(t, k) => Uploading(t, k)'
  BY <1>c, <1>i DEF Uploading, Idle
<1>w. \A f \in FilesOf(key) : f \notin writing
  <2>1. CASE AvatarSet(s) \/ AvatarFails(s)
    BY <2>1 DEF AvatarSet, AvatarFails, Written
  <2>2. CASE req[s].step \in {"insert", "unlink"}
    BY <1>0, <1>b, <2>2 DEF FilesFollow, Uploading
  <2>3. CASE req[s].step = "verdict"
    <3>1. Named(key)
      BY <1>0, <1>b, <2>3 DEF OneKeyEach
    <3> QED
      BY <1>0, <3>1, KeyOfFile DEF WritesUnnamed
  <2> QED
    BY <2>1, <2>2, <2>3 DEF Inserts, Unlinks, UnlinkFails, Verdict
<1>d. \A f \in Files : f \notin FilesOf(key) => disk'[f] = disk[f]
  BY <1>r DEF Inserts, Unlinks, UnlinkFails, AvatarSet, AvatarFails, Verdict, Contents
<1>e. \A k \in Keys : Uploading(s, k) => k = key /\ ~Named(key)
  BY <1>0 DEF OneKeyEach, Uploading
<1>n. /\ \A k \in Keys : Named(k)' => Named(k) \/ k = key
      /\ \A k \in Docs \cup Credentials : Named(k) => Named(k)'
      /\ Named(key)' /\ ~Named(key) => Inserts(s) \/ AvatarSet(s)
  <2>1. CASE Unlinks(s) \/ UnlinkFails(s) \/ AvatarFails(s)
    BY <2>1 DEF Unlinks, UnlinkFails, AvatarFails, Named
  <2>2. CASE AvatarSet(s)
    BY <2>2 DEF AvatarSet, Named
  <2>3. CASE Inserts(s)
    BY <1>r, <2>3 DEF Inserts, Named, Rows
  <2>4. CASE Verdict(s)
    <3>1. Named(key) /\ key \in Docs \cup Credentials
      BY <1>0, <1>b, <1>r, <2>4, StepsOfRequests DEF Verdict, OneKeyEach
    <3>2. row[key] # "NONE"
      BY <3>1 DEF Named
    <3>3. \A k \in Docs \cup Credentials : row'[k] # "NONE" <=> row[k] # "NONE"
      BY <1>r, <2>4, <3>1, <3>2 DEF Verdict, Rows
    <3> QED
      BY <2>4, <3>1, <3>3 DEF Verdict, Named
  <2> QED
    BY <2>1, <2>2, <2>3, <2>4
<1>x. \A t \in Slots, k \in Keys : Uploading(t, k)' => k # key
  <2>1. CASE req[s].step = "verdict"
    <3>1. Named(key)
      BY <1>0, <1>b, <2>1 DEF OneKeyEach
    <3> QED
      BY <1>0, <1>u, <3>1 DEF OneKeyEach
  <2>2. CASE req[s].step # "verdict"
    <3>1. Uploading(s, key)
      BY <1>b, <2>2 DEF Uploading
    <3> QED
      BY <1>0, <1>b, <1>u, <3>1 DEF OneKeyEach
  <2> QED
    BY <2>1, <2>2
<1>1. OneKeyEach'
  <2>1. ASSUME NEW t \in Slots, NEW k \in Keys, req'[t].step = "verdict", req'[t].key = k PROVE Named(k)'
    <3>1. t # s
      BY <1>i, <2>1 DEF Idle
    <3>2. req[t] = req'[t]
      BY <1>c, <3>1
    <3>3. k \in Docs \cup Credentials
      BY <1>r, <2>1, <3>2, StepsOfRequests
    <3> QED
      BY <1>0, <1>n, <2>1, <3>2, <3>3 DEF OneKeyEach
  <2> QED
    BY <1>0, <1>n, <1>u, <1>x, <2>1 DEF OneKeyEach
<1>2. FilesFollow'
  <2> SUFFICES ASSUME NEW t \in Slots, NEW l \in Keys, Uploading(t, l)', NEW f \in FilesOf(l)
               PROVE  /\ f \in writing' \/ req'[t].step = "unlink" \/ Good(f)'
                      /\ f \in writing' => req'[t].step = "write"
    BY DEF FilesFollow
  <2>1. f \in Files /\ f \notin FilesOf(key)
    BY <1>x, FileOfKey, KeyOfFile
  <2>2. Uploading(t, l) /\ req'[t] = req[t]
    BY <1>u, <1>c
  <2> QED
    BY <1>0, <1>a, <1>d, <2>1, <2>2 DEF FilesFollow, Good
<1>3. WritesUnnamed'
  <2> SUFFICES ASSUME NEW f \in writing
               PROVE  ~Named(f[1])' /\ (f[1] \in spoilt' \/ \E t \in Slots : Uploading(t, f[1])')
    BY <1>a DEF WritesUnnamed
  <2>1. f[1] \in Keys /\ f[1] # key
    BY <1>0, <1>w, FileHasKey DEF TypeOK
  <2> QED
    BY <1>0, <1>a, <1>e, <1>n, <1>u, <2>1 DEF WritesUnnamed
<1>4. NamesReadable'
  <2> SUFFICES ASSUME NEW f \in Files, Named(f[1])'
               PROVE  Good(f)' \/ f[1] \in spoilt' \cap Legacy
    BY DEF NamesReadable
  <2>1. f[1] \in Keys /\ f \in FilesOf(f[1])
    BY FileHasKey
  <2>2. CASE f[1] # key
    BY <1>0, <1>a, <1>d, <1>n, <1>off, <2>1, <2>2, KeyOfFile DEF NamesReadable, Good
  <2>3. CASE f[1] = key /\ Named(key)
    <3>1. ~Uploading(s, key)
      BY <1>e, <1>b, <2>3
    <3>2. req[s].step = "verdict"
      BY <1>b, <3>1 DEF Uploading
    <3>3. Verdict(s)
      BY <3>2 DEF Inserts, Unlinks, UnlinkFails, AvatarSet, AvatarFails, At
    <3>4. disk' = disk
      BY <3>3 DEF Verdict
    <3> QED
      BY <1>0, <1>a, <1>off, <2>3, <3>4 DEF NamesReadable, Good
  <2>4. CASE f[1] = key /\ ~Named(key)
    <3>1. Inserts(s) \/ AvatarSet(s)
      BY <1>n, <2>4
    <3>2. disk' = disk /\ req[s].step \in {"insert", "write"}
      BY <3>1 DEF Inserts, AvatarSet, At
    <3>3. Uploading(s, key)
      BY <3>2 DEF Uploading
    <3> QED
      BY <1>0, <1>b, <1>w, <2>1, <2>4, <3>2, <3>3 DEF FilesFollow, Good
  <2> QED
    BY <2>2, <2>3, <2>4
<1>5. OldPlain'
  <2>1. \A f \in Files : disk'[f] = disk[f] \/ disk'[f] = "absent"
    BY <1>r DEF Inserts, Unlinks, UnlinkFails, AvatarSet, AvatarFails, Verdict, Contents
  <2> QED
    BY <1>0, <2>1, ProtectedFiles DEF OldPlain
<1>6. ScriptAlone' /\ Rewriting'
  BY <1>a, <1>off DEF ScriptAlone, Rewriting
<1>7. NothingLeftBehind'
  <2> SUFFICES ASSUME NEW f \in Protected, disk'[f] # "absent", row'[f[1]] = "NONE", ~Taken(f[1])', f[1] \notin spoilt'
               PROVE  FALSE
    BY DEF NothingLeftBehind
  <2>1. f \in Files /\ f[1] \in Docs \cup Credentials /\ f[1] \in Keys /\ f \in FilesOf(f[1])
    BY ProtectedFiles, FileHasKey
  <2>2. row[f[1]] = "NONE"
    BY <1>n, <2>1 DEF Named
  <2>3. CASE f[1] # key
    <3>1. disk[f] # "absent"
      BY <1>d, <2>1, <2>3, KeyOfFile
    <3>2. ~Taken(f[1])
      BY <1>a, <1>c, <2>3 DEF Taken, InFlight
    <3> QED
      BY <1>0, <1>a, <2>2, <3>1, <3>2 DEF NothingLeftBehind
  <2>4. CASE f[1] = key
    <3>1. Inserts(s) => row'[key] = "PENDING"
      BY <1>r, <2>1, <2>4 DEF Inserts, Rows
    <3>2. Unlinks(s) => disk'[f] = "absent"
      BY <2>1, <2>4 DEF Unlinks
    <3>3. UnlinkFails(s) \/ AvatarFails(s) => key \in spoilt'
      BY DEF UnlinkFails, AvatarFails, Fault
    <3>4. AvatarSet(s) => key \in Avatars
      BY <1>r, StepsOfRequests DEF AvatarSet, At
    <3>5. Verdict(s) => row'[key] \in {"APPROVED", "REJECTED"}
      BY <1>r, <2>1, <2>4 DEF Verdict, Rows
    <3> QED
      BY <2>1, <2>4, <3>1, <3>2, <3>3, <3>4, <3>5
  <2> QED
    BY <2>3, <2>4
<1> QED
  BY <1>1, <1>2, <1>3, <1>4, <1>5, <1>6, <1>7 DEF FilesInv

LEMMA FilesInvDocumentVerdict ==
  ASSUME FilesInv, TypeOK', NEW l \in Docs, DocumentVerdict(l)
  PROVE  FilesInv'
<1>0. /\ TypeOK /\ OneKeyEach /\ FilesFollow /\ WritesUnnamed /\ NamesReadable
      /\ ScriptAlone /\ Rewriting /\ OldPlain /\ NothingLeftBehind
  BY DEF FilesInv
<1>a. UNCHANGED <<disk, writing, avatar, req, script, spoilt>>
  BY DEF DocumentVerdict, NoFault
<1>b. \A k \in Docs \cup Credentials : row'[k] # "NONE" <=> row[k] # "NONE"
  <2>1. row \in Rows
    BY <1>0 DEF TypeOK, Rows
  <2> QED
    BY <2>1 DEF DocumentVerdict, Rows
<1>n. \A k : Named(k)' = Named(k)
  BY <1>a, <1>b DEF Named
<1>u. \A s, k : Uploading(s, k)' = Uploading(s, k)
  BY <1>a DEF Uploading
<1>t. \A k : Taken(k)' = Taken(k)
  BY <1>a DEF Taken, InFlight
<1>1. OneKeyEach' /\ WritesUnnamed'
  BY <1>0, <1>a, <1>n, <1>u DEF OneKeyEach, WritesUnnamed
<1>2. FilesFollow'
  BY <1>0, <1>a, <1>u DEF FilesFollow, Good
<1>3. NamesReadable' /\ OldPlain' /\ ScriptAlone' /\ Rewriting'
  BY <1>0, <1>a, <1>n DEF NamesReadable, OldPlain, ScriptAlone, Rewriting, Good
<1>4. NothingLeftBehind'
  BY <1>0, <1>a, <1>b, <1>t, ProtectedFiles DEF NothingLeftBehind
<1> QED
  BY <1>1, <1>2, <1>3, <1>4 DEF FilesInv

LEMMA FilesInvCrash ==
  ASSUME FilesInv, TypeOK', Crash
  PROVE  FilesInv'
<1>0. /\ TypeOK /\ OneKeyEach /\ FilesFollow /\ WritesUnnamed /\ NamesReadable
      /\ ScriptAlone /\ Rewriting /\ OldPlain /\ NothingLeftBehind
  BY DEF FilesInv
<1>r. req \in [Slots -> Request] /\ disk \in Contents /\ writing \subseteq Files
  BY <1>0 DEF TypeOK, Contents
<1>a. /\ UNCHANGED <<row, avatar, script>> /\ writing' = {} /\ req' = [s \in Slots |-> Idle]
      /\ spoilt' = spoilt \cup ((InFlight \cup {f[1] : f \in writing}) \ {NoKey})
      /\ \E s \in Slots : req[s] # Idle
  BY DEF Crash, Fault
<1>off. script.state = "off"
  BY <1>0, <1>a DEF ScriptAlone
<1>n. \A k : Named(k)' = Named(k)
  BY <1>a DEF Named
<1>u. \A s \in Slots, k \in Keys : ~Uploading(s, k)' /\ req'[s].step # "verdict"
  BY <1>a DEF Uploading, Idle
<1>d. \A f \in Files : disk'[f] = disk[f] \/ (f \in writing /\ disk'[f] = "torn")
  <2>1. PICK begun \in SUBSET writing : disk' = [f \in Files |-> IF f \in begun THEN "torn" ELSE disk[f]]
    BY DEF Crash
  <2>2. \A f \in Files : disk'[f] = IF f \in begun THEN "torn" ELSE disk[f]
    BY <2>1
  <2> QED
    BY <2>2
<1>1. OneKeyEach' /\ FilesFollow' /\ WritesUnnamed' /\ ScriptAlone' /\ Rewriting'
  BY <1>a, <1>u, <1>off DEF OneKeyEach, FilesFollow, WritesUnnamed, ScriptAlone, Rewriting
<1>2. NamesReadable' /\ OldPlain'
  <2>1. NamesReadable'
    BY <1>0, <1>a, <1>d, <1>n, <1>off DEF NamesReadable, Good, WritesUnnamed
  <2> QED
    BY <1>0, <1>d, <2>1, ProtectedFiles DEF OldPlain
<1>3. NothingLeftBehind'
  <2> SUFFICES ASSUME NEW f \in Protected, disk'[f] # "absent", row'[f[1]] = "NONE", f[1] \notin spoilt'
               PROVE  FALSE
    BY DEF NothingLeftBehind
  <2>1. f \in Files /\ f[1] \in Keys /\ f[1] # NoKey
    BY ProtectedFiles, FileHasKey
  <2>2. f[1] \notin spoilt /\ f[1] \notin InFlight /\ \A g \in writing : g[1] # f[1]
    BY <1>a, <2>1
  <2>3. ~Taken(f[1])
    BY <2>2, KeyOfFile DEF Taken
  <2>4. disk'[f] = disk[f]
    BY <1>d, <2>1, <2>2
  <2> QED
    BY <1>0, <1>a, <2>2, <2>3, <2>4 DEF NothingLeftBehind
<1> QED
  BY <1>1, <1>2, <1>3 DEF FilesInv

LEMMA FilesInvKept == FilesInv /\ [Next]_vars => FilesInv'
<1> SUFFICES ASSUME FilesInv, [Next]_vars PROVE FilesInv'
  OBVIOUS
<1>0. TypeOK'
  BY TypeKept DEF FilesInv
<1>1. ASSUME NEW s \in Slots, Arrivals(s) PROVE FilesInv'
  BY <1>0, <1>1, FilesInvArrivals DEF Arrivals
<1>2. ASSUME NEW s \in Slots, Handle(s) PROVE FilesInv'
  BY <1>0, <1>2, FilesInvDecides, FilesInvLeaves DEF Handle
<1>3. CASE Failures
  <2>1. ASSUME NEW f \in Files, WriteFails(f) PROVE FilesInv'
    BY <1>0, <2>1, FilesInvWrites
  <2>2. ASSUME NEW s \in Slots, InsertFails(s) \/ UnlinkFails(s) \/ AvatarFails(s) PROVE FilesInv'
    BY <1>0, <2>2, FilesInvDecides, FilesInvLeaves
  <2>3. CASE ScriptListFails \/ ScriptKilled
    BY <1>0, <2>3, FilesInvScript
  <2>4. CASE Crash
    BY <1>0, <2>4, FilesInvCrash
  <2> QED
    BY <1>3, <2>1, <2>2, <2>3, <2>4 DEF Failures
<1>4. CASE Script
  BY <1>0, <1>4, FilesInvScript DEF Script
<1>5. ASSUME NEW f \in Files, WriteEnds(f) PROVE FilesInv'
  BY <1>0, <1>5, FilesInvWrites
<1>6. ASSUME NEW k \in Docs, DocumentVerdict(k) PROVE FilesInv'
  BY <1>0, <1>6, FilesInvDocumentVerdict
<1>7. CASE UNCHANGED vars
  <2>1. /\ UNCHANGED <<disk, writing, row, avatar, req, script, spoilt>>
        /\ OneKeyEach' /\ WritesUnnamed'
        /\ \A k : Named(k)' = Named(k)
        /\ \A s, k : Uploading(s, k)' = Uploading(s, k)
        /\ \A k : Taken(k)' = Taken(k)
    BY <1>7, SameRequests DEF vars
  <2>2. FilesFollow' /\ NamesReadable' /\ ScriptAlone' /\ Rewriting' /\ OldPlain' /\ NothingLeftBehind'
    BY <2>1 DEF FilesInv, FilesFollow, NamesReadable, ScriptAlone, Rewriting, OldPlain, NothingLeftBehind, Good
  <2> QED
    BY <1>0, <2>1, <2>2 DEF FilesInv
<1> QED
  BY <1>1, <1>2, <1>3, <1>4, <1>5, <1>6, <1>7 DEF Next

LEMMA FilesInvAlways == Spec => []FilesInv
BY FilesInvInit, FilesInvKept, PTL DEF Spec

\* Whoever may see a file that a row or the profile names is given what was sent.
THEOREM NamedFilesReadable == Spec => []RowsReadable
BY FilesInvAlways, FilesInvReadable, PTL

\* A file that nothing names belongs to a request in flight or met a failure.
THEOREM OrphansMetAFailure == Spec => []NothingLeftBehind
<1>1. FilesInv => NothingLeftBehind
  BY DEF FilesInv
<1> QED
  BY <1>1, FilesInvAlways, PTL

(***************************************************************************)
(* The script leaves no plaintext.  While it runs, a plain file is in a    *)
(* directory that is still to be walked or whose listing failed, on the    *)
(* list of the one that is being walked, or in the script's hands.         *)
(***************************************************************************)

StillToEncrypt ==
  script.state # "off" => \A f \in Protected : disk[f] = "plain" =>
    \/ f \in script.todo
    \/ f = script.file
    \/ \E d \in script.dirs \cup script.unlisted : f \in Directory(d)

LEMMA ServerStopped ==
  ASSUME FilesInv, [Next]_vars, ~Script, ~ScriptListFails, ~ScriptKilled, script' # script \/ disk' # disk
  PROVE  script.state = "off" /\ script' = script
<1>0. ScriptAlone
  BY DEF FilesInv
<1>1. UNCHANGED script
  BY DEF Next, Arrivals, Handle, Failures, UploadArrives, ReviewArrives, Checks, Inserts, Unlinks, AvatarSet,
     Verdict, WriteEnds, WriteFails, InsertFails, UnlinkFails, AvatarFails, Crash, DocumentVerdict, vars
<1>2. ASSUME script.state # "off" PROVE disk' = disk
  <2>1. writing = {} /\ \A s \in Slots : req[s] = Idle
    BY <1>0, <1>2 DEF ScriptAlone
  <2>2. ASSUME NEW s \in Slots, Handle(s) \/ InsertFails(s) \/ UnlinkFails(s) \/ AvatarFails(s) PROVE FALSE
    <3>1. req[s].step = "idle"
      BY <2>1 DEF Idle
    <3> QED
      BY <2>2, <3>1 DEF Handle, Checks, Inserts, Unlinks, AvatarSet, Verdict, InsertFails, UnlinkFails, AvatarFails, At
  <2>3. ASSUME NEW s \in Slots, Arrivals(s) PROVE disk' = disk
    BY <2>3 DEF Arrivals, UploadArrives, ReviewArrives
  <2>4. ~Crash /\ \A f \in Files : ~WriteEnds(f) /\ ~WriteFails(f)
    BY <2>1 DEF Crash, WriteEnds, WriteFails
  <2>5. \A k \in Docs : DocumentVerdict(k) => disk' = disk
    BY DEF DocumentVerdict
  <2> QED
    BY <2>2, <2>3, <2>4, <2>5 DEF Next, Failures, vars
<1> QED
  BY <1>1, <1>2

LEMMA StillToEncryptKept ==
  ASSUME FilesInv, StillToEncrypt, [Next]_vars
  PROVE  StillToEncrypt'
<1>0. script \in ScriptRun /\ disk \in Contents
  BY DEF FilesInv, TypeOK, Contents
<1>1. CASE ~Script /\ ~ScriptListFails /\ ~ScriptKilled
  <2>1. CASE script' = script /\ disk' = disk
    BY <2>1 DEF StillToEncrypt
  <2>2. CASE script' # script \/ disk' # disk
    BY <1>1, <2>2, ServerStopped DEF StillToEncrypt
  <2> QED
    BY <2>1, <2>2
<1>2. CASE ScriptEnds \/ ScriptKilled
  <2>1. script'.state = "off"
    BY <1>2 DEF ScriptEnds, ScriptKilled, Off
  <2> QED
    BY <2>1 DEF StillToEncrypt
<1>3. CASE ScriptStarts
  <2>1. script' = [Off EXCEPT !.state = "walk", !.dirs = Directories] /\ disk' = disk
    BY <1>3 DEF ScriptStarts
  <2>2. script'.dirs = Directories
    BY <2>1 DEF Off
  <2>3. \A f \in Protected : \E d \in Directories : f \in Directory(d)
    BY DEF Protected, Directory, Directories
  <2> QED
    BY <2>2, <2>3 DEF StillToEncrypt
<1>4. CASE ScriptWalks
  <2>1. PICK d \in Directories :
          script' = [script EXCEPT !.dirs = script.dirs \ {d}, !.todo = {f \in Directory(d) : disk[f] # "absent"}]
    BY <1>4 DEF ScriptWalks, NextDirectory, Directories
  <2>2. PICK todo : todo = {f \in Directory(d) : disk[f] # "absent"}
    OBVIOUS
  <2>3. script' = [script EXCEPT !.dirs = script.dirs \ {d}, !.todo = todo]
    BY <2>1, <2>2
  <2>4. /\ script'.dirs = script.dirs \ {d} /\ script'.unlisted = script.unlisted
        /\ script'.todo = todo /\ script'.file = script.file
    BY <1>0, <2>3 DEF ScriptRun
  <2>5. disk' = disk /\ script.todo = {} /\ script.state = "walk"
    BY <1>4 DEF ScriptWalks
  <2>6. \A f \in Directory(d) : disk[f] = "plain" => f \in todo
    BY <2>2
  <2> QED
    BY <2>4, <2>5, <2>6 DEF StillToEncrypt
<1>5. ASSUME NEW f \in Files, ScriptReads(f) PROVE StillToEncrypt'
  <2>0. disk' = disk /\ script.state = "walk" /\ script.file = NoFile /\ f \in Protected
    BY <1>0, <1>5, ScriptMoves DEF ScriptReads, ScriptRun
  <2>1. CASE disk[f] = "absent"
    <3>1. script' = Off
      BY <1>5, <2>1 DEF ScriptReads
    <3>2. script'.state = "off"
      BY <3>1 DEF Off
    <3> QED
      BY <3>2 DEF StillToEncrypt
  <2>2. CASE disk[f] # "absent"
    <3>0. disk[f] \in Content \ {"absent"}
      BY <1>0, <1>5, <2>2 DEF Contents
    <3>1. PICK skip \in Encrypted(disk[f]) :
            script' = [script EXCEPT !.todo = script.todo \ {f},
                         !.state = IF skip THEN "walk" ELSE "truncate",
                         !.file = IF skip THEN NoFile ELSE f,
                         !.saw = IF skip THEN "absent" ELSE disk[f]]
      BY <1>5, <2>2 DEF ScriptReads
    <3>2. /\ script'.todo = script.todo \ {f} /\ script'.dirs = script.dirs
          /\ script'.unlisted = script.unlisted
          /\ script'.file = IF skip THEN NoFile ELSE f
      BY <1>0, <3>1 DEF ScriptRun
    <3>3. disk[f] = "plain" => ~skip
      BY <3>0, SealedSkipped
    <3>4. NoFile \notin Protected
      BY ProtectedFiles DEF NoFile, Keys
    <3> QED
      BY <2>0, <3>2, <3>3, <3>4 DEF StillToEncrypt
  <2> QED
    BY <2>1, <2>2
<1>6. CASE ScriptTruncates \/ ScriptRewrites
  <2>1. PICK c : c # "plain" /\ disk' = [disk EXCEPT ![script.file] = c]
    <3>1. ScriptTruncates => disk' = [disk EXCEPT ![script.file] = "torn"]
      BY DEF ScriptTruncates
    <3>2. CASE ScriptRewrites
      BY <3>2 DEF ScriptRewrites
    <3> QED
      BY <1>6, <3>1, <3>2
  <2>2. /\ script'.todo = script.todo /\ script'.dirs = script.dirs /\ script'.unlisted = script.unlisted
        /\ script.state # "off" /\ script.file \in Protected
    BY <1>0, <1>6 DEF ScriptTruncates, ScriptRewrites, ScriptRun
  <2>3. \A f \in Protected : disk'[f] = IF f = script.file THEN c ELSE disk[f]
    BY <1>0, <2>1, ProtectedFiles DEF Contents
  <2> QED
    BY <2>1, <2>2, <2>3 DEF StillToEncrypt
<1>7. CASE ScriptListFails
  <2>1. PICK d \in Directories :
          script' = [script EXCEPT !.dirs = script.dirs \ {d}, !.unlisted = script.unlisted \cup {d}]
    BY <1>7 DEF ScriptListFails, NextDirectory, Directories
  <2>2. /\ script'.dirs = script.dirs \ {d} /\ script'.unlisted = script.unlisted \cup {d}
        /\ script'.todo = script.todo /\ script'.file = script.file
    BY <1>0, <2>1 DEF ScriptRun
  <2>3. disk' = disk /\ script.state = "walk"
    BY <1>7 DEF ScriptListFails
  <2> QED
    BY <2>2, <2>3 DEF StillToEncrypt
<1> QED
  BY <1>1, <1>2, <1>3, <1>4, <1>5, <1>6, <1>7 DEF Script

\* Among the protected files only those older than encryption are ever plaintext, and
\* when the script has done both directories none is but what lies in one whose
\* listing failed.
THEOREM PlaintextGone == Spec => []NoPlaintextLeft
<1>1. Init => StillToEncrypt
  BY DEF Init, Off, StillToEncrypt
<1>2. FilesInv /\ StillToEncrypt /\ [Next]_vars => StillToEncrypt'
  BY StillToEncryptKept
<1>3. FilesInv /\ StillToEncrypt => NoPlaintextLeft
  <2> SUFFICES ASSUME FilesInv, StillToEncrypt PROVE NoPlaintextLeft
    OBVIOUS
  <2>1. script \in ScriptRun /\ OldPlain
    BY DEF FilesInv, TypeOK
  <2>2. script.state = "walk" => script.file \notin Protected
    BY <2>1, ProtectedFiles DEF ScriptRun, NoFile, Keys
  <2> QED
    BY <2>1, <2>2 DEF NoPlaintextLeft, StillToEncrypt, OldPlain
<1> QED
  BY <1>1, <1>2, <1>3, FilesInvAlways, PTL DEF Spec
(***************************************************************************)
(* The cap.  A credential is claimed when it is active, when its upload    *)
(* has been let in, or when an approval of it is on the way - by then it   *)
(* may have been rejected by somebody else.  Only an upload that is let in *)
(* claims anything new, and it has counted the active ones.                *)
(***************************************************************************)

Claims(s, k) ==
  /\ req[s].key = k
  /\ At(s, "upload", "insert") \/ At(s, "approve", "verdict")
Claimed == Active \cup {k \in Credentials : \E s \in Slots : Claims(s, k)}
FewClaimed == Cardinality(Claimed) <= MaxActive + Cardinality(Slots) - 1

LEMMA ClaimsOfRequests ==
  ASSUME TypeOK, [Next]_vars, \A s \in Slots : ~Checks(s), NEW k \in Credentials, NEW u \in Slots, Claims(u, k)'
  PROVE  Claims(u, k) \/ row[k] = "PENDING"
<1>0. req \in [Slots -> Request]
  BY DEF TypeOK
<1>1. CASE req'[u] = req[u]
  BY <1>1 DEF Claims, At
<1>2. CASE req'[u] = Idle \/ req'[u].step \in {"write", "unlink"}
  BY <1>2 DEF Claims, At, Idle
<1>3. ASSUME NEW s \in Slots, Arrivals(s) PROVE Claims(u, k) \/ row[k] = "PENDING"
  <2>1. ASSUME NEW op \in {"submit", "upload", "avatar"}, NEW l \in Keys, UploadArrives(s, op, l)
        PROVE  req'[u] = req[u] \/ req'[u].step = "write"
    BY <1>0, <2>1 DEF UploadArrives, Arrive
  <2>2. ASSUME NEW op \in {"approve", "reject"}, NEW l \in Credentials, ReviewArrives(s, op, l)
        PROVE  req'[u] = req[u] \/ (req'[u].key = l /\ row[l] = "PENDING")
    BY <1>0, <2>2 DEF ReviewArrives, Arrive
  <2> QED
    BY <1>1, <1>2, <1>3, <2>1, <2>2 DEF Arrivals, Claims
<1>4. ASSUME NEW s \in Slots, Handle(s) \/ UnlinkFails(s) \/ AvatarFails(s) PROVE req'[u] = req[u] \/ req'[u] = Idle
  BY <1>0, <1>4 DEF Handle, Inserts, Unlinks, AvatarSet, Verdict, UnlinkFails, AvatarFails, Done
<1>5. ASSUME NEW s \in Slots, InsertFails(s) PROVE req'[u] = req[u] \/ req'[u].step = "unlink"
  <2>1. req' = [req EXCEPT ![s].step = "unlink"]
    BY <1>5 DEF InsertFails, Goto
  <2>2. req[u] \in Request
    BY <1>0
  <2> QED
    BY <1>0, <2>1, <2>2 DEF Request, Idle
<1>6. ASSUME NEW f \in Files, WriteFails(f) PROVE req'[u] = req[u] \/ req'[u] = Idle
  BY <1>6 DEF WriteFails
<1>7. ASSUME Crash PROVE req'[u] = Idle
  BY <1>7 DEF Crash
<1>8. ASSUME Script \/ ScriptListFails \/ ScriptKilled \/ UNCHANGED vars
             \/ (\E f \in Files : WriteEnds(f)) \/ (\E d \in Docs : DocumentVerdict(d))
      PROVE  req' = req
  BY <1>8 DEF Script, ScriptStarts, ScriptWalks, ScriptReads, ScriptTruncates, ScriptRewrites, ScriptEnds,
     ScriptListFails, ScriptKilled, WriteEnds, DocumentVerdict, vars
<1> QED
  BY <1>1, <1>2, <1>3, <1>4, <1>5, <1>6, <1>7, <1>8 DEF Next, Failures

LEMMA ClaimsOfRows ==
  ASSUME TypeOK, [Next]_vars, NEW k \in Credentials, row'[k] \in {"PENDING", "APPROVED"}
  PROVE  row[k] \in {"PENDING", "APPROVED"} \/ \E s \in Slots : Claims(s, k)
<1>0. req \in [Slots -> Request] /\ row \in [Docs \cup Credentials -> Status]
  BY DEF TypeOK
<1>1. CASE row' = row
  BY <1>1
<1>2. ASSUME NEW s \in Slots, Inserts(s) PROVE row'[k] = row[k] \/ Claims(s, k)
  <2>1. req[s].key = k => req[s].op = "upload"
    <3>1. req[s] \in Request /\ req[s].step = "insert"
      BY <1>0, <1>2 DEF Inserts
    <3> QED
      BY <3>1 DEF Request, Idle, Keys
  <2> QED
    BY <1>0, <1>2, <2>1 DEF Inserts, Claims, At
<1>3. ASSUME NEW s \in Slots, Verdict(s) PROVE row'[k] = row[k] \/ Claims(s, k)
  BY <1>0, <1>3 DEF Verdict, Claims, At
<1>4. ASSUME NEW d \in Docs, DocumentVerdict(d) PROVE row'[k] = row[k]
  BY <1>0, <1>4 DEF DocumentVerdict
<1>5. ASSUME NEW s \in Slots, Arrivals(s) \/ Checks(s) \/ Unlinks(s) \/ AvatarSet(s) PROVE row' = row
  BY <1>5 DEF Arrivals, UploadArrives, ReviewArrives, Checks, Unlinks, AvatarSet
<1>6. ASSUME Failures \/ Script \/ UNCHANGED vars \/ \E f \in Files : WriteEnds(f) PROVE row' = row
  BY <1>6 DEF Failures, WriteFails, InsertFails, UnlinkFails, AvatarFails, ScriptKilled, Crash, Script, ScriptStarts,
     ScriptWalks, ScriptListFails, ScriptReads, ScriptTruncates, ScriptRewrites, ScriptEnds, WriteEnds, vars
<1> QED
  BY <1>1, <1>2, <1>3, <1>4, <1>5, <1>6 DEF Next, Handle

LEMMA NothingClaimed ==
  ASSUME TypeOK, [Next]_vars, \A s \in Slots : ~Checks(s)
  PROVE  Claimed' \subseteq Claimed
<1> SUFFICES ASSUME NEW k \in Claimed' PROVE k \in Claimed
  OBVIOUS
<1>1. k \in Credentials /\ (row'[k] \in {"PENDING", "APPROVED"} \/ \E s \in Slots : Claims(s, k)')
  BY DEF Claimed, Active, WithStatus
<1>2. row[k] \in {"PENDING", "APPROVED"} \/ \E s \in Slots : Claims(s, k)
  BY <1>1, ClaimsOfRows, ClaimsOfRequests
<1> QED
  BY <1>1, <1>2 DEF Claimed, Active, WithStatus

LEMMA FewKeys ==
  ASSUME NEW r, IsFiniteSet(Slots)
  PROVE  /\ IsFiniteSet({r[s].key : s \in Slots})
         /\ Cardinality({r[s].key : s \in Slots}) <= Cardinality(Slots)
<1> DEFINE f == [s \in Slots |-> r[s].key]
<1>1. f \in Surjection(Slots, {r[s].key : s \in Slots})
  BY DEF Surjection
<1> QED
  BY <1>1, FS_Surjection

LEMMA AdmittedClaims ==
  ASSUME TypeOK, FewClaimed, NEW s \in Slots, Checks(s)
  PROVE  FewClaimed'
<1>0. /\ req \in [Slots -> Request] /\ row' = row
      /\ req' = [req EXCEPT ![s].step = IF Admits(req[s].op) THEN "insert" ELSE "unlink"]
  BY DEF TypeOK, Checks, Goto
<1>1. IsFiniteSet(Credentials) /\ IsFiniteSet(Slots)
  BY FiniteAssumption
<1>2. Active' = Active /\ Active \subseteq Credentials /\ Claimed \subseteq Credentials
  BY <1>0 DEF Active, WithStatus, Claimed
<1>3. \A u \in Slots : req[u] \in Request
  BY <1>0
<1>4. \A u \in Slots : /\ req'[u].op = req[u].op /\ req'[u].key = req[u].key
                       /\ u # s => req'[u].step = req[u].step
                       /\ u = s => req'[u].step = IF Admits(req[s].op) THEN "insert" ELSE "unlink"
  BY <1>0, <1>3 DEF Request, Idle
<1>5. Cardinality(Slots) \in Nat /\ Cardinality(Active) \in Nat
  BY <1>1, <1>2, FS_Subset, FS_CardinalityType
<1>6. CASE req[s].op = "upload" /\ Admits("upload")
  <2> DEFINE keys == {req'[u].key : u \in Slots}
  <2>1. Cardinality(Active) <= MaxActive - 1
    BY <1>5, <1>6 DEF Admits
  <2>2. IsFiniteSet(keys) /\ Cardinality(keys) <= Cardinality(Slots)
    BY <1>1, FewKeys
  <2>3. Claimed' \subseteq Active \cup keys
    BY <1>2 DEF Claimed, Claims
  <2>4. /\ IsFiniteSet(Active \cup keys)
        /\ Cardinality(Active \cup keys) <= Cardinality(Active) + Cardinality(keys)
    <3>1. IsFiniteSet(Active)
      BY <1>1, <1>2, FS_Subset
    <3>2. Cardinality(Active \cap keys) \in Nat /\ Cardinality(keys) \in Nat
      <4>1. IsFiniteSet(Active \cap keys)
        BY <3>1, FS_Intersection
      <4> QED
        BY <2>2, <4>1, FS_CardinalityType
    <3>3. /\ IsFiniteSet(Active \cup keys)
          /\ Cardinality(Active \cup keys) =
               Cardinality(Active) + Cardinality(keys) - Cardinality(Active \cap keys)
      BY <2>2, <3>1, FS_Union
    <3> HIDE DEF keys
    <3> QED
      BY <3>2, <3>3, <1>5
  <2>5. Cardinality(Claimed') <= Cardinality(Active \cup keys)
    BY <2>3, <2>4, FS_Subset
  <2>6. Cardinality(Claimed') \in Nat /\ Cardinality(Active \cup keys) \in Nat /\ Cardinality(keys) \in Nat
    BY <2>2, <2>3, <2>4, FS_Subset, FS_CardinalityType
  <2> QED
    BY <1>5, <2>1, <2>2, <2>4, <2>5, <2>6 DEF FewClaimed
<1>7. CASE ~(req[s].op = "upload" /\ Admits("upload"))
  <2>1. \A u \in Slots, k \in Credentials : Claims(u, k)' => Claims(u, k)
    <3>1. req[s].op # "approve"
      BY <1>3 DEF Request, Idle, Checks
    <3> QED
      BY <1>4, <1>7, <3>1 DEF Claims, At
  <2>2. Claimed' \subseteq Claimed
    BY <1>2, <2>1 DEF Claimed
  <2>3. IsFiniteSet(Claimed)
    BY <1>1, <1>2, FS_Subset
  <2>4. Cardinality(Claimed') <= Cardinality(Claimed) /\ Cardinality(Claimed') \in Nat /\ Cardinality(Claimed) \in Nat
    BY <2>2, <2>3, FS_Subset, FS_CardinalityType
  <2> QED
    BY <1>5, <2>4 DEF FewClaimed
<1> QED
  BY <1>6, <1>7

\* The cap is passed by no more than the other requests in flight.
THEOREM CapNearlyKept == Spec => []CapOvershoot
<1>0. IsFiniteSet(Credentials) /\ IsFiniteSet(Slots) /\ Cardinality(Slots) \in Nat /\ Cardinality(Slots) >= 1
  <2>1. Cardinality(Slots) # 0
    BY FiniteAssumption, FS_EmptySet
  <2> QED
    BY <2>1, FiniteAssumption, FS_CardinalityType
<1>1. Init => FewClaimed
  <2> SUFFICES ASSUME Init PROVE FewClaimed
    OBVIOUS
  <2>1. Claimed = Active
    BY DEF Init, Claimed, Claims, At, Idle
  <2>2. Active \subseteq Credentials /\ Cardinality(Active) <= MaxActive
    BY DEF Init, Active, WithStatus
  <2>3. Cardinality(Active) \in Nat
    BY <1>0, <2>2, FS_Subset, FS_CardinalityType
  <2> QED
    BY <1>0, <2>1, <2>2, <2>3 DEF FewClaimed
<1>2. TypeOK /\ FewClaimed /\ [Next]_vars => FewClaimed'
  <2> SUFFICES ASSUME TypeOK, FewClaimed, [Next]_vars PROVE FewClaimed'
    OBVIOUS
  <2>1. CASE \E s \in Slots : Checks(s)
    BY <2>1, AdmittedClaims
  <2>2. CASE \A s \in Slots : ~Checks(s)
    <3>1. Claimed' \subseteq Claimed /\ Claimed \subseteq Credentials
      BY <2>2, NothingClaimed DEF Claimed, Active, WithStatus
    <3>2. IsFiniteSet(Claimed)
      BY <1>0, <3>1, FS_Subset
    <3>3. Cardinality(Claimed') <= Cardinality(Claimed) /\ Cardinality(Claimed') \in Nat /\ Cardinality(Claimed) \in Nat
      BY <3>1, <3>2, FS_Subset, FS_CardinalityType
    <3> QED
      BY <1>0, <3>3 DEF FewClaimed
  <2> QED
    BY <2>1, <2>2
<1>3. FewClaimed => CapOvershoot
  <2>1. Active \subseteq Claimed /\ Claimed \subseteq Credentials
    BY DEF Claimed, Active, WithStatus
  <2>2. IsFiniteSet(Claimed)
    BY <1>0, <2>1, FS_Subset
  <2>3. Cardinality(Active) <= Cardinality(Claimed) /\ Cardinality(Active) \in Nat /\ Cardinality(Claimed) \in Nat
    BY <2>1, <2>2, FS_Subset, FS_CardinalityType
  <2> QED
    BY <1>0, <2>3 DEF FewClaimed, CapOvershoot
<1> QED
  BY <1>1, <1>2, <1>3, TypeCorrect, PTL DEF Spec
=============================================================================
