------------------------------- MODULE Uploads -------------------------------
(***************************************************************************)
(* The files a worker sends - two for a verification, one for a            *)
(* credential, one for an avatar - and the rows that name them.  The disk  *)
(* and the database have no common transaction: a file is written before   *)
(* the row is inserted and removed when the row is refused, and either     *)
(* side may fail in between.  Credentials are reviewed here; the review of *)
(* documents, and the profile's status that a submission and its review    *)
(* write along with the row, are in WorkerVerification.                    *)
(*                                                                         *)
(* A file is a pair of a key (the uuid of its name) and its part.  One     *)
(* worker sends all of them, so the module is about one worker.            *)
(***************************************************************************)
EXTENDS Integers, FiniteSets

CONSTANTS
  Docs,        \* keys of verification_docs: bounds the submissions
  Credentials, \* keys of worker_credentials
  Avatars,     \* keys of avatars
  Legacy,      \* rows older than encryption, whose files are plaintext
  Slots,       \* requests handled at the same time
  NoKey,       \* the key of no upload
  MaxActive,   \* MAX_ACTIVE_CREDENTIALS
  MaxRejections, \* MAX_VERIFICATION_REJECTIONS
  MaxFaults    \* bounds failed writes, unlinks and transactions, restarts and kills

Keys == Docs \cup Credentials \cup Avatars

ASSUME KeysAssumption ==
  /\ Docs \cap Credentials = {} /\ Docs \cap Avatars = {} /\ Credentials \cap Avatars = {}
  /\ NoKey \notin Keys
  /\ Legacy \subseteq Docs \cup Credentials
ASSUME LimitsAssumption == MaxActive \in Nat \ {0} /\ MaxRejections \in Nat /\ MaxFaults \in Nat
ASSUME FiniteAssumption == IsFiniteSet(Credentials) /\ IsFiniteSet(Docs) /\ IsFiniteSet(Slots) /\ Slots # {}

FilesOf(k) == IF k \in Docs THEN {<<k, "idPhoto">>, <<k, "selfie">>} ELSE {<<k, "file">>}
Files      == UNION {FilesOf(k) : k \in Keys}
Protected  == UNION {FilesOf(k) : k \in Docs \cup Credentials}

VARIABLES
  disk,    \* content of each file
  writing, \* files whose writeFile has not returned
  row,     \* status of the row that names a document or credential
  avatar,  \* worker_profiles.avatarUrl
  req,     \* the request in each slot
  script,  \* the run of encrypt-existing-uploads
  faults,  \* failures and restarts so far
  spoilt   \* history: keys of uploads that met one

vars == <<disk, writing, row, avatar, req, script, faults, spoilt>>

\* torn: a prefix of what is being written.  plain and sealed hold what the worker
\* sent, as it is or encrypted; garbled is the encryption of a torn file.
Content == {"absent", "torn", "plain", "sealed", "garbled"}
Status  == {"NONE", "PENDING", "APPROVED", "REJECTED"}

\* What each upload names its files with, and the requests that may be in a slot.
KeysFor == [submit |-> Docs, upload |-> Credentials, avatar |-> Avatars]
Idle    == [op |-> "idle", key |-> NoKey, step |-> "idle"]
Request ==
  {Idle}
    \cup [op : {"submit"}, key : Docs, step : {"write", "insert", "unlink"}]
    \cup [op : {"upload"}, key : Credentials, step : {"write", "insert", "unlink"}]
    \cup [op : {"avatar"}, key : Avatars, step : {"write"}]
    \cup [op : {"approve", "reject"}, key : Credentials, step : {"verdict"}]

\* The script: off, or on, with what is left of its walk, and the file it has read.
\* History: unlisted, the directories whose listing failed, of which it keeps no trace.
NoFile == <<NoKey, "file">>
Off == [state |-> "off", todo |-> {}, dirs |-> {}, unlisted |-> {}, file |-> NoFile, saw |-> "absent"]
Directories == {"verification", "credentials"}
ScriptRun ==
  [state : {"off", "walk"}, todo : SUBSET Protected, dirs : SUBSET Directories,
   unlisted : SUBSET Directories, file : {NoFile}, saw : {"absent"}]
    \cup [state : {"truncate", "rewrite"}, todo : SUBSET Protected, dirs : SUBSET Directories,
          unlisted : SUBSET Directories, file : Protected, saw : {"torn", "plain"}]

WithStatus(keys, st) == {k \in keys : row[k] \in st}
Active == WithStatus(Credentials, {"PENDING", "APPROVED"})

Init ==
  /\ disk = [f \in Files |-> IF f[1] \in Legacy THEN "plain" ELSE "absent"]
  /\ writing = {}
  /\ row \in [Docs \cup Credentials -> Status]
  /\ \A k \in Docs \cup Credentials : (row[k] = "NONE") = (k \notin Legacy)
  /\ Cardinality(Active) <= MaxActive
  /\ avatar = NoKey
  /\ req = [s \in Slots |-> Idle]
  /\ script = Off
  /\ faults = 0
  /\ spoilt = {}

InFlight == {req[s].key : s \in Slots}
Taken(k) == k \in InFlight \/ \E f \in FilesOf(k) : f \in writing
\* randomUUID: a name never used before.
Unused(k) == ~Taken(k) /\ k \notin spoilt /\ \A f \in FilesOf(k) : disk[f] = "absent"
Fresh(k)  == Unused(k) /\ (k \notin Avatars => row[k] = "NONE")

At(s, op, step) == req[s].op = op /\ req[s].step = step
Goto(s, step)   == req' = [req EXCEPT ![s].step = step]
Done(s)         == req' = [req EXCEPT ![s] = Idle]
Arrive(s, op, k, step) ==
  /\ req[s] = Idle
  /\ script.state = "off"
  /\ req' = [req EXCEPT ![s] = [op |-> op, key |-> k, step |-> step]]
NoFault   == UNCHANGED <<faults, spoilt>>
Fault(ks) == faults < MaxFaults /\ faults' = faults + 1 /\ spoilt' = spoilt \cup ks

-----------------------------------------------------------------------------
(* Writing.  submitVerification starts both writes at once and waits for   *)
(* both (Promise.all); a write that outlives its failed request goes on.   *)

UploadArrives(s, op, k) ==
  /\ Fresh(k)
  /\ k \in KeysFor[op]
  /\ Arrive(s, op, k, "write")
  /\ writing' = writing \cup FilesOf(k)
  /\ UNCHANGED <<disk, row, avatar, script>> /\ NoFault

\* Protected files are encrypted, avatars are not.
WriteEnds(f) ==
  /\ f \in writing
  /\ disk' = [disk EXCEPT ![f] = IF f \in Protected THEN "sealed" ELSE "plain"]
  /\ writing' = writing \ {f}
  /\ UNCHANGED <<row, avatar, req, script>> /\ NoFault

\* The request fails at once, outside the try that cleans up; the file may have been
\* opened and written in part.
WriteFails(f) ==
  /\ f \in writing
  /\ Fault({f[1]})
  /\ writing' = writing \ {f}
  /\ disk' \in {disk, [disk EXCEPT ![f] = "torn"]}
  /\ req' = [s \in Slots |-> IF req[s].key = f[1] /\ req[s].step = "write" THEN Idle ELSE req[s]]
  /\ UNCHANGED <<row, avatar, script>>

-----------------------------------------------------------------------------
(* When all is written, the transaction: it counts rows at READ COMMITTED, *)
(* so that the count may be out of date at the insert.                     *)

Written(s) == FilesOf(req[s].key) \cap writing = {}

Admits(op) ==
  IF op = "submit"
  THEN /\ WithStatus(Docs, {"PENDING"}) = {}
       /\ Cardinality(WithStatus(Docs, {"REJECTED"})) < MaxRejections
  ELSE Cardinality(Active) < MaxActive

\* Variant: the first write to end is taken for both.
Checks_AnyWrite(s) ==
  /\ req[s].step = "write" /\ req[s].op # "avatar"
  /\ \E f \in FilesOf(req[s].key) : f \notin writing
  /\ Goto(s, IF Admits(req[s].op) THEN "insert" ELSE "unlink")
  /\ UNCHANGED <<disk, writing, row, avatar, script>> /\ NoFault
\* Variant: a limit of one more.
Checks_OffByOne(s) ==
  /\ req[s].step = "write" /\ req[s].op # "avatar" /\ Written(s)
  /\ Goto(s, IF \/ req[s].op = "submit" /\ Admits("submit")
                \/ req[s].op = "upload" /\ Cardinality(Active) <= MaxActive
             THEN "insert" ELSE "unlink")
  /\ UNCHANGED <<disk, writing, row, avatar, script>> /\ NoFault
Checks(s) ==
  /\ req[s].step = "write" /\ req[s].op # "avatar" /\ Written(s)
  /\ Goto(s, IF Admits(req[s].op) THEN "insert" ELSE "unlink")
  /\ UNCHANGED <<disk, writing, row, avatar, script>> /\ NoFault

Inserts(s) ==
  /\ req[s].step = "insert"
  /\ row' = [row EXCEPT ![req[s].key] = "PENDING"]
  /\ Done(s)
  /\ UNCHANGED <<disk, writing, avatar, script>> /\ NoFault

\* The transaction is rolled back.
InsertFails(s) ==
  /\ req[s].step = "insert"
  /\ Fault({})
  /\ Goto(s, "unlink")
  /\ UNCHANGED <<disk, writing, row, avatar, script>>

\* Variant: only the first file of a submission is removed.
Unlinks_IdOnly(s) ==
  /\ req[s].step = "unlink"
  /\ disk' = [f \in Files |-> IF f \in FilesOf(req[s].key) /\ f[2] # "selfie" THEN "absent" ELSE disk[f]]
  /\ Done(s)
  /\ UNCHANGED <<writing, row, avatar, script>> /\ NoFault
Unlinks(s) ==
  /\ req[s].step = "unlink"
  /\ disk' = [f \in Files |-> IF f \in FilesOf(req[s].key) THEN "absent" ELSE disk[f]]
  /\ Done(s)
  /\ UNCHANGED <<writing, row, avatar, script>> /\ NoFault

\* unlink(...).catch(() => {}): a failure leaves any of the files.
UnlinkFails(s) ==
  /\ req[s].step = "unlink"
  /\ Fault({req[s].key})
  /\ \E left \in SUBSET FilesOf(req[s].key) :
       disk' = [f \in Files |-> IF f \in FilesOf(req[s].key) \ left THEN "absent" ELSE disk[f]]
  /\ Done(s)
  /\ UNCHANGED <<writing, row, avatar, script>>

\* uploadAvatar: the profile is updated by its user; the former avatar's file stays.
AvatarSet(s) ==
  /\ At(s, "avatar", "write") /\ Written(s)
  /\ avatar' = req[s].key
  /\ Done(s)
  /\ UNCHANGED <<disk, writing, row, script>> /\ NoFault
\* No profile to update: the file stays and nothing names it.
AvatarFails(s) ==
  /\ At(s, "avatar", "write") /\ Written(s)
  /\ Fault({req[s].key})
  /\ Done(s)
  /\ UNCHANGED <<disk, writing, row, avatar, script>>

-----------------------------------------------------------------------------
(* approveCredential and rejectCredential: the credential is read as       *)
(* PENDING before the transaction, which writes it by its id alone.        *)
(* The verdict on documents (WorkerVerification) is here what it writes.   *)

ReviewArrives(s, op, k) ==
  /\ row[k] = "PENDING"
  /\ Arrive(s, op, k, "verdict")
  /\ UNCHANGED <<disk, writing, row, avatar, script>> /\ NoFault
\* Variant: the endpoint's name is stored for the status.
Verdict_Name(s) ==
  /\ req[s].step = "verdict"
  /\ row' = [row EXCEPT ![req[s].key] = req[s].op]
  /\ Done(s)
  /\ UNCHANGED <<disk, writing, avatar, script>> /\ NoFault
Verdict(s) ==
  /\ req[s].step = "verdict"
  /\ row' = [row EXCEPT ![req[s].key] = IF req[s].op = "approve" THEN "APPROVED" ELSE "REJECTED"]
  /\ Done(s)
  /\ UNCHANGED <<disk, writing, avatar, script>> /\ NoFault

DocumentVerdict(k) ==
  /\ row[k] = "PENDING" /\ script.state = "off"
  /\ row' \in {[row EXCEPT ![k] = st] : st \in {"APPROVED", "REJECTED"}}
  /\ UNCHANGED <<disk, writing, avatar, req, script>> /\ NoFault

-----------------------------------------------------------------------------
(* GET /uploads/*path by the worker or an administrator: a row must name   *)
(* the file (assertCanReadProtectedFile); then it is read and decrypted.   *)

Decrypted(content) ==
  CASE content \in {"plain", "sealed"} -> "as sent"
    [] content = "absent"            -> "not found"
    [] OTHER                         -> "damaged"
Serve(f) == IF f \in Protected /\ row[f[1]] = "NONE" THEN "not found" ELSE Decrypted(disk[f])

-----------------------------------------------------------------------------
(* encrypt-existing-uploads: one directory after the other, it lists the   *)
(* files, reads each and rewrites in place those that are not encrypted.   *)
(* It is run with the server stopped; --dry-run, which writes nothing, is  *)
(* left out.                                                               *)

Directory(d) == IF d = "verification" THEN UNION {FilesOf(k) : k \in Docs}
                                      ELSE UNION {FilesOf(k) : k \in Credentials}

ScriptStarts ==
  /\ script.state = "off"
  /\ writing = {} /\ \A s \in Slots : req[s] = Idle
  /\ script' = [Off EXCEPT !.state = "walk", !.dirs = Directories]
  /\ UNCHANGED <<disk, writing, row, avatar, req>> /\ NoFault

\* Variant: the credentials are forgotten.
ScriptWalks_OneDir ==
  /\ script.state = "walk" /\ script.todo = {} /\ "verification" \in script.dirs
  /\ script' = [script EXCEPT !.dirs = {},
                  !.todo = {f \in Directory("verification") : disk[f] # "absent"}]
  /\ UNCHANGED <<disk, writing, row, avatar, req>> /\ NoFault
NextDirectory == IF "verification" \in script.dirs THEN "verification" ELSE "credentials"
ScriptWalks ==
  /\ script.state = "walk" /\ script.todo = {} /\ script.dirs # {}
  /\ LET d == NextDirectory
     IN  script' = [script EXCEPT !.dirs = @ \ {d}, !.todo = {f \in Directory(d) : disk[f] # "absent"}]
  /\ UNCHANGED <<disk, writing, row, avatar, req>> /\ NoFault

\* A failed readdir, of the directory or of the worker's part of it, is taken for an
\* empty one (the catch of walk): the script goes on without the files.
ScriptListFails ==
  /\ script.state = "walk" /\ script.todo = {} /\ script.dirs # {}
  /\ LET d == NextDirectory
     IN  script' = [script EXCEPT !.dirs = @ \ {d}, !.unlisted = @ \cup {d}]
  /\ Fault({})
  /\ UNCHANGED <<disk, writing, row, avatar, req>>

\* isEncrypted: a torn file may already carry the whole header, or not.
Encrypted(c) == CASE c \in {"sealed", "garbled"} -> {TRUE}
                  [] c = "torn" -> BOOLEAN
                  [] OTHER -> {FALSE}

ScriptReads(f) ==
  /\ script.state = "walk" /\ f \in script.todo
  /\ IF disk[f] = "absent"
     THEN script' = Off                                \* readFile throws, exit(1)
     ELSE \E skip \in Encrypted(disk[f]) :
            script' = [script EXCEPT !.todo = @ \ {f},
                         !.state = IF skip THEN "walk" ELSE "truncate",
                         !.file = IF skip THEN NoFile ELSE f,
                         !.saw = IF skip THEN "absent" ELSE disk[f]]
  /\ UNCHANGED <<disk, writing, row, avatar, req>> /\ NoFault

ScriptTruncates ==
  /\ script.state = "truncate"
  /\ disk' = [disk EXCEPT ![script.file] = "torn"]
  /\ script' = [script EXCEPT !.state = "rewrite"]
  /\ UNCHANGED <<writing, row, avatar, req>> /\ NoFault

ScriptRewrites ==
  /\ script.state = "rewrite"
  /\ disk' = [disk EXCEPT ![script.file] = IF script.saw = "plain" THEN "sealed" ELSE "garbled"]
  /\ script' = [script EXCEPT !.state = "walk", !.file = NoFile, !.saw = "absent"]
  /\ UNCHANGED <<writing, row, avatar, req>> /\ NoFault

ScriptEnds ==
  /\ script.state = "walk" /\ script.todo = {} /\ script.dirs = {}
  /\ script' = Off
  /\ UNCHANGED <<disk, writing, row, avatar, req>> /\ NoFault

\* Killed between two files, or in the middle of one, which is then spoilt: by the
\* operator, or by itself when readFile or writeFile throws (exit 1).
ScriptKilled ==
  /\ script.state # "off"
  /\ Fault(IF script.state = "rewrite" THEN {script.file[1]} ELSE {})
  /\ script' = Off
  /\ UNCHANGED <<disk, writing, row, avatar, req>>

\* A restart of the server: requests are gone, whatever they had written stays, and
\* of what they were writing a part.
Crash ==
  /\ \E s \in Slots : req[s] # Idle
  /\ Fault((InFlight \cup {f[1] : f \in writing}) \ {NoKey})
  /\ req' = [s \in Slots |-> Idle]
  /\ writing' = {}
  /\ \E begun \in SUBSET writing : disk' = [f \in Files |-> IF f \in begun THEN "torn" ELSE disk[f]]
  /\ UNCHANGED <<row, avatar, script>>

-----------------------------------------------------------------------------
Handle(s)   == Checks(s) \/ Inserts(s) \/ Unlinks(s) \/ AvatarSet(s) \/ Verdict(s)
Arrivals(s) ==
  \/ \E op \in {"submit", "upload", "avatar"}, k \in Keys : UploadArrives(s, op, k)
  \/ \E op \in {"approve", "reject"}, k \in Credentials : ReviewArrives(s, op, k)
Failures ==
  \/ \E f \in Files : WriteFails(f)
  \/ \E s \in Slots : InsertFails(s) \/ UnlinkFails(s) \/ AvatarFails(s)
  \/ ScriptListFails \/ ScriptKilled \/ Crash
Script ==
  \/ ScriptStarts \/ ScriptWalks \/ ScriptTruncates \/ ScriptRewrites \/ ScriptEnds
  \/ \E f \in Files : ScriptReads(f)

Next ==
  \/ \E f \in Files : WriteEnds(f)
  \/ \E k \in Docs : DocumentVerdict(k)
  \/ \E s \in Slots : Arrivals(s) \/ Handle(s)
  \/ Failures \/ Script

Spec == Init /\ [][Next]_vars

-----------------------------------------------------------------------------
(* Correctness.                                                            *)

\* Every row, file and request in flight keeps its shape.
TypeOK ==
  /\ disk \in [Files -> Content]
  /\ writing \subseteq Files
  /\ row \in [Docs \cup Credentials -> Status]
  /\ avatar \in Avatars \cup {NoKey}
  /\ req \in [Slots -> Request]
  /\ script \in ScriptRun
  /\ faults \in 0..MaxFaults
  /\ spoilt \subseteq Keys

\* Whoever may see a file that a row or the profile names is given what the worker
\* sent, whichever writes, refusals, failures and restarts came before - but for the
\* one file that the script is rewriting or was killed at (submitVerification,
\* uploadCredential and uploadAvatar write first and name later; only a refused upload
\* is removed; encrypt-existing-uploads rewrites in place).
RowsReadable ==
  /\ \A f \in Protected : row[f[1]] # "NONE" =>
       \/ Serve(f) = "as sent"
       \/ script.state = "rewrite" /\ script.file = f
       \/ f[1] \in spoilt \cap Legacy
  /\ avatar # NoKey => \A f \in FilesOf(avatar) : Serve(f) = "as sent"

\* A request that met no failure leaves no file behind that nothing names: refused
\* submissions and credentials are removed from the disk (the catch of
\* submitVerification and of uploadCredential).
NothingLeftBehind ==
  \A f \in Protected :
    disk[f] # "absent" /\ row[f[1]] = "NONE" /\ ~Taken(f[1]) => f[1] \in spoilt

\* `Maximum 5 active credentials' (UGNAY_API_HANDOUT.md:843) is not kept: uploads that
\* counted together and approvals that arrive after a rejection carry the count past
\* it.  What is kept: it passes the limit by no more than the other requests in flight
\* (assertActiveCredentialCountUnder, reviewCredential).
CapOvershoot == Cardinality(Active) <= MaxActive + Cardinality(Slots) - 1

\* Only what is older than encryption is ever plaintext among the protected files, and
\* when the script ends, with `Done' and exit 0, nothing is but what lies in a
\* directory whose listing failed in this run (encrypt-existing-uploads).
NoPlaintextLeft ==
  \A f \in Protected : disk[f] = "plain" =>
    /\ f[1] \in Legacy
    /\ script.state = "walk" /\ script.todo = {} /\ script.dirs = {} =>
         \E d \in script.unlisted : f \in Directory(d)
=============================================================================
