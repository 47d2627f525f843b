------------------------------- MODULE Places -------------------------------
(***************************************************************************)
(* The barangays, the synchronisation that writes them one by one from the *)
(* list the statistics authority (PSGC) publishes, and the service areas   *)
(* that a worker chooses among them.                                       *)
(*                                                                         *)
(* The synchronisation is no transaction: it finds a row by code or name,  *)
(* then writes it, and both columns are unique.  The worker's update is    *)
(* one, at READ COMMITTED: it deletes the areas it sees and inserts the    *)
(* new ones.  Categories are replaced in the same way in another table.    *)
(***************************************************************************)
EXTENDS Integers, FiniteSets

CONSTANTS
  Rows,     \* ids of barangays
  Codes, Names,
  Runs,     \* synchronisations under way: requests of administrators, the seed
  Updates,  \* profile updates under way
  MaxAreas, \* ArrayMaxSize of serviceAreaBarangayIds
  NoRow, NoCode, NoName

ASSUME NothingAssumption == NoRow \notin Rows /\ NoCode \notin Codes /\ NoName \notin Names
ASSUME AreasAssumption == MaxAreas \in Nat \ {0} /\ IsFiniteSet(Rows)

VARIABLES
  barangay,  \* the table; a row without a name does not exist
  run,       \* syncBarangays
  areas,     \* worker_service_areas of the worker
  update,    \* updateProfile
  settled    \* history: the update that wrote the areas was the only one at it

vars == <<barangay, run, areas, update, settled>>

Barangay == [code : Codes \cup {NoCode}, name : Names \cup {NoName}, active : BOOLEAN]
NoBarangay == [code |-> NoCode, name |-> NoName, active |-> FALSE]

\* The list names no code and no name twice.
Lists == {list \in SUBSET [code : Codes, name : Names] :
            \A p, q \in list : p.code = q.code \/ p.name = q.name => p = q}
NoPlace == [code |-> NoCode, name |-> NoName]

\* place: the entry at hand; found: the row it was found in.
Run == [step : {"idle", "find", "write"}, list : Lists, todo : Lists,
        place : [code : Codes, name : Names] \cup {NoPlace}, found : Rows \cup {NoRow}, alone : BOOLEAN]
RunIdle == [step |-> "idle", list |-> {}, todo |-> {}, place |-> NoPlace, found |-> NoRow, alone |-> FALSE]

\* seen: the areas that the DELETE saw and nobody else has deleted since.
Update == [step : {"idle", "delete", "insert", "commit"},
           wants : SUBSET Rows, seen : SUBSET Rows, alone : BOOLEAN]
UpdateIdle == [step |-> "idle", wants |-> {}, seen |-> {}, alone |-> FALSE]

Exists(r) == barangay[r].name # NoName
Listed == {r \in Rows : barangay[r].active}

\* Barangays entered by name before the first synchronisation have no code.
Init ==
  /\ barangay \in [Rows -> Barangay]
  /\ \A r \in Rows : barangay[r].code = NoCode /\ barangay[r].active = Exists(r)
  /\ \A r, q \in Rows : Exists(r) /\ barangay[r].name = barangay[q].name => r = q
  /\ run = [x \in Runs |-> RunIdle]
  /\ areas \in {a \in SUBSET Listed : a # {} /\ Cardinality(a) <= MaxAreas}
  /\ update = [u \in Updates |-> UpdateIdle]
  /\ settled = TRUE

-----------------------------------------------------------------------------
(* syncBarangays, and its copy in the seed.                                *)

Alone(x) == \A y \in Runs : y # x => run[y].step = "idle"

\* Whatever PSGC has published by now.
Fetches(x, list) ==
  /\ run[x].step = "idle"
  /\ run' = [y \in Runs |->
       IF y = x THEN [RunIdle EXCEPT !.step = "find", !.list = list, !.todo = list, !.alone = Alone(x)]
       ELSE [run[y] EXCEPT !.alone = FALSE]]
  /\ UNCHANGED <<barangay, areas, update, settled>>

\* findFirst: any row that has the code or the name.
Finds(x, p) ==
  /\ run[x].step = "find" /\ p \in run[x].todo
  /\ LET rows == {r \in Rows : Exists(r) /\ (barangay[r].code = p.code \/ barangay[r].name = p.name)}
     IN  \E r \in IF rows = {} THEN {NoRow} ELSE rows :
           run' = [run EXCEPT ![x].step = "write", ![x].place = p, ![x].found = r]
  /\ UNCHANGED <<barangay, areas, update, settled>>

\* Variant: psgcCode is not unique.
Admits_SameCode(r, p) == \A q \in Rows \ {r} : barangay[q].name # p.name
\* The unique keys: no other row may have the code or the name.
Admits(r, p) == \A q \in Rows \ {r} : barangay[q].code # p.code /\ barangay[q].name # p.name
\* The row to write: the one found, or a new one.
Targets(x) == IF run[x].found = NoRow THEN {r \in Rows : ~Exists(r)} ELSE {run[x].found}

\* Variant: a barangay that returns to the list is not activated again.
Writes_NoReactivation(x) ==
  /\ run[x].step = "write"
  /\ \E r \in Targets(x) :
       /\ Admits(r, run[x].place)
       /\ barangay' = [barangay EXCEPT ![r] = [code |-> run[x].place.code, name |-> run[x].place.name,
                                               active |-> @.active \/ ~Exists(r)]]
  /\ run' = [run EXCEPT ![x].step = "find", ![x].todo = @ \ {run[x].place},
                        ![x].place = NoPlace, ![x].found = NoRow]
  /\ UNCHANGED <<areas, update, settled>>
Writes(x) ==
  /\ run[x].step = "write"
  /\ \E r \in Targets(x) :
       /\ Admits(r, run[x].place)
       /\ barangay' = [barangay EXCEPT ![r] = [code |-> run[x].place.code, name |-> run[x].place.name,
                                               active |-> TRUE]]
  /\ run' = [run EXCEPT ![x].step = "find", ![x].todo = @ \ {run[x].place},
                        ![x].place = NoPlace, ![x].found = NoRow]
  /\ UNCHANGED <<areas, update, settled>>

\* P2002: what was written so far stays, nothing is deactivated.
WriteConflicts(x) ==
  /\ run[x].step = "write"
  /\ \E r \in Targets(x) : ~Admits(r, run[x].place)
  /\ run' = [run EXCEPT ![x] = RunIdle]
  /\ UNCHANGED <<barangay, areas, update, settled>>

\* What has a code that the list does not have is deactivated.
Deactivates(x) ==
  /\ run[x].step = "find" /\ run[x].todo = {}
  /\ barangay' = [r \in Rows |->
       IF barangay[r].code # NoCode /\ \A p \in run[x].list : p.code # barangay[r].code
       THEN [barangay[r] EXCEPT !.active = FALSE] ELSE barangay[r]]
  /\ run' = [run EXCEPT ![x] = RunIdle]
  /\ UNCHANGED <<areas, update, settled>>

RunCrashes(x) ==
  /\ run[x].step # "idle"
  /\ run' = [run EXCEPT ![x] = RunIdle]
  /\ UNCHANGED <<barangay, areas, update, settled>>

-----------------------------------------------------------------------------
(* updateProfile with serviceAreaBarangayIds.                              *)

\* assertBarangaysAreValid: all active, before the transaction.  Its DELETE sees the
\* committed areas, and waits for those that another update has deleted; if that one
\* commits they are gone, and what it inserted is not seen.
Asks(u, wants) ==
  /\ update[u].step = "idle"
  /\ wants \subseteq Listed /\ wants # {} /\ Cardinality(wants) <= MaxAreas
  /\ LET alone == \A v \in Updates : v # u => update[v].step = "idle"
     IN  update' = [v \in Updates |->
           IF v = u THEN [step |-> "delete", wants |-> wants, seen |-> areas, alone |-> alone]
           ELSE [update[v] EXCEPT !.alone = FALSE]]
  /\ UNCHANGED <<barangay, run, areas, settled>>

Locked(u) == UNION {update[v].seen : v \in {w \in Updates \ {u} : update[w].step \in {"insert", "commit"}}}

\* Variant: the DELETE is its own transaction.
Deletes_Commits(u) ==
  /\ update[u].step = "delete" /\ update[u].seen \cap Locked(u) = {}
  /\ areas' = areas \ update[u].seen
  /\ update' = [v \in Updates |->
       IF v = u THEN [update[v] EXCEPT !.step = "insert", !.seen = {}]
       ELSE [update[v] EXCEPT !.seen = @ \ update[u].seen]]
  /\ UNCHANGED <<barangay, run, settled>>
Deletes(u) ==
  /\ update[u].step = "delete" /\ update[u].seen \cap Locked(u) = {}
  /\ update' = [update EXCEPT ![u].step = "insert"]
  /\ UNCHANGED <<barangay, run, areas, settled>>

\* Another update has inserted the same area and not yet committed.
InsertWaits(u) == \E v \in Updates \ {u} : update[v].step = "commit" /\ update[v].wants \cap update[u].wants # {}

Inserts(u) ==
  /\ update[u].step = "insert" /\ ~InsertWaits(u)
  /\ update[u].wants \cap (areas \ update[u].seen) = {}
  /\ update' = [update EXCEPT ![u].step = "commit"]
  /\ UNCHANGED <<barangay, run, areas, settled>>

\* P2002: the transaction is rolled back.
InsertConflicts(u) ==
  /\ update[u].step = "insert" /\ ~InsertWaits(u)
  /\ update[u].wants \cap (areas \ update[u].seen) # {}
  /\ update' = [update EXCEPT ![u] = UpdateIdle]
  /\ UNCHANGED <<barangay, run, areas, settled>>

Commits(u) ==
  /\ update[u].step = "commit"
  /\ areas' = (areas \ update[u].seen) \cup update[u].wants
  /\ settled' = update[u].alone
  /\ update' = [v \in Updates |-> IF v = u THEN UpdateIdle ELSE [update[v] EXCEPT !.seen = @ \ update[u].seen]]
  /\ UNCHANGED <<barangay, run>>

Aborts(u) ==
  /\ update[u].step # "idle"
  /\ update' = [update EXCEPT ![u] = UpdateIdle]
  /\ UNCHANGED <<barangay, run, areas, settled>>

-----------------------------------------------------------------------------
Sync(x) ==
  \/ Writes(x) \/ WriteConflicts(x) \/ Deactivates(x) \/ RunCrashes(x)
  \/ \E p \in run[x].todo : Finds(x, p)
  \/ \E list \in Lists : Fetches(x, list)
UpdateProfile(u) ==
  \/ Deletes(u) \/ Inserts(u) \/ InsertConflicts(u) \/ Commits(u) \/ Aborts(u)
  \/ \E wants \in SUBSET Rows : Asks(u, wants)

Next ==
  \/ \E x \in Runs : Sync(x)
  \/ \E u \in Updates : UpdateProfile(u)

Spec == Init /\ [][Next]_vars

-----------------------------------------------------------------------------
(* Correctness.                                                            *)

UniqueKeys ==
  \A r, q \in Rows : r # q =>
    /\ Exists(r) => barangay[r].name # barangay[q].name
    /\ barangay[r].code # NoCode => barangay[r].code # barangay[q].code

\* Every row, list, run and update keeps its shape, and codes and names stay unique.
PlacesTypeOK ==
  /\ barangay \in [Rows -> Barangay]
  /\ run \in [Runs -> Run]
  /\ areas \subseteq Rows
  /\ update \in [Updates -> Update]
  /\ settled \in BOOLEAN
  /\ UniqueKeys

\* A synchronisation that ends, and that no other one crossed, leaves exactly its list
\* among the active barangays that have a code, each under its code and name - also
\* after runs that were cut short (syncBarangays).
FeedListed ==
  [][\A x \in Runs : Deactivates(x) /\ run[x].alone =>
       {[code |-> barangay'[r].code, name |-> barangay'[r].name] :
          r \in {q \in Rows : barangay'[q].active /\ barangay'[q].code # NoCode}} = run[x].list]_vars

\* A worker is never left without an area, and has more than the limit only after
\* updates that crossed, until the next one that does not (updateProfile).
AreasBounded == areas # {} /\ (settled => Cardinality(areas) <= MaxAreas)
=============================================================================
