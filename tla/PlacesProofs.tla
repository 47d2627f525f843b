---------------------------- MODULE PlacesProofs ----------------------------
(***************************************************************************)
(* Theorems about Places, for any number of barangays, synchronisations    *)
(* and updates.                                                            *)
(***************************************************************************)
EXTENDS Places, TLAPS

USE NothingAssumption

(***************************************************************************)
(* Lists.                                                                  *)
(***************************************************************************)

Place == [code : Codes, name : Names]

LEMMA ListPlaces == ASSUME NEW list \in Lists PROVE list \subseteq Place
  BY DEF Lists, Place

LEMMA ListDistinct ==
  ASSUME NEW list \in Lists, NEW p \in list, NEW q \in list, p.code = q.code \/ p.name = q.name
  PROVE  p = q
  BY DEF Lists

LEMMA SubList == ASSUME NEW list \in Lists, NEW some \in SUBSET list PROVE some \in Lists
  BY DEF Lists

LEMMA NoList == {} \in Lists
  BY DEF Lists

(***************************************************************************)
(* Types.                                                                  *)
(***************************************************************************)

LEMMA IdleRun == RunIdle \in Run
  BY NoList DEF RunIdle, Run

LEMMA IdleUpdate == UpdateIdle \in Update
  BY DEF UpdateIdle, Update

LEMMA NewRun ==
  ASSUME NEW list \in Lists, NEW b \in BOOLEAN
  PROVE  [RunIdle EXCEPT !.step = "find", !.list = list, !.todo = list, !.alone = b] \in Run
  BY NoList DEF RunIdle, Run

LEMMA RunCrossed == ASSUME NEW r \in Run PROVE [r EXCEPT !.alone = FALSE] \in Run
  BY DEF Run

LEMMA RunFound ==
  ASSUME NEW r \in Run, NEW p \in Place, NEW found \in Rows \cup {NoRow}
  PROVE  [r EXCEPT !.step = "write", !.place = p, !.found = found] \in Run
  BY DEF Run, Place

LEMMA RunWrote ==
  ASSUME NEW r \in Run, NEW todo \in Lists
  PROVE  [r EXCEPT !.step = "find", !.todo = todo, !.place = NoPlace, !.found = NoRow] \in Run
  BY DEF Run

LEMMA UpdateNext ==
  ASSUME NEW r \in Update, NEW st \in {"idle", "delete", "insert", "commit"}
  PROVE  [r EXCEPT !.step = st] \in Update
  BY DEF Update

LEMMA UpdateSees ==
  ASSUME NEW r \in Update, NEW seen \in SUBSET Rows
  PROVE  [r EXCEPT !.seen = seen] \in Update
  BY DEF Update

LEMMA UpdateCrossed == ASSUME NEW r \in Update PROVE [r EXCEPT !.alone = FALSE] \in Update
  BY DEF Update

LEMMA RowWritten ==
  ASSUME PlacesTypeOK, NEW r \in Rows, NEW p \in Place \cup {NoPlace}, NEW b \in BOOLEAN, Admits(r, p),
         barangay' = [barangay EXCEPT ![r] = [code |-> p.code, name |-> p.name, active |-> b]]
  PROVE  barangay' \in [Rows -> Barangay] /\ UniqueKeys'
<1>1. [code |-> p.code, name |-> p.name, active |-> b] \in Barangay
  BY DEF Place, NoPlace, Barangay
<1>2. barangay' \in [Rows -> Barangay]
  BY <1>1 DEF PlacesTypeOK
<1>3. barangay'[r].code = p.code /\ barangay'[r].name = p.name
      /\ \A q \in Rows \ {r} : barangay'[q] = barangay[q]
  BY DEF PlacesTypeOK
<1>4. UniqueKeys
  BY DEF PlacesTypeOK
<1>5. UniqueKeys'
  BY <1>3, <1>4 DEF UniqueKeys, Exists, Admits
<1> QED
  BY <1>2, <1>5

\* Every row, list, run and update keeps its shape, and codes and names stay unique.
THEOREM TypeCorrect == Spec => []PlacesTypeOK
<1>1. Init => PlacesTypeOK
  <2> SUFFICES ASSUME Init PROVE PlacesTypeOK
    OBVIOUS
  <2>1. run \in [Runs -> Run] /\ update \in [Updates -> Update]
    BY IdleRun, IdleUpdate DEF Init
  <2>2. areas \subseteq Rows
    BY DEF Init, Listed
  <2> QED
    BY <2>1, <2>2 DEF Init, PlacesTypeOK, UniqueKeys, Exists
<1>2. PlacesTypeOK /\ [Next]_vars => PlacesTypeOK'
  <2> SUFFICES ASSUME PlacesTypeOK, [Next]_vars PROVE PlacesTypeOK'
    OBVIOUS
  <2>0. /\ barangay \in [Rows -> Barangay] /\ UniqueKeys
        /\ run \in [Runs -> Run]
        /\ areas \subseteq Rows /\ update \in [Updates -> Update] /\ settled \in BOOLEAN
    BY DEF PlacesTypeOK
  <2>same. UNCHANGED barangay => UniqueKeys'
    BY <2>0 DEF UniqueKeys, Exists
  <2>1. ASSUME NEW x \in Runs, Writes(x) PROVE PlacesTypeOK'
    <3>1. PICK r \in Targets(x) :
            /\ Admits(r, run[x].place)
            /\ barangay' = [barangay EXCEPT ![r] = [code |-> run[x].place.code, name |-> run[x].place.name,
                                                    active |-> TRUE]]
      BY <2>1 DEF Writes
    <3>2. run[x] \in Run /\ run[x].place \in Place \cup {NoPlace} /\ r \in Rows
      BY <2>0, <3>1 DEF Run, Place, Targets
    <3>3. barangay' \in [Rows -> Barangay] /\ UniqueKeys'
      BY <3>1, <3>2, RowWritten
    <3>4. run[x].todo \ {run[x].place} \in Lists
      BY <3>2, SubList DEF Run
    <3>5. [run[x] EXCEPT !.step = "find", !.todo = run[x].todo \ {run[x].place},
                         !.place = NoPlace, !.found = NoRow] \in Run
      BY <3>2, <3>4, RunWrote
    <3>6. run' \in [Runs -> Run]
      BY <2>0, <2>1, <3>5 DEF Writes
    <3> QED
      BY <2>0, <2>same, <2>1, <3>3, <3>6 DEF Writes, PlacesTypeOK
  <2>2. ASSUME NEW x \in Runs, WriteConflicts(x) \/ RunCrashes(x) PROVE PlacesTypeOK'
    BY <2>0, <2>same, <2>2, IdleRun DEF WriteConflicts, RunCrashes, PlacesTypeOK
  <2>3. ASSUME NEW x \in Runs, Deactivates(x) PROVE PlacesTypeOK'
    <3> DEFINE off(r) == barangay[r].code # NoCode /\ \A p \in run[x].list : p.code # barangay[r].code
    <3>1. barangay' = [r \in Rows |-> IF off(r) THEN [barangay[r] EXCEPT !.active = FALSE] ELSE barangay[r]]
      BY <2>3 DEF Deactivates
    <3> HIDE DEF off
    <3>2. \A r \in Rows : /\ barangay'[r] \in Barangay
                          /\ barangay'[r].code = barangay[r].code /\ barangay'[r].name = barangay[r].name
      BY <2>0, <3>1 DEF Barangay
    <3>3. barangay' \in [Rows -> Barangay]
      BY <3>1, <3>2
    <3>4. UniqueKeys'
      BY <2>0, <3>2 DEF UniqueKeys, Exists
    <3> QED
      BY <2>0, <2>same, <2>3, <3>3, <3>4, IdleRun DEF Deactivates, PlacesTypeOK
  <2>4. ASSUME NEW x \in Runs, NEW p \in run[x].todo, Finds(x, p) PROVE PlacesTypeOK'
    <3>1. run[x] \in Run /\ p \in Place
      BY <2>0, ListPlaces DEF Run
    <3>2. PICK found \in Rows \cup {NoRow} :
            run' = [run EXCEPT ![x] = [run[x] EXCEPT !.step = "write", !.place = p, !.found = found]]
      BY <2>4 DEF Finds
    <3>3. run' \in [Runs -> Run]
      BY <2>0, <3>1, <3>2, RunFound
    <3> QED
      BY <2>0, <2>same, <2>4, <3>3 DEF Finds, PlacesTypeOK
  <2>5. ASSUME NEW x \in Runs, NEW list \in Lists, Fetches(x, list) PROVE PlacesTypeOK'
    <3> DEFINE new == [RunIdle EXCEPT !.step = "find", !.list = list, !.todo = list, !.alone = Alone(x)]
    <3>1. new \in Run
      BY NewRun DEF Alone
    <3>2. \A y \in Runs : [run[y] EXCEPT !.alone = FALSE] \in Run
      BY <2>0, RunCrossed
    <3>3. run' = [y \in Runs |-> IF y = x THEN new ELSE [run[y] EXCEPT !.alone = FALSE]]
      BY <2>5 DEF Fetches
    <3> HIDE DEF new
    <3>4. run' \in [Runs -> Run]
      BY <3>1, <3>2, <3>3
    <3> QED
      BY <2>0, <2>same, <2>5, <3>4 DEF Fetches, PlacesTypeOK
  <2>6. ASSUME NEW u \in Updates, NEW wants \in SUBSET Rows, Asks(u, wants) PROVE PlacesTypeOK'
    <3> DEFINE alone == \A v \in Updates : v # u => update[v].step = "idle"
               new == [step |-> "delete", wants |-> wants, seen |-> areas, alone |-> alone]
    <3>1. new \in Update
      BY <2>0 DEF Update
    <3>2. \A v \in Updates : [update[v] EXCEPT !.alone = FALSE] \in Update
      BY <2>0, UpdateCrossed
    <3>3. update' = [v \in Updates |-> IF v = u THEN new ELSE [update[v] EXCEPT !.alone = FALSE]]
      BY <2>6 DEF Asks
    <3> HIDE DEF new
    <3>4. update' \in [Updates -> Update]
      BY <3>1, <3>2, <3>3
    <3> QED
      BY <2>0, <2>same, <2>6, <3>4 DEF Asks, PlacesTypeOK
  <2>7. ASSUME NEW u \in Updates, Deletes(u) \/ Inserts(u) PROVE PlacesTypeOK'
    <3>1. PICK st \in {"insert", "commit"} : update' = [update EXCEPT ![u] = [update[u] EXCEPT !.step = st]]
      BY <2>7 DEF Deletes, Inserts
    <3>2. update' \in [Updates -> Update]
      BY <2>0, <3>1, UpdateNext
    <3> QED
      BY <2>0, <2>same, <2>7, <3>2 DEF Deletes, Inserts, PlacesTypeOK
  <2>8. ASSUME NEW u \in Updates, InsertConflicts(u) \/ Aborts(u) PROVE PlacesTypeOK'
    BY <2>0, <2>same, <2>8, IdleUpdate DEF InsertConflicts, Aborts, PlacesTypeOK
  <2>9. ASSUME NEW u \in Updates, Commits(u) PROVE PlacesTypeOK'
    <3>1. \A v \in Updates : [update[v] EXCEPT !.seen = @ \ update[u].seen] \in Update
      <4> TAKE v \in Updates
      <4>1. update[v] \in Update /\ update[v].seen \ update[u].seen \in SUBSET Rows
        BY <2>0 DEF Update
      <4> QED
        BY <4>1, UpdateSees
    <3>2. update' = [v \in Updates |-> IF v = u THEN UpdateIdle ELSE [update[v] EXCEPT !.seen = @ \ update[u].seen]]
      BY <2>9 DEF Commits
    <3>3. update' \in [Updates -> Update]
      BY <3>1, <3>2, IdleUpdate
    <3>4. update[u] \in Update
      BY <2>0
    <3>5. areas' \subseteq Rows /\ settled' \in BOOLEAN
      BY <2>0, <2>9, <3>4 DEF Commits, Update
    <3> QED
      BY <2>0, <2>same, <2>9, <3>3, <3>5 DEF Commits, PlacesTypeOK
  <2>10. CASE UNCHANGED vars
    BY <2>0, <2>same, <2>10 DEF vars, PlacesTypeOK
  <2> QED
    BY <2>1, <2>2, <2>3, <2>4, <2>5, <2>6, <2>7, <2>8, <2>9, <2>10 DEF Next, Sync, UpdateProfile
<1> QED
  BY <1>1, <1>2, PTL DEF Spec

(***************************************************************************)
(* The service areas.                                                      *)
(***************************************************************************)

\* An update that is alone has seen all areas there are, and whoever commits brings
\* between one area and the limit.
UpdatesInv ==
  \A u \in Updates :
    /\ update[u].step # "idle" => update[u].wants # {} /\ Cardinality(update[u].wants) <= MaxAreas
    /\ update[u].alone =>
         /\ update[u].step # "idle" /\ update[u].seen = areas
         /\ \A v \in Updates : v # u => update[v].step = "idle"

\* A worker always has an area, and no more than the limit unless updates crossed.
THEOREM AreasKept == Spec => []AreasBounded
<1> DEFINE IInv == UpdatesInv /\ AreasBounded
<1>1. Init => IInv
  BY DEF Init, UpdatesInv, AreasBounded, UpdateIdle
<1>2. PlacesTypeOK /\ IInv /\ [Next]_vars => IInv'
  <2> SUFFICES ASSUME PlacesTypeOK, IInv, [Next]_vars PROVE IInv'
    OBVIOUS
  <2>0. update \in [Updates -> Update]
    BY DEF PlacesTypeOK
  <2>1. ASSUME UNCHANGED <<areas, update, settled>> PROVE IInv'
    BY <2>1 DEF UpdatesInv, AreasBounded
  <2>2. ASSUME NEW x \in Runs, Sync(x) PROVE IInv'
    BY <2>1, <2>2 DEF Sync, Writes, WriteConflicts, Deactivates, RunCrashes, Finds, Fetches
  <2>3. ASSUME NEW u \in Updates, NEW wants \in SUBSET Rows, Asks(u, wants) PROVE IInv'
    <3>1. /\ wants # {} /\ Cardinality(wants) <= MaxAreas /\ UNCHANGED <<areas, settled>>
          /\ update'[u].step = "delete" /\ update'[u].wants = wants /\ update'[u].seen = areas
          /\ update'[u].alone => \A v \in Updates : v # u => update[v].step = "idle"
      BY <2>3 DEF Asks
    <3>2. \A v \in Updates : v # u => update'[v] = [update[v] EXCEPT !.alone = FALSE]
      BY <2>3 DEF Asks
    <3>3. \A v \in Updates : v # u =>
            /\ update'[v].step = update[v].step /\ update'[v].wants = update[v].wants
            /\ update'[v].alone = FALSE
      <4> SUFFICES ASSUME NEW v \in Updates, v # u
                   PROVE  /\ update'[v].step = update[v].step /\ update'[v].wants = update[v].wants
                          /\ update'[v].alone = FALSE
        OBVIOUS
      <4>1. update[v] \in Update
        BY <2>0
      <4> QED
        BY <3>2, <4>1 DEF Update
    <3> QED
      BY <3>1, <3>3 DEF UpdatesInv, AreasBounded
  <2>4. ASSUME NEW u \in Updates, Deletes(u) \/ Inserts(u) PROVE IInv'
    <3>1. PICK st \in {"insert", "commit"} :
            /\ update' = [update EXCEPT ![u] = [update[u] EXCEPT !.step = st]]
            /\ update[u].step # "idle" /\ UNCHANGED <<areas, settled>>
      BY <2>4 DEF Deletes, Inserts
    <3>2. /\ update'[u].step = st /\ update'[u].wants = update[u].wants
          /\ update'[u].seen = update[u].seen /\ update'[u].alone = update[u].alone
          /\ \A v \in Updates : v # u => update'[v] = update[v]
      BY <2>0, <3>1 DEF Update
    <3> QED
      BY <3>1, <3>2 DEF UpdatesInv, AreasBounded
  <2>5. ASSUME NEW u \in Updates, InsertConflicts(u) \/ Aborts(u) PROVE IInv'
    <3>1. /\ update'[u].step = "idle" /\ update'[u].alone = FALSE
          /\ \A v \in Updates : v # u => update'[v] = update[v]
          /\ UNCHANGED <<areas, settled>>
      BY <2>0, <2>5 DEF InsertConflicts, Aborts, UpdateIdle
    <3> QED
      BY <3>1 DEF UpdatesInv, AreasBounded
  <2>6. ASSUME NEW u \in Updates, Commits(u) PROVE IInv'
    <3>1. /\ update[u].step = "commit" /\ areas' = (areas \ update[u].seen) \cup update[u].wants
          /\ settled' = update[u].alone
          /\ update'[u].step = "idle" /\ update'[u].alone = FALSE
      BY <2>6 DEF Commits, UpdateIdle
    <3>2. \A v \in Updates : v # u => update'[v] = [update[v] EXCEPT !.seen = @ \ update[u].seen]
      BY <2>6 DEF Commits
    <3>3. \A v \in Updates : v # u =>
            /\ update'[v].step = update[v].step /\ update'[v].wants = update[v].wants
            /\ update'[v].alone = update[v].alone
      <4> SUFFICES ASSUME NEW v \in Updates, v # u
                   PROVE  /\ update'[v].step = update[v].step /\ update'[v].wants = update[v].wants
                          /\ update'[v].alone = update[v].alone
        OBVIOUS
      <4>1. update[v] \in Update
        BY <2>0
      <4> QED
        BY <3>2, <4>1 DEF Update
    <3>4. \A v \in Updates : v # u => ~update[v].alone
      BY <3>1 DEF UpdatesInv
    <3>5. UpdatesInv'
      BY <3>1, <3>3, <3>4 DEF UpdatesInv
    <3>6. update[u].alone => areas' = update[u].wants
      BY <3>1 DEF UpdatesInv
    <3>7. AreasBounded'
      BY <3>1, <3>6 DEF UpdatesInv, AreasBounded
    <3> QED
      BY <3>5, <3>7
  <2>7. CASE UNCHANGED vars
    BY <2>1, <2>7 DEF vars
  <2> QED
    BY <2>2, <2>3, <2>4, <2>5, <2>6, <2>7 DEF Next, UpdateProfile
<1>3. IInv => AreasBounded
  OBVIOUS
<1> QED
  BY <1>1, <1>2, <1>3, TypeCorrect, PTL DEF Spec

(***************************************************************************)
(* The synchronisation.                                                    *)
(***************************************************************************)

LEMMA PlaceRecord == ASSUME NEW p \in Place PROVE p = [code |-> p.code, name |-> p.name]
  BY DEF Place

Placed(p) ==
  \E r \in Rows : barangay[r].code = p.code /\ barangay[r].name = p.name /\ barangay[r].active

\* What a synchronisation that nobody crossed has dealt with is in the table, and the
\* row it is about to write is still one that has the code or the name at hand.
RunsInv ==
  \A x \in Runs : run[x].alone =>
    /\ run[x].step # "idle" /\ Alone(x)
    /\ \A p \in run[x].list \ run[x].todo : Placed(p)
    /\ run[x].todo \subseteq run[x].list
    /\ run[x].step = "write" =>
         /\ run[x].place \in run[x].todo
         /\ \A r \in Targets(x) : Exists(r) =>
              barangay[r].code = run[x].place.code \/ barangay[r].name = run[x].place.name

LEMMA RunsInvInit == Init => RunsInv
  BY DEF Init, RunsInv, RunIdle

\* A write replaces no row that this synchronisation has written before.
LEMMA WriteKeepsPlaced ==
  ASSUME PlacesTypeOK, RunsInv, NEW x \in Runs, run[x].alone, Writes(x)
  PROVE  \A p \in run[x].list \ (run[x].todo \ {run[x].place}) : Placed(p)'
<1>1. PICK r \in Targets(x) :
        barangay' = [barangay EXCEPT ![r] = [code |-> run[x].place.code, name |-> run[x].place.name,
                                             active |-> TRUE]]
  BY DEF Writes
<1>2. r \in Rows /\ barangay'[r].code = run[x].place.code /\ barangay'[r].name = run[x].place.name
      /\ barangay'[r].active /\ \A q \in Rows \ {r} : barangay'[q] = barangay[q]
  BY <1>1 DEF PlacesTypeOK, Targets, Run
<1>3. run[x].step = "write" /\ run[x].place \in run[x].todo /\ run[x].todo \subseteq run[x].list
      /\ run[x].list \in Lists
  BY DEF Writes, RunsInv, PlacesTypeOK, Run
<1> SUFFICES ASSUME NEW p \in run[x].list \ (run[x].todo \ {run[x].place}) PROVE Placed(p)'
  OBVIOUS
<1>4. CASE p = run[x].place
  BY <1>2, <1>4 DEF Placed
<1>5. CASE p # run[x].place
  <2>1. PICK q \in Rows : barangay[q].code = p.code /\ barangay[q].name = p.name /\ barangay[q].active
    BY <1>5 DEF RunsInv, Placed
  <2>2. p \in Place /\ Exists(q)
    BY <1>3, <2>1, ListPlaces DEF Place, Exists
  <2>3. q # r
    <3> SUFFICES ASSUME q = r PROVE FALSE
      OBVIOUS
    <3>1. p.code = run[x].place.code \/ p.name = run[x].place.name
      BY <1>3, <2>1, <2>2 DEF RunsInv
    <3> QED
      BY <1>3, <1>5, <3>1, ListDistinct
  <2> QED
    BY <1>2, <2>1, <2>3 DEF Placed
<1> QED
  BY <1>4, <1>5

LEMMA RunsInvStep ==
  ASSUME PlacesTypeOK, RunsInv, [Next]_vars
  PROVE  RunsInv'
<1>0. run \in [Runs -> Run]
  BY DEF PlacesTypeOK
<1>1. ASSUME UNCHANGED <<barangay, run>> PROVE RunsInv'
  BY <1>1 DEF RunsInv, Alone, Placed, Targets, Exists
\* A synchronisation that ends: the others were not alone, or it was not there.
<1>2. ASSUME NEW x \in Runs, run[x].step # "idle", run' = [run EXCEPT ![x] = RunIdle] PROVE RunsInv'
  <2>1. \A y \in Runs : ~run'[y].alone
    BY <1>0, <1>2 DEF RunsInv, Alone, RunIdle
  <2> QED
    BY <2>1 DEF RunsInv
<1>3. ASSUME NEW x \in Runs, Writes(x) PROVE RunsInv'
  <2>1. run[x] \in Run /\ run[x].step = "write"
    BY <1>0, <1>3 DEF Writes
  <2>2. /\ run'[x].step = "find" /\ run'[x].todo = run[x].todo \ {run[x].place}
        /\ run'[x].list = run[x].list /\ run'[x].alone = run[x].alone
        /\ \A y \in Runs : y # x => run'[y] = run[y]
    BY <1>0, <1>3, <2>1 DEF Writes, Run
  <2>3. \A y \in Runs : y # x => ~run'[y].alone
    BY <2>1, <2>2 DEF RunsInv, Alone
  <2>4. run[x].alone => \A p \in run'[x].list \ run'[x].todo : Placed(p)'
    BY <1>3, <2>2, WriteKeepsPlaced
  <2>5. run[x].alone => Alone(x)'
    BY <2>2 DEF RunsInv, Alone
  <2>6. run[x].alone => run'[x].todo \subseteq run'[x].list
    BY <2>2 DEF RunsInv
  <2> QED
    BY <2>2, <2>3, <2>4, <2>5, <2>6 DEF RunsInv
<1>4. ASSUME NEW x \in Runs, NEW p \in run[x].todo, Finds(x, p) PROVE RunsInv'
  <2> DEFINE rows == {r \in Rows : Exists(r) /\ (barangay[r].code = p.code \/ barangay[r].name = p.name)}
  <2>1. PICK found \in IF rows = {} THEN {NoRow} ELSE rows :
          run' = [run EXCEPT ![x] = [run[x] EXCEPT !.step = "write", !.place = p, !.found = found]]
    BY <1>4 DEF Finds
  <2>2. run[x] \in Run /\ run[x].step = "find" /\ UNCHANGED barangay
    BY <1>0, <1>4 DEF Finds
  <2>3. /\ run'[x].step = "write" /\ run'[x].todo = run[x].todo /\ run'[x].place = p
        /\ run'[x].found = found /\ run'[x].list = run[x].list /\ run'[x].alone = run[x].alone
        /\ \A y \in Runs : y # x => run'[y] = run[y]
    BY <1>0, <2>1, <2>2 DEF Run
  <2>4. \A y \in Runs : y # x => ~run'[y].alone
    BY <2>2, <2>3 DEF RunsInv, Alone
  <2>5. \A r \in Targets(x)' : Exists(r)' => barangay'[r].code = p.code \/ barangay'[r].name = p.name
    BY <2>1, <2>2, <2>3 DEF Targets, Exists
  <2>6. run[x].alone => Alone(x)' /\ \A q \in run'[x].list \ run'[x].todo : Placed(q)'
    BY <2>2, <2>3 DEF RunsInv, Alone, Placed
  <2>7. run[x].alone => run'[x].todo \subseteq run'[x].list
    BY <2>3 DEF RunsInv
  <2> HIDE DEF rows
  <2> QED
    BY <2>3, <2>4, <2>5, <2>6, <2>7 DEF RunsInv
<1>5. ASSUME NEW x \in Runs, NEW list \in Lists, Fetches(x, list) PROVE RunsInv'
  <2>1. /\ run'[x].step = "find" /\ run'[x].list = list /\ run'[x].todo = list
        /\ run'[x].alone = Alone(x)
    BY <1>0, <1>5 DEF Fetches, RunIdle
  <2>2. \A y \in Runs : y # x => run'[y] = [run[y] EXCEPT !.alone = FALSE]
    BY <1>5 DEF Fetches
  <2>3. \A y \in Runs : y # x => run'[y].alone = FALSE /\ run'[y].step = run[y].step
    <3> SUFFICES ASSUME NEW y \in Runs, y # x PROVE run'[y].alone = FALSE /\ run'[y].step = run[y].step
      OBVIOUS
    <3>1. run[y] \in Run /\ run'[y] = [run[y] EXCEPT !.alone = FALSE]
      BY <1>0, <2>2
    <3> QED
      BY <3>1 DEF Run
  <2>4. Alone(x)' <=> Alone(x)
    BY <2>3 DEF Alone
  <2> QED
    BY <2>1, <2>3, <2>4 DEF RunsInv
<1>6. ASSUME NEW x \in Runs, Sync(x) PROVE RunsInv'
  BY <1>2, <1>3, <1>4, <1>5, <1>6 DEF Sync, WriteConflicts, Deactivates, RunCrashes
<1>7. ASSUME NEW u \in Updates, UpdateProfile(u) PROVE RunsInv'
  BY <1>1, <1>7 DEF UpdateProfile, Deletes, Inserts, InsertConflicts, Commits, Aborts, Asks
<1> QED
  BY <1>1, <1>6, <1>7 DEF Next, vars

\* The active barangays after a synchronisation that nobody crossed are its list.
LEMMA ListedAfter ==
  ASSUME PlacesTypeOK, RunsInv, NEW x \in Runs, run[x].alone, Deactivates(x)
  PROVE  {[code |-> barangay'[r].code, name |-> barangay'[r].name] :
            r \in {q \in Rows : barangay'[q].active /\ barangay'[q].code # NoCode}} = run[x].list
<1> DEFINE off(r) == barangay[r].code # NoCode /\ \A p \in run[x].list : p.code # barangay[r].code
           live == {q \in Rows : barangay'[q].active /\ barangay'[q].code # NoCode}
<1>1. \A r \in Rows : /\ barangay'[r].code = barangay[r].code /\ barangay'[r].name = barangay[r].name
                      /\ barangay'[r].active <=> barangay[r].active /\ ~off(r)
  BY DEF Deactivates, PlacesTypeOK, Barangay
<1>2. run[x].list \in Lists /\ \A p \in run[x].list : p \in Place /\ Placed(p)
  BY ListPlaces DEF PlacesTypeOK, Run, RunsInv, Deactivates
<1>3. ASSUME NEW q \in live PROVE [code |-> barangay'[q].code, name |-> barangay'[q].name] \in run[x].list
  <2>1. PICK p \in run[x].list : p.code = barangay[q].code
    BY <1>1
  <2>2. PICK r \in Rows : barangay[r].code = p.code /\ barangay[r].name = p.name
    BY <1>2 DEF Placed
  <2>3. r = q
    BY <1>1, <2>1, <2>2 DEF PlacesTypeOK, UniqueKeys
  <2> QED
    BY <1>1, <1>2, <2>1, <2>2, <2>3, PlaceRecord
<1>4. ASSUME NEW p \in run[x].list
      PROVE  \E q \in live : p = [code |-> barangay'[q].code, name |-> barangay'[q].name]
  <2>1. PICK r \in Rows : barangay[r].code = p.code /\ barangay[r].name = p.name /\ barangay[r].active
    BY <1>2 DEF Placed
  <2>2. p \in Place /\ p.code # NoCode
    BY <1>2 DEF Place
  <2>3. r \in live
    BY <1>1, <2>1, <2>2
  <2> QED
    BY <1>1, <2>1, <2>2, <2>3, PlaceRecord
<1> DEFINE listed == {[code |-> barangay'[r].code, name |-> barangay'[r].name] : r \in live}
<1>5. \A e \in listed : e \in run[x].list
  BY <1>3
<1>6. \A p \in run[x].list : p \in listed
  BY <1>4
<1> HIDE DEF listed
<1>7. listed = run[x].list
  BY <1>5, <1>6
<1> QED
  BY <1>7 DEF listed

\* A synchronisation that ends without having been crossed leaves exactly its list.
THEOREM SynchronisationListed == Spec => FeedListed
<1>1. PlacesTypeOK /\ RunsInv /\ [Next]_vars =>
        [\A x \in Runs : Deactivates(x) /\ run[x].alone =>
           {[code |-> barangay'[r].code, name |-> barangay'[r].name] :
              r \in {q \in Rows : barangay'[q].active /\ barangay'[q].code # NoCode}} = run[x].list]_vars
  BY ListedAfter
<1>2. PlacesTypeOK /\ RunsInv /\ [Next]_vars => RunsInv'
  BY RunsInvStep
<1> QED
  BY <1>1, <1>2, RunsInvInit, TypeCorrect, PTL DEF Spec, FeedListed
=============================================================================
