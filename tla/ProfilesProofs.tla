--------------------------- MODULE ProfilesProofs ---------------------------
(***************************************************************************)
(* Proofs about the profile of a user: files that are ready have their     *)
(* object, imports their file, evidence its import and decisions their     *)
(* evidence, and a version is made of the latest decisions, for any number *)
(* of sessions, files and imports.                                         *)
(***************************************************************************)
EXTENDS Profiles, SequenceTheorems, FiniteSetTheorems, WellFoundedInduction, TLAPS

RowNames == {"version", "active", "assets", "imports", "source", "evidence",
             "decisions", "versions"}

\* The part of the types that the argument needs.
RowsOK(rows) ==
  /\ DOMAIN rows = RowNames
  /\ rows.version \in Nat
  /\ rows.assets \in [Assets -> AssetStatus]
  /\ rows.imports \in [Imports -> ImportStatus]
  /\ DOMAIN rows.source = Imports
  /\ rows.evidence \subseteq Evidence

\* The files and imports that requests name.
RequestOK(r) ==
  /\ DOMAIN r = {"at", "what"}
  /\ r.what.op \in {"upload", "reconcile", "delete", "import"} => r.what.asset \in Assets
  /\ r.what.op = "import" => r.what.import \in Imports
  /\ r.what.op = "confirm" => r.what.expected \in Nat
  /\ r.at = "idle" => r.what = NoRequest

ShapeInv ==
  /\ RowsOK(db)
  /\ DOMAIN req = Sessions /\ DOMAIN snap = Sessions
  /\ \A s \in Sessions : RowsOK(snap[s]) /\ RequestOK(req[s])

\* A file that a session is about to mark was inserted, and its object is
\* there unless the file was deleted; an object is purged after its row.
FilesOf(s) ==
  LET a == req[s].what.asset IN
  /\ req[s].at = "put" => req[s].what.op = "upload" /\ db.assets[a] # Unused
  /\ req[s].at = "mark_ready" =>
       /\ req[s].what.op \in {"upload", "reconcile"}
       /\ db.assets[a] # Unused
       /\ Exists(db.assets[a]) => a \in store
  /\ req[s].at = "mark_failed" => req[s].what.op = "upload"
  /\ req[s].at = "purge" => req[s].what.op = "delete" /\ db.assets[a] = Deleted
  /\ \A x \in Assets : snap[s].assets[x] # Unused => db.assets[x] # Unused

FilesInv == ReadyHasObject /\ \A s \in Sessions : FilesOf(s)

\* An import that is being served has its row, which keeps its file.
ImportsAt(s) ==
  LET i == req[s].what.import IN
  /\ req[s].at \in {"process", "parsing"} =>
       /\ req[s].what.op = "import"
       /\ db.imports[i] # Unused
       /\ db.source[i] = req[s].what.asset
  /\ req[s].at = "parsing" => Exists(db.imports[i])

SourcesAreFiles == \A i \in Imports : db.imports[i] # Unused => db.source[i] \in Assets

ImportsInv ==
  /\ SourcesAreFiles /\ ImportsHaveFiles /\ EvidenceHasImports
  /\ \A s \in Sessions : ImportsAt(s)

\* Decisions change with the version of the profile only.
DecisionsOf(s) ==
  req[s].at = "begun" =>
    /\ snap[s].version <= db.version
    /\ snap[s].version = db.version => snap[s].decisions = db.decisions
    /\ req[s].what.op = "confirm" => req[s].what.expected <= snap[s].version

DecisionsInv == \A s \in Sessions : DecisionsOf(s)

IInv == ShapeInv /\ FilesInv /\ ImportsInv /\ DecisionsInv

----------------------------------------------------------------------------
(* What a session does to its own request.                                 *)

\* The empty rows are rows.
LEMMA NoRowsOK == RowsOK(NoRows)
  BY DEF RowsOK, RowNames, NoRows, AssetStatus, ImportStatus, Unused, Deleted

\* A session that moves on keeps its request and drops its snapshot.
LEMMA MovesOne ==
  ASSUME ShapeInv, NEW s \in Sessions, NEW to, Moves(s, to), to # "idle"
  PROVE  /\ DOMAIN req' = Sessions /\ DOMAIN snap' = Sessions
         /\ \A t \in Sessions : RequestOK(req'[t])
         /\ req'[s].at = to /\ req'[s].what = req[s].what /\ snap'[s] = NoRows
         /\ \A t \in Sessions \ {s} : req'[t] = req[t] /\ snap'[t] = snap[t]
<1>1. /\ DOMAIN req' = Sessions /\ DOMAIN snap' = Sessions
      /\ req'[s] = [req[s] EXCEPT !.at = to] /\ snap'[s] = NoRows
      /\ \A t \in Sessions \ {s} : req'[t] = req[t] /\ snap'[t] = snap[t]
  BY DEF ShapeInv, Moves
<1>2. DOMAIN req[s] = {"at", "what"}
  BY DEF ShapeInv, RequestOK
<1>3. /\ DOMAIN req'[s] = {"at", "what"}
      /\ req'[s].at = to /\ req'[s].what = req[s].what
  BY <1>1, <1>2
<1>4. RequestOK(req'[s])
  BY <1>3 DEF ShapeInv, RequestOK
<1> QED
  BY <1>1, <1>3, <1>4 DEF ShapeInv

\* A session that ends has no request.
LEMMA EndsOne ==
  ASSUME ShapeInv, NEW s \in Sessions, Ends(s)
  PROVE  /\ DOMAIN req' = Sessions /\ DOMAIN snap' = Sessions
         /\ \A t \in Sessions : RequestOK(req'[t])
         /\ req'[s].at = "idle" /\ snap'[s] = NoRows
         /\ \A t \in Sessions \ {s} : req'[t] = req[t] /\ snap'[t] = snap[t]
<1>1. /\ DOMAIN req' = Sessions /\ DOMAIN snap' = Sessions
      /\ req'[s] = [at |-> "idle", what |-> NoRequest] /\ snap'[s] = NoRows
      /\ \A t \in Sessions \ {s} : req'[t] = req[t] /\ snap'[t] = snap[t]
  BY DEF ShapeInv, Ends
<1>2. RequestOK(req'[s])
  BY <1>1 DEF RequestOK, NoRequest
<1> QED
  BY <1>1, <1>2 DEF ShapeInv

----------------------------------------------------------------------------
(* Each invariant is preserved by each action.                             *)

\* A session that begins names files and imports there are, expects a version
\* the profile has had, and reads what is committed.
LEMMA BeginsOne ==
  ASSUME ShapeInv, NEW s \in Sessions, Begins(s)
  PROVE  /\ DOMAIN req' = Sessions /\ DOMAIN snap' = Sessions
         /\ \A t \in Sessions : RequestOK(req'[t])
         /\ req'[s].at = "begun" /\ snap'[s] = db
         /\ req'[s].what.op = "confirm" => req'[s].what.expected <= db.version
         /\ \A t \in Sessions \ {s} : req'[t] = req[t] /\ snap'[t] = snap[t]
         /\ db' = db /\ store' = store
<1> DEFINE Files == [op : {"reconcile", "delete"}, asset : Assets]
           Uploads == [op : {"upload"}, asset : {a \in Assets : db.assets[a] = Unused}]
           Starts == [op : {"import"}, asset : Assets,
                      import : {i \in Imports : db.imports[i] = Unused}]
           Decisions == [op : {"decide"}, expected : 0..db.version,
                         evidence : (SUBSET Evidence) \ {{}}, action : Actions]
           Confirmations == [op : {"confirm"}, expected : 0..db.version,
                             import : {i \in Imports : Known(db, i)}]
           References == [op : {"reference"}, expected : 0..db.version]
           Activations == [op : {"activate"}, number : Numbers(db)]
           Fit(r) == /\ r.op \in {"upload", "reconcile", "delete", "import"} => r.asset \in Assets
                     /\ r.op = "import" => r.import \in Imports
                     /\ r.op = "confirm" => r.expected \in Nat /\ r.expected <= db.version
<1>1. /\ \A r \in Files \cup Uploads : Fit(r)
      /\ \A r \in Starts : Fit(r)
      /\ \A r \in Decisions : Fit(r)
      /\ \A r \in References : Fit(r)
      /\ \A r \in Activations : Fit(r)
  OBVIOUS
<1>2. \A r \in Confirmations : Fit(r)
  <2> SUFFICES ASSUME NEW r \in Confirmations PROVE Fit(r)
    OBVIOUS
  <2>1. r.op = "confirm" /\ r.expected \in 0..db.version
    OBVIOUS
  <2>2. db.version \in Nat
    BY DEF ShapeInv, RowsOK
  <2>3. r.expected \in Nat /\ r.expected <= db.version
    BY <2>1, <2>2
  <2> QED
    BY <2>1, <2>3
<1>3. \E r \in Files \cup Uploads \cup Starts \cup Decisions \cup Confirmations
              \cup References \cup Activations :
        req' = [req EXCEPT ![s] = [at |-> "begun", what |-> r]]
  BY DEF Begins
<1> HIDE DEF Files, Uploads, Starts, Decisions, Confirmations, References, Activations
<1>4. PICK r : Fit(r) /\ req' = [req EXCEPT ![s] = [at |-> "begun", what |-> r]]
  <2> HIDE DEF Fit
  <2> QED
    BY <1>1, <1>2, <1>3
<1>5. req'[s] = [at |-> "begun", what |-> r] /\ DOMAIN req' = Sessions
      /\ \A t \in Sessions \ {s} : req'[t] = req[t]
  BY <1>4 DEF ShapeInv
<1>6. RequestOK(req'[s])
  BY <1>4, <1>5 DEF RequestOK
<1>7. snap' = [snap EXCEPT ![s] = db] /\ db' = db /\ store' = store
  BY DEF Begins
<1> QED
  BY <1>4, <1>5, <1>6, <1>7 DEF ShapeInv

\* What a deletion leaves of each table.
LEMMA WithoutFields ==
  ASSUME ShapeInv, NEW s \in Sessions, NEW a \in Assets
  PROVE  LET gone == IF ImportsOf(snap[s], a) = {} THEN {} ELSE ImportsOf(db, a)
             rows == Without(db, a, s)
         IN  /\ RowsOK(rows)
             /\ rows.version = db.version + 1
             /\ rows.assets = [db.assets EXCEPT ![a] = Deleted]
             /\ rows.imports = [i \in Imports |-> IF i \in gone THEN Deleted ELSE db.imports[i]]
             /\ rows.source = db.source
             /\ rows.evidence = {e \in db.evidence : FoundBy[e] \notin gone}
             /\ rows.versions = db.versions
             /\ rows.decisions = Remaining(db.decisions, gone)
<1> DEFINE gone == IF ImportsOf(snap[s], a) = {} THEN {} ELSE ImportsOf(db, a)
           assets == [db.assets EXCEPT ![a] = Deleted]
           imports == [i \in Imports |-> IF i \in gone THEN Deleted ELSE db.imports[i]]
           evidence == {e \in db.evidence : FoundBy[e] \notin gone}
           decisions == Remaining(db.decisions, gone)
           rows == Without(db, a, s)
<1>1. rows = [db EXCEPT !.assets[a] = Deleted, !.imports = imports, !.evidence = evidence,
                        !.decisions = decisions, !.version = @ + 1]
  BY DEF Without
<1>2. RowsOK(db)
  BY DEF ShapeInv
<1>3. assets \in [Assets -> AssetStatus] /\ imports \in [Imports -> ImportStatus]
      /\ evidence \subseteq Evidence
  BY <1>2 DEF RowsOK, AssetStatus, ImportStatus, Deleted
<1> HIDE DEF gone, imports, evidence, decisions, rows
<1>4. /\ rows.version = db.version + 1 /\ rows.assets = assets /\ rows.imports = imports
      /\ rows.source = db.source /\ rows.evidence = evidence /\ rows.versions = db.versions
      /\ rows.decisions = decisions /\ DOMAIN rows = RowNames
  BY <1>1, <1>2 DEF RowsOK, RowNames
<1>5. RowsOK(rows)
  BY <1>2, <1>3, <1>4 DEF RowsOK
<1> QED
  BY <1>4, <1>5 DEF gone, imports, evidence, decisions, rows

\* The rows keep their shape in every action.
LEMMA ShapePreserved == IInv /\ [Next]_vars => ShapeInv'
<1> SUFFICES ASSUME IInv, Next PROVE ShapeInv'
  <2> CASE UNCHANGED vars
    BY DEF IInv, ShapeInv, vars
  <2> QED
    OBVIOUS
<1> USE DEF IInv
<1>0. PICK s \in Sessions :
        \/ Begins(s) \/ Dies(s)
        \/ UploadInserts(s) \/ UploadPuts(s) \/ Marks(s) \/ Reconciles(s)
        \/ Deletes(s) \/ Purges(s)
        \/ ImportStarts(s) \/ ParsingStarts(s) \/ ParsingEnds(s)
        \/ Decides(s) \/ Confirms(s) \/ Refers(s) \/ Activates(s)
  BY DEF Next
<1>a. ASSUME RowsOK(db'), \E to : to # "idle" /\ Moves(s, to)
      PROVE  ShapeInv'
  BY <1>a, MovesOne, NoRowsOK DEF ShapeInv
<1>b. ASSUME RowsOK(db'), Ends(s)
      PROVE  ShapeInv'
  BY <1>b, EndsOne, NoRowsOK DEF ShapeInv
<1>c. RowsOK(db)
  BY DEF ShapeInv
<1>1. CASE Begins(s)
  BY <1>1, <1>c, BeginsOne DEF ShapeInv
<1>2. CASE Dies(s)
  BY <1>2, <1>b, <1>c DEF Dies
<1>3. CASE UploadInserts(s)
  <2>1. RowsOK(db')
    BY <1>3, <1>c DEF UploadInserts, RowsOK, RowNames, AssetStatus
  <2> QED
    BY <1>3, <2>1, <1>a DEF UploadInserts
<1>4. CASE UploadPuts(s)
  BY <1>4, <1>a, <1>c DEF UploadPuts
<1>5. CASE Marks(s)
  <2>1. RowsOK(db')
    BY <1>5, <1>c DEF Marks, RowsOK, RowNames, AssetStatus
  <2> QED
    BY <1>5, <2>1, <1>b DEF Marks
<1>6. CASE Reconciles(s)
  BY <1>6, <1>a, <1>b, <1>c DEF Reconciles
<1>7. CASE Deletes(s)
  <2> req[s].what.asset \in Assets
    BY <1>7 DEF Deletes, Serves, ShapeInv, RequestOK
  <2>1. RowsOK(db')
    BY <1>7, <1>c, WithoutFields DEF Deletes, RowsOK
  <2> QED
    BY <1>7, <2>1, <1>a DEF Deletes
<1>8. CASE Purges(s)
  BY <1>8, <1>b, <1>c DEF Purges
<1>9. CASE ImportStarts(s)
  <2>1. RowsOK(db')
    BY <1>9, <1>c DEF ImportStarts, RowsOK, RowNames, ImportStatus
  <2> QED
    BY <1>9, <2>1, <1>a DEF ImportStarts
<1>10. CASE ParsingStarts(s)
  BY <1>10, <1>a, <1>c DEF ParsingStarts
<1>11. CASE ParsingEnds(s)
  <2>1. RowsOK(db')
    <3>1. ASSUME NEW status \in ImportStatus, NEW i,
                 db' = [db EXCEPT !.imports[i] = status]
          PROVE  RowsOK(db')
      BY <3>1, <1>c DEF RowsOK, RowNames
    <3>2. ASSUME NEW found \in SUBSET Evidence, NEW i,
                 db' = [db EXCEPT !.imports[i] = "awaiting_confirmation",
                                  !.evidence = @ \cup found]
          PROVE  RowsOK(db')
      BY <3>2, <1>c DEF RowsOK, RowNames, ImportStatus
    <3>3. {"failed", "needs_manual_entry"} \subseteq ImportStatus
      BY DEF ImportStatus
    <3> QED
      BY <1>11, <3>1, <3>2, <3>3 DEF ParsingEnds
  <2> QED
    BY <1>11, <2>1, <1>b DEF ParsingEnds
<1>12. CASE Decides(s)
  <2>1. RowsOK(db')
    BY <1>12, <1>c DEF Decides, RowsOK, RowNames
  <2> QED
    BY <1>12, <2>1, <1>b DEF Decides
<1>13. CASE Confirms(s)
  <2>1. RowsOK(db')
    BY <1>13, <1>c DEF Confirms, RowsOK, RowNames
  <2> QED
    BY <1>13, <2>1, <1>b DEF Confirms
<1>14. CASE Refers(s)
  <2>1. RowsOK(db')
    BY <1>14, <1>c DEF Refers, RowsOK, RowNames
  <2> QED
    BY <1>14, <2>1, <1>b DEF Refers
<1>15. CASE Activates(s)
  <2>1. RowsOK(db')
    BY <1>15, <1>c DEF Activates, RowsOK, RowNames
  <2> QED
    BY <1>15, <2>1, <1>b DEF Activates
<1> QED
  BY <1>0, <1>1, <1>2, <1>3, <1>4, <1>5, <1>6, <1>7, <1>8, <1>9, <1>10, <1>11, <1>12,
     <1>13, <1>14, <1>15

\* What a step does to files concerns the others only if it takes an object
\* away or brings a file back.
LEMMA FilesFrame ==
  ASSUME IInv, NEW s \in Sessions,
         \A t \in Sessions \ {s} : req'[t] = req[t] /\ snap'[t] = snap[t],
         \A a \in Assets :
           /\ db'.assets[a] = "ready" => a \in store'
           /\ db.assets[a] # Unused => db'.assets[a] # Unused
           /\ db.assets[a] = Deleted => db'.assets[a] = Deleted
           /\ db.assets[a] # Unused /\ (Exists(db.assets[a]) => a \in store)
                => (Exists(db'.assets[a]) => a \in store'),
         FilesOf(s)'
  PROVE  FilesInv'
<1>1. ReadyHasObject'
  BY DEF ReadyHasObject
<1>2. ASSUME NEW t \in Sessions, t # s PROVE FilesOf(t)'
  <2>1. FilesOf(t) /\ RequestOK(req[t])
    BY DEF IInv, FilesInv, ShapeInv
  <2>2. req'[t] = req[t] /\ snap'[t] = snap[t]
    BY <1>2
  <2>3. req[t].what.op \in {"upload", "reconcile", "delete"} => req[t].what.asset \in Assets
    BY <2>1 DEF RequestOK
  <2> QED
    BY <2>1, <2>2, <2>3 DEF FilesOf
<1> QED
  BY <1>1, <1>2 DEF FilesInv

\* Uploads, reconciliations, deletions and purges keep the invariant on files.
LEMMA FilesPreserved == IInv /\ [Next]_vars => FilesInv'
<1> SUFFICES ASSUME IInv, Next PROVE FilesInv'
  <2> CASE UNCHANGED vars
    BY DEF IInv, FilesInv, FilesOf, ReadyHasObject, vars
  <2> QED
    OBVIOUS
<1>0. PICK s \in Sessions :
        \/ Begins(s) \/ Dies(s)
        \/ UploadInserts(s) \/ UploadPuts(s) \/ Marks(s) \/ Reconciles(s)
        \/ Deletes(s) \/ Purges(s)
        \/ ImportStarts(s) \/ ParsingStarts(s) \/ ParsingEnds(s)
        \/ Decides(s) \/ Confirms(s) \/ Refers(s) \/ Activates(s)
  BY DEF Next
<1> DEFINE file == req[s].what.asset
<1>s. ShapeInv /\ FilesOf(s) /\ ReadyHasObject /\ RowsOK(db) /\ RequestOK(req[s])
  BY DEF IInv, FilesInv, ShapeInv
<1>n. \A x \in Assets : NoRows.assets[x] = Unused
  BY DEF NoRows
<1>a. ASSUME NEW to, Moves(s, to), to \notin {"idle", "put", "mark_ready", "mark_failed", "purge"},
             db'.assets = db.assets, store' = store
      PROVE  FilesInv'
  <2>1. FilesOf(s)'
    BY <1>a, <1>n, <1>s, MovesOne DEF FilesOf
  <2> QED
    BY <1>a, <1>s, <2>1, MovesOne, FilesFrame DEF ReadyHasObject
<1>b. ASSUME Ends(s) PROVE FilesOf(s)'
  BY <1>b, <1>n, <1>s, EndsOne DEF FilesOf
<1>c. ASSUME Ends(s), db'.assets = db.assets, store' = store PROVE FilesInv'
  BY <1>b, <1>c, <1>s, EndsOne, FilesFrame DEF ReadyHasObject
<1>1. CASE Begins(s)
  <2>1. FilesOf(s)'
    BY <1>1, <1>s, BeginsOne DEF FilesOf
  <2> QED
    BY <1>1, <1>s, <2>1, BeginsOne, FilesFrame DEF ReadyHasObject
<1>2. CASE Dies(s)
  BY <1>2, <1>c DEF Dies
<1>3. CASE UploadInserts(s)
  <2>1. /\ file \in Assets /\ req[s].what.op = "upload" /\ Moves(s, "put") /\ store' = store
        /\ db.assets[file] = Unused
        /\ db'.assets = [db.assets EXCEPT ![file] = "pending_upload"]
    BY <1>3, <1>s DEF UploadInserts, Serves, RequestOK, RowsOK, RowNames
  <2>2. \A x \in Assets : /\ x # file => db'.assets[x] = db.assets[x]
                          /\ x = file => db'.assets[x] = "pending_upload"
    BY <2>1, <1>s DEF RowsOK
  <2>3. FilesOf(s)'
    BY <2>1, <2>2, <1>s, <1>n, MovesOne DEF FilesOf, Unused
  <2> QED
    BY <2>1, <2>2, <2>3, <1>s, MovesOne, FilesFrame DEF ReadyHasObject, Unused, Deleted, Exists
<1>4. CASE UploadPuts(s)
  <2>1. /\ file \in Assets /\ req[s].what.op = "upload" /\ req[s].at = "put" /\ db' = db
        /\ \/ store' = store \cup {file} /\ Moves(s, "mark_ready")
           \/ store' \in {store, store \cup {file}} /\ Moves(s, "mark_failed")
    BY <1>4, <1>s DEF UploadPuts, Serves, RequestOK
  <2>2. FilesOf(s)'
    BY <2>1, <1>s, <1>n, MovesOne DEF FilesOf
  <2>3. \A t \in Sessions \ {s} : req'[t] = req[t] /\ snap'[t] = snap[t]
    BY <2>1, <1>s, MovesOne
  <2> QED
    BY <2>1, <2>2, <2>3, <1>s, FilesFrame DEF ReadyHasObject
<1>5. CASE Marks(s)
  <2>1. /\ req[s].at \in {"mark_ready", "mark_failed"} /\ Ends(s) /\ store' = store
        /\ file \in Assets
    BY <1>5, <1>s DEF Marks, FilesOf, RequestOK
  <2>2. \A x \in Assets :
          IF x = file /\ Exists(db.assets[x])
          THEN db'.assets[x] = IF req[s].at = "mark_ready" THEN "ready" ELSE "upload_failed"
          ELSE db'.assets[x] = db.assets[x]
    BY <1>5, <1>s, <2>1 DEF Marks, RowsOK, RowNames
  <2>3. \A a \in Assets :
           /\ db'.assets[a] = "ready" => a \in store'
           /\ db.assets[a] # Unused => db'.assets[a] # Unused
           /\ db.assets[a] = Deleted => db'.assets[a] = Deleted
           /\ db.assets[a] # Unused /\ (Exists(db.assets[a]) => a \in store)
                => (Exists(db'.assets[a]) => a \in store')
    BY <2>1, <2>2, <1>s DEF ReadyHasObject, FilesOf, Exists, Unused, Deleted
  <2> QED
    BY <2>1, <2>3, <1>b, <1>s, EndsOne, FilesFrame
<1>6. CASE Reconciles(s)
  <2>1. /\ req[s].what.op = "reconcile" /\ file \in Assets /\ db' = db /\ store' = store
        /\ \/ /\ snap[s].assets[file] \in {"pending_upload", "upload_failed"} /\ file \in store
              /\ Moves(s, "mark_ready")
           \/ Ends(s)
    BY <1>6, <1>s DEF Reconciles, Serves, RequestOK
  <2>2. CASE Ends(s)
    BY <2>1, <2>2, <1>c
  <2>3. CASE Moves(s, "mark_ready") /\ snap[s].assets[file] # Unused /\ file \in store
    <3>1. FilesOf(s)'
      BY <2>1, <2>3, <1>s, <1>n, MovesOne DEF FilesOf
    <3> QED
      BY <2>1, <2>3, <3>1, <1>s, MovesOne, FilesFrame DEF ReadyHasObject
  <2> QED
    BY <2>1, <2>2, <2>3 DEF Unused
<1>7. CASE Deletes(s)
  <2>1. /\ req[s].what.op = "delete" /\ file \in Assets /\ Moves(s, "purge") /\ store' = store
        /\ db' = Without(db, file, s)
        /\ snap[s].assets[file] # Unused
    BY <1>7, <1>s DEF Deletes, Serves, RequestOK, Exists
  <2>2. db'.assets = [db.assets EXCEPT ![file] = Deleted]
    BY <2>1, <1>s, WithoutFields
  <2>3. \A x \in Assets : /\ x # file => db'.assets[x] = db.assets[x]
                          /\ x = file => db'.assets[x] = Deleted
    BY <2>1, <2>2, <1>s DEF RowsOK
  <2>4. FilesOf(s)'
    BY <2>1, <2>3, <1>s, <1>n, MovesOne DEF FilesOf
  <2> QED
    BY <2>1, <2>3, <2>4, <1>s, MovesOne, FilesFrame DEF ReadyHasObject, Unused, Deleted, Exists
<1>8. CASE Purges(s)
  <2>1. /\ file \in Assets /\ db.assets[file] = Deleted /\ db' = db /\ Ends(s)
        /\ store' \in {store, store \ {file}}
    BY <1>8, <1>s DEF Purges, Serves, RequestOK, FilesOf
  <2> QED
    BY <2>1, <1>b, <1>s, EndsOne, FilesFrame DEF ReadyHasObject, Deleted, Exists
<1>9. CASE ImportStarts(s)
  <2>1. Moves(s, "process") /\ store' = store /\ db'.assets = db.assets
    BY <1>9, <1>s DEF ImportStarts, RowsOK, RowNames
  <2> QED
    BY <2>1, <1>a
<1>10. CASE ParsingStarts(s)
  BY <1>10, <1>a DEF ParsingStarts
<1>11. CASE ParsingEnds(s)
  <2>1. Ends(s) /\ store' = store /\ db'.assets = db.assets
    BY <1>11, <1>s DEF ParsingEnds, RowsOK, RowNames
  <2> QED
    BY <2>1, <1>c
<1>12. CASE Decides(s)
  <2>1. Ends(s) /\ store' = store /\ db'.assets = db.assets
    BY <1>12, <1>s DEF Decides, RowsOK, RowNames
  <2> QED
    BY <2>1, <1>c
<1>13. CASE Confirms(s)
  <2>1. Ends(s) /\ store' = store /\ db'.assets = db.assets
    BY <1>13, <1>s DEF Confirms, RowsOK, RowNames
  <2> QED
    BY <2>1, <1>c
<1>14. CASE Refers(s)
  <2>1. Ends(s) /\ store' = store /\ db'.assets = db.assets
    BY <1>14, <1>s DEF Refers, RowsOK, RowNames
  <2> QED
    BY <2>1, <1>c
<1>15. CASE Activates(s)
  <2>1. Ends(s) /\ store' = store /\ db'.assets = db.assets
    BY <1>15, <1>s DEF Activates, RowsOK, RowNames
  <2> QED
    BY <2>1, <1>c
<1> QED
  BY <1>0, <1>1, <1>2, <1>3, <1>4, <1>5, <1>6, <1>7, <1>8, <1>9, <1>10, <1>11, <1>12,
     <1>13, <1>14, <1>15

\* Imports that keep their rows and their files keep what is known of them.
LEMMA ImportsFrame ==
  ASSUME IInv, NEW s \in Sessions,
         \A t \in Sessions \ {s} : req'[t] = req[t],
         db'.imports = db.imports, db'.source = db.source, db'.evidence = db.evidence,
         \A a \in Assets : Exists(db.assets[a]) => Exists(db'.assets[a]),
         ImportsAt(s)'
  PROVE  ImportsInv'
<1>1. SourcesAreFiles' /\ ImportsHaveFiles' /\ EvidenceHasImports'
  BY DEF IInv, ImportsInv, SourcesAreFiles, ImportsHaveFiles, EvidenceHasImports, Exists
<1>2. ASSUME NEW t \in Sessions, t # s PROVE ImportsAt(t)'
  BY <1>2 DEF IInv, ImportsInv, ImportsAt
<1> QED
  BY <1>1, <1>2 DEF ImportsInv

\* Deletions and imports keep the invariant on imports.
LEMMA ImportsPreserved == IInv /\ [Next]_vars => ImportsInv'
<1> SUFFICES ASSUME IInv, Next PROVE ImportsInv'
  <2> CASE UNCHANGED vars
    BY DEF IInv, ImportsInv, ImportsAt, SourcesAreFiles, ImportsHaveFiles, EvidenceHasImports, vars
  <2> QED
    OBVIOUS
<1>0. PICK s \in Sessions :
        \/ Begins(s) \/ Dies(s)
        \/ UploadInserts(s) \/ UploadPuts(s) \/ Marks(s) \/ Reconciles(s)
        \/ Deletes(s) \/ Purges(s)
        \/ ImportStarts(s) \/ ParsingStarts(s) \/ ParsingEnds(s)
        \/ Decides(s) \/ Confirms(s) \/ Refers(s) \/ Activates(s)
  BY DEF Next
<1> DEFINE file == req[s].what.asset
           import == req[s].what.import
<1>s. /\ ShapeInv /\ FilesOf(s) /\ ImportsAt(s)
      /\ SourcesAreFiles /\ ImportsHaveFiles /\ EvidenceHasImports
      /\ RowsOK(db) /\ RequestOK(req[s])
  BY DEF IInv, FilesInv, ImportsInv, ShapeInv
<1>f. \A e \in Evidence : FoundBy[e] \in Imports
  BY ProfilesAssumption
<1>m. ASSUME NEW to, Moves(s, to), to \notin {"idle", "process", "parsing"}
      PROVE  ImportsAt(s)' /\ \A t \in Sessions \ {s} : req'[t] = req[t]
  BY <1>m, <1>s, MovesOne DEF ImportsAt
<1>e. ASSUME Ends(s)
      PROVE  ImportsAt(s)' /\ \A t \in Sessions \ {s} : req'[t] = req[t]
  BY <1>e, <1>s, EndsOne DEF ImportsAt
<1>c. ASSUME Ends(s), db'.imports = db.imports, db'.source = db.source,
             db'.evidence = db.evidence, db'.assets = db.assets
      PROVE  ImportsInv'
  BY <1>c, <1>e, ImportsFrame
<1>1. CASE Begins(s)
  <2>1. ImportsAt(s)'
    BY <1>1, <1>s, BeginsOne DEF ImportsAt
  <2> QED
    BY <1>1, <1>s, <2>1, BeginsOne, ImportsFrame
<1>2. CASE Dies(s)
  BY <1>2, <1>c DEF Dies
<1>3. CASE UploadInserts(s)
  <2>1. /\ Moves(s, "put") /\ db.assets[file] = Unused /\ file \in Assets
        /\ db'.assets = [db.assets EXCEPT ![file] = "pending_upload"]
        /\ db'.imports = db.imports /\ db'.source = db.source /\ db'.evidence = db.evidence
    BY <1>3, <1>s DEF UploadInserts, Serves, RequestOK, RowsOK, RowNames
  <2>2. \A a \in Assets : Exists(db.assets[a]) => Exists(db'.assets[a])
    BY <2>1, <1>s DEF Exists, RowsOK, Unused, Deleted
  <2> QED
    BY <2>1, <2>2, <1>m, ImportsFrame
<1>4. CASE UploadPuts(s)
  <2>1. db' = db /\ (Moves(s, "mark_ready") \/ Moves(s, "mark_failed"))
    BY <1>4 DEF UploadPuts
  <2> QED
    BY <2>1, <1>m, ImportsFrame
<1>5. CASE Marks(s)
  <2>1. /\ Ends(s)
        /\ db'.imports = db.imports /\ db'.source = db.source /\ db'.evidence = db.evidence
    BY <1>5, <1>s DEF Marks, RowsOK, RowNames
  <2>2. \A a \in Assets : Exists(db.assets[a]) => Exists(db'.assets[a])
    BY <1>5, <1>s DEF Marks, Exists, RowsOK, RowNames, Unused, Deleted
  <2> QED
    BY <2>1, <2>2, <1>e, ImportsFrame
<1>6. CASE Reconciles(s)
  <2>1. db' = db /\ (Moves(s, "mark_ready") \/ Ends(s))
    BY <1>6 DEF Reconciles
  <2> QED
    BY <2>1, <1>c, <1>m, ImportsFrame
<1>7. CASE Deletes(s)
  <2> DEFINE gone == IF ImportsOf(snap[s], file) = {} THEN {} ELSE ImportsOf(db, file)
  <2>1. /\ file \in Assets /\ Moves(s, "purge") /\ ~Restricted(s) /\ ~ParsedNow(file)
        /\ db' = Without(db, file, s)
    BY <1>7, <1>s DEF Deletes, Serves, RequestOK
  <2>2. /\ db'.assets = [db.assets EXCEPT ![file] = Deleted]
        /\ db'.imports = [i \in Imports |-> IF i \in gone THEN Deleted ELSE db.imports[i]]
        /\ db'.source = db.source
        /\ db'.evidence = {e \in db.evidence : FoundBy[e] \notin gone}
    BY <2>1, <1>s, WithoutFields
  <2>3. \A i \in Imports : Exists(db.imports[i]) /\ db.source[i] = file => i \in gone
    BY <2>1 DEF Restricted, ImportsOf
  <2>4. \A i \in gone : Exists(db.imports[i]) /\ db.source[i] = file
    BY DEF ImportsOf
  <2> HIDE DEF gone
  <2>5. SourcesAreFiles'
    BY <2>2, <2>4, <1>s DEF SourcesAreFiles, Exists, Deleted, Unused
  <2>6. ImportsHaveFiles'
    <3> SUFFICES ASSUME NEW i \in Imports, Exists(db'.imports[i])
                 PROVE  Exists(db'.assets[db.source[i]])
      BY <2>2 DEF ImportsHaveFiles
    <3>1. i \notin gone /\ Exists(db.imports[i])
      BY <2>2 DEF Exists, Deleted
    <3>2. db.source[i] # file /\ db.source[i] \in Assets /\ Exists(db.assets[db.source[i]])
      BY <3>1, <2>3, <1>s DEF ImportsHaveFiles, SourcesAreFiles, Exists
    <3> QED
      BY <3>2, <2>2, <1>s DEF RowsOK
  <2>7. EvidenceHasImports'
    BY <2>2, <1>s, <1>f DEF EvidenceHasImports, RowsOK
  <2>8. ASSUME NEW t \in Sessions PROVE ImportsAt(t)'
    <3>1. CASE t = s
      BY <2>1, <3>1, <1>m
    <3>2. CASE t # s /\ req[t].at \in {"process", "parsing"}
      <4> DEFINE i == req[t].what.import
      <4>1. req'[t] = req[t] /\ ImportsAt(t) /\ RequestOK(req[t])
        BY <2>1, <3>2, <1>m DEF IInv, ImportsInv, ShapeInv
      <4>2. i \in Imports /\ db.imports[i] # Unused /\ db.source[i] = req[t].what.asset
        BY <4>1, <3>2 DEF ImportsAt, RequestOK
      <4>3. db'.imports[i] # Unused /\ db'.source[i] = req[t].what.asset
        BY <4>2, <2>2 DEF Unused, Deleted
      <4>4. req[t].at = "parsing" => i \notin gone
        BY <4>2, <2>1, <2>4 DEF ParsedNow
      <4>5. req[t].at = "parsing" => Exists(db'.imports[i])
        BY <4>1, <4>2, <4>4, <2>2 DEF ImportsAt
      <4> QED
        BY <4>1, <4>3, <4>5 DEF ImportsAt
    <3>3. CASE t # s /\ req[t].at \notin {"process", "parsing"}
      BY <2>1, <3>3, <1>m DEF ImportsAt
    <3> QED
      BY <3>1, <3>2, <3>3
  <2> QED
    BY <2>5, <2>6, <2>7, <2>8 DEF ImportsInv
<1>8. CASE Purges(s)
  BY <1>8, <1>c DEF Purges
<1>9. CASE ImportStarts(s)
  <2>1. /\ req[s].what.op = "import" /\ file \in Assets /\ import \in Imports
        /\ Moves(s, "process") /\ Exists(db.assets[file]) /\ db.imports[import] = Unused
        /\ db' = [db EXCEPT !.imports[import] = "pending", !.source[import] = file]
    BY <1>9, <1>s DEF ImportStarts, Serves, RequestOK
  <2>2. /\ db'.imports = [db.imports EXCEPT ![import] = "pending"]
        /\ db'.source = [db.source EXCEPT ![import] = file]
        /\ db'.assets = db.assets /\ db'.evidence = db.evidence
    BY <2>1, <1>s DEF RowsOK, RowNames
  <2>3. \A i \in Imports :
          /\ i # import => db'.imports[i] = db.imports[i] /\ db'.source[i] = db.source[i]
          /\ i = import => db'.imports[i] = "pending" /\ db'.source[i] = file
    BY <2>2, <1>s DEF RowsOK
  <2>4. SourcesAreFiles' /\ ImportsHaveFiles'
    BY <2>1, <2>2, <2>3, <1>s DEF SourcesAreFiles, ImportsHaveFiles
  <2>5. EvidenceHasImports'
    BY <2>2, <2>3, <1>s, <1>f DEF EvidenceHasImports, RowsOK, Exists, Unused, Deleted
  <2>6. ImportsAt(s)'
    BY <2>1, <2>3, <1>s, MovesOne DEF ImportsAt, Unused
  <2>7. ASSUME NEW t \in Sessions, t # s PROVE ImportsAt(t)'
    <3>1. req'[t] = req[t] /\ ImportsAt(t) /\ RequestOK(req[t])
      BY <2>1, <2>7, <1>s, MovesOne DEF IInv, ImportsInv, ShapeInv
    <3> QED
      BY <3>1, <2>1, <2>3 DEF ImportsAt, RequestOK
  <2> QED
    BY <2>4, <2>5, <2>6, <2>7 DEF ImportsInv
<1>10. CASE ParsingStarts(s)
  <2>1. /\ req[s].at = "process" /\ Moves(s, "parsing") /\ db' = db
        /\ Exists(db.imports[import])
    BY <1>10 DEF ParsingStarts, Serves
  <2>2. ImportsAt(s)'
    BY <2>1, <1>s, MovesOne DEF ImportsAt
  <2> QED
    BY <2>1, <2>2, <1>s, MovesOne, ImportsFrame
<1>11. CASE ParsingEnds(s)
  <2>1. /\ req[s].at = "parsing" /\ req[s].what.op = "import" /\ import \in Imports
        /\ Exists(db.imports[import]) /\ Ends(s)
    BY <1>11, <1>s DEF ParsingEnds, Serves, ImportsAt, RequestOK
  <2>2. PICK status \in ImportStatus, found \in SUBSET Evidence :
          /\ Exists(status) /\ \A e \in found : FoundBy[e] = import
          /\ db'.imports = [db.imports EXCEPT ![import] = status]
          /\ db'.evidence = db.evidence \cup found
          /\ db'.source = db.source /\ db'.assets = db.assets
    <3>1. ASSUME NEW status \in {"failed", "needs_manual_entry"},
                 db' = [db EXCEPT !.imports[import] = status]
          PROVE  /\ Exists(status) /\ status \in ImportStatus
                 /\ db'.imports = [db.imports EXCEPT ![import] = status]
                 /\ db'.evidence = db.evidence \cup {}
                 /\ db'.source = db.source /\ db'.assets = db.assets
      BY <3>1, <1>s DEF RowsOK, RowNames, ImportStatus, Exists, Unused, Deleted
    <3>2. ASSUME NEW found \in SUBSET {e \in Evidence : FoundBy[e] = import},
                 db' = [db EXCEPT !.imports[import] = "awaiting_confirmation",
                                  !.evidence = @ \cup found]
          PROVE  /\ Exists("awaiting_confirmation") /\ "awaiting_confirmation" \in ImportStatus
                 /\ db'.imports = [db.imports EXCEPT ![import] = "awaiting_confirmation"]
                 /\ db'.evidence = db.evidence \cup found
                 /\ db'.source = db.source /\ db'.assets = db.assets
      BY <3>2, <1>s DEF RowsOK, RowNames, ImportStatus, Exists, Unused, Deleted
    <3>3. CASE \E status \in {"failed", "needs_manual_entry"} :
                 db' = [db EXCEPT !.imports[import] = status]
      <4>1. PICK status \in {"failed", "needs_manual_entry"} :
              db' = [db EXCEPT !.imports[import] = status]
        BY <3>3
      <4>2. {} \in SUBSET Evidence /\ \A e \in {} : FoundBy[e] = import
        OBVIOUS
      <4> QED
        BY <3>1, <4>1, <4>2
    <3>4. CASE \E found \in SUBSET {e \in Evidence : FoundBy[e] = import} :
                 db' = [db EXCEPT !.imports[import] = "awaiting_confirmation",
                                  !.evidence = @ \cup found]
      BY <3>2, <3>4
    <3> QED
      BY <1>11, <3>3, <3>4 DEF ParsingEnds
  <2>3. \A i \in Imports : /\ i # import => db'.imports[i] = db.imports[i]
                           /\ i = import => Exists(db'.imports[i])
    BY <2>2, <1>s DEF RowsOK
  <2>4. SourcesAreFiles' /\ ImportsHaveFiles'
    BY <2>1, <2>2, <2>3, <1>s DEF SourcesAreFiles, ImportsHaveFiles, Exists
  <2>5. EvidenceHasImports'
    BY <2>2, <2>3, <1>s, <1>f DEF EvidenceHasImports, RowsOK
  <2>6. ASSUME NEW t \in Sessions, t # s PROVE ImportsAt(t)'
    <3>1. req'[t] = req[t] /\ ImportsAt(t) /\ RequestOK(req[t])
      BY <2>1, <2>6, <1>s, <1>e DEF IInv, ImportsInv, ShapeInv
    <3> QED
      BY <3>1, <2>2, <2>3 DEF ImportsAt, RequestOK, Exists
  <2> QED
    BY <2>1, <2>4, <2>5, <2>6, <1>e DEF ImportsInv
<1>12. CASE Decides(s)
  BY <1>12, <1>c, <1>s DEF Decides, RowsOK, RowNames
<1>13. CASE Confirms(s)
  BY <1>13, <1>c, <1>s DEF Confirms, RowsOK, RowNames
<1>14. CASE Refers(s)
  BY <1>14, <1>c, <1>s DEF Refers, RowsOK, RowNames
<1>15. CASE Activates(s)
  BY <1>15, <1>c, <1>s DEF Activates, RowsOK, RowNames
<1> QED
  BY <1>0, <1>1, <1>2, <1>3, <1>4, <1>5, <1>6, <1>7, <1>8, <1>9, <1>10, <1>11, <1>12,
     <1>13, <1>14, <1>15

\* No step lowers the version of the profile, and none changes the decisions
\* without raising it.
LEMMA VersionGrows ==
  ASSUME IInv, Next
  PROVE  /\ db'.version \in Nat /\ db.version <= db'.version
         /\ db'.version = db.version => db'.decisions = db.decisions
<1>s. ShapeInv /\ RowsOK(db) /\ RowsOK(db')
  BY ShapePreserved DEF IInv, ShapeInv
<1>0. PICK s \in Sessions :
        \/ Begins(s) \/ Dies(s)
        \/ UploadInserts(s) \/ UploadPuts(s) \/ Marks(s) \/ Reconciles(s)
        \/ Deletes(s) \/ Purges(s)
        \/ ImportStarts(s) \/ ParsingStarts(s) \/ ParsingEnds(s)
        \/ Decides(s) \/ Confirms(s) \/ Refers(s) \/ Activates(s)
  BY DEF Next
<1>1. CASE Begins(s) \/ Dies(s) \/ UploadPuts(s) \/ Reconciles(s) \/ Purges(s) \/ ParsingStarts(s)
  <2>1. db' = db
    BY <1>1 DEF Begins, Dies, UploadPuts, Reconciles, Purges, ParsingStarts
  <2> QED
    BY <2>1, <1>s DEF RowsOK
<1>2. CASE UploadInserts(s) \/ Marks(s) \/ ImportStarts(s) \/ ParsingEnds(s) \/ Activates(s)
  <2>1. db'.version = db.version /\ db'.decisions = db.decisions
    BY <1>2, <1>s DEF UploadInserts, Marks, ImportStarts, ParsingEnds, Activates, RowsOK, RowNames
  <2> QED
    BY <2>1, <1>s DEF RowsOK
<1>3. CASE Deletes(s)
  <2>1. req[s].what.asset \in Assets /\ db' = Without(db, req[s].what.asset, s)
    BY <1>3, <1>s DEF Deletes, Serves, ShapeInv, RequestOK
  <2>2. db'.version = db.version + 1
    BY <2>1, <1>s, WithoutFields
  <2> QED
    BY <2>2, <1>s DEF RowsOK
<1>4. CASE Decides(s) \/ Confirms(s) \/ Refers(s)
  <2>1. db'.version = db.version + 1
    BY <1>4, <1>s DEF Decides, Confirms, Refers, RowsOK, RowNames
  <2> QED
    BY <2>1, <1>s DEF RowsOK
<1> QED
  BY <1>0, <1>1, <1>2, <1>3, <1>4

\* The sessions are left alone, but for one.
LEMMA OneSession ==
  ASSUME IInv, Next
  PROVE  \E s \in Sessions :
           /\ \A t \in Sessions \ {s} : req'[t] = req[t] /\ snap'[t] = snap[t]
           /\ \/ req'[s].at # "begun"
              \/ /\ snap'[s] = db /\ db' = db
                 /\ req'[s].what.op = "confirm" => req'[s].what.expected <= db.version
<1>s. ShapeInv
  BY DEF IInv
<1>0. PICK s \in Sessions :
        \/ Begins(s) \/ Dies(s)
        \/ UploadInserts(s) \/ UploadPuts(s) \/ Marks(s) \/ Reconciles(s)
        \/ Deletes(s) \/ Purges(s)
        \/ ImportStarts(s) \/ ParsingStarts(s) \/ ParsingEnds(s)
        \/ Decides(s) \/ Confirms(s) \/ Refers(s) \/ Activates(s)
  BY DEF Next
<1>1. CASE Begins(s)
  BY <1>1, <1>s, BeginsOne
<1>2. CASE \E to : to \notin {"idle", "begun"} /\ Moves(s, to)
  BY <1>2, <1>s, MovesOne
<1>3. CASE Ends(s)
  BY <1>3, <1>s, EndsOne
<1>4. ~Begins(s) => Ends(s) \/ \E to : to \notin {"idle", "begun"} /\ Moves(s, to)
  <2>1. CASE Dies(s) \/ Marks(s) \/ Purges(s) \/ ParsingEnds(s)
    BY <2>1 DEF Dies, Marks, Purges, ParsingEnds
  <2>2. CASE Decides(s) \/ Confirms(s) \/ Refers(s) \/ Activates(s)
    BY <2>2 DEF Decides, Confirms, Refers, Activates
  <2>3. CASE UploadInserts(s) \/ UploadPuts(s) \/ Reconciles(s) \/ Deletes(s)
    BY <2>3 DEF UploadInserts, UploadPuts, Reconciles, Deletes
  <2>4. CASE ImportStarts(s) \/ ParsingStarts(s)
    BY <2>4 DEF ImportStarts, ParsingStarts
  <2> QED
    BY <1>0, <2>1, <2>2, <2>3, <2>4
<1> QED
  BY <1>1, <1>2, <1>3, <1>4

\* The snapshot of a request is no newer than the rows, and has their
\* decisions if it has their version.
LEMMA DecisionsPreserved == IInv /\ [Next]_vars => DecisionsInv'
<1> SUFFICES ASSUME IInv, Next PROVE DecisionsInv'
  <2> CASE UNCHANGED vars
    BY DEF IInv, DecisionsInv, DecisionsOf, vars
  <2> QED
    OBVIOUS
<1>1. PICK s \in Sessions :
        /\ \A t \in Sessions \ {s} : req'[t] = req[t] /\ snap'[t] = snap[t]
        /\ \/ req'[s].at # "begun"
           \/ /\ snap'[s] = db /\ db' = db
              /\ req'[s].what.op = "confirm" => req'[s].what.expected <= db.version
  BY OneSession
<1>2. /\ db.version \in Nat /\ db'.version \in Nat /\ db.version <= db'.version
      /\ db'.version = db.version => db'.decisions = db.decisions
      /\ \A t \in Sessions : snap[t].version \in Nat
  BY VersionGrows DEF IInv, ShapeInv, RowsOK
<1>3. DecisionsOf(s)'
  BY <1>1, <1>2 DEF DecisionsOf
<1>4. ASSUME NEW t \in Sessions, t # s PROVE DecisionsOf(t)'
  <2>1. DecisionsOf(t) /\ req'[t] = req[t] /\ snap'[t] = snap[t]
    BY <1>1, <1>4 DEF IInv, DecisionsInv
  <2> QED
    BY <2>1, <1>2 DEF DecisionsOf
<1> QED
  BY <1>3, <1>4 DEF DecisionsInv

\* At the start nobody has asked for anything.
LEMMA InitIInv == Init => IInv
<1> SUFFICES ASSUME Init PROVE IInv
  OBVIOUS
<1>1. ShapeInv
  <2>1. \A s \in Sessions : req[s] = [at |-> "idle", what |-> NoRequest] /\ snap[s] = NoRows
    BY DEF Init
  <2>2. \A s \in Sessions : RequestOK(req[s])
    BY <2>1 DEF RequestOK, NoRequest
  <2> QED
    BY <2>1, <2>2, NoRowsOK DEF Init, ShapeInv
<1>2. FilesInv
  BY DEF Init, FilesInv, FilesOf, ReadyHasObject, NoRows, Unused
<1>3. ImportsInv
  BY DEF Init, ImportsInv, ImportsAt, SourcesAreFiles, ImportsHaveFiles, EvidenceHasImports,
         NoRows, Exists
<1>4. DecisionsInv
  BY DEF Init, DecisionsInv, DecisionsOf
<1> QED
  BY <1>1, <1>2, <1>3, <1>4 DEF IInv

\* The invariant holds in every behaviour.
LEMMA Inductive == Spec => []IInv
<1>1. IInv /\ [Next]_vars => IInv'
  BY ShapePreserved, FilesPreserved, ImportsPreserved, DecisionsPreserved DEF IInv
<1> QED
  BY InitIInv, <1>1, PTL DEF Spec

----------------------------------------------------------------------------
(* Decisions and their evidence.                                           *)

\* A set of numbers has a least one: what fails for some number fails for a
\* first one, which is how induction on the length of a sequence is done here.
LEMMA Least ==
  ASSUME NEW S \in SUBSET Nat, S # {}
  PROVE  \E x \in S : \A y \in S : x <= y
<1>1. PICK x \in S : \A y \in S : ~ (<<y, x>> \in OpToRel(<, Nat))
  BY WFMin, NatLessThanWellFounded
<1>2. \A y \in S : ~ (y < x)
  BY <1>1, Zenon DEF OpToRel
<1>3. \A y \in S : x <= y
  BY <1>2
<1> QED
  BY <1>3

\* One step of Remaining: what is kept of the first n decisions.
KeptOf(ds, gone, f, n) ==
  IF n = 0 THEN <<>>
  ELSE IF FoundBy[ds[n].evidence] \in gone THEN f[n - 1]
  ELSE Append(f[n - 1], ds[n])

\* The function that Remaining describes by recursion exists.
LEMMA KeptExists ==
  ASSUME NEW ds, NEW gone, NEW k \in Nat
  PROVE  \E f : f = [n \in 0..k |-> KeptOf(ds, gone, f, n)]
<1> DEFINE Ex(m) == \E f : f = [n \in 0..m |-> KeptOf(ds, gone, f, n)]
           None == {m \in Nat : ~Ex(m)}
<1> SUFFICES ASSUME None # {} PROVE FALSE
  BY Zenon
<1>1. PICK m \in None : \A y \in None : m <= y
  <2> HIDE DEF None
  <2>1. None \in SUBSET Nat
    BY DEF None
  <2> QED
    BY <2>1, Least
<1>2. Ex(0)
  <2> DEFINE f == [n \in 0..0 |-> <<>>]
  <2>1. f = [n \in 0..0 |-> KeptOf(ds, gone, f, n)]
    BY DEF KeptOf
  <2> QED
    BY <2>1
<1>3. m # 0
  BY <1>1, <1>2
<1>4. Ex(m - 1)
  <2>1. m - 1 \in Nat /\ ~ (m <= m - 1)
    BY <1>3
  <2>2. m - 1 \notin None
    <3> HIDE DEF None
    <3> QED
      BY <1>1, <2>1
  <2> QED
    BY <2>1, <2>2
<1>5. PICK f : f = [n \in 0..m - 1 |-> KeptOf(ds, gone, f, n)]
  BY <1>4
<1> DEFINE g == [n \in 0..m |-> IF n = m THEN KeptOf(ds, gone, f, m) ELSE f[n]]
<1>6. ASSUME NEW n \in 0..m PROVE g[n] = KeptOf(ds, gone, g, n)
  <2>1. n # 0 => n - 1 \in 0..m /\ n - 1 # m
    OBVIOUS
  <2>2. n # 0 => g[n - 1] = f[n - 1]
    BY <2>1
  <2>3. KeptOf(ds, gone, g, n) = KeptOf(ds, gone, f, n)
    <3> HIDE DEF g
    <3> QED
      BY <2>2 DEF KeptOf
  <2>4. n # m => n \in 0..m - 1
    OBVIOUS
  <2>5. n # m => f[n] = KeptOf(ds, gone, f, n)
    BY <1>5, <2>4
  <2> QED
    BY <2>3, <2>5
<1>7. g = [n \in 0..m |-> KeptOf(ds, gone, g, n)]
  <2>1. DOMAIN g = 0..m /\ g = [n \in 0..m |-> g[n]]
    OBVIOUS
  <2> HIDE DEF g
  <2> QED
    BY <1>6, <2>1
<1>8. Ex(m)
  <2> HIDE DEF g
  <2> QED
    BY <1>7
<1> QED
  BY <1>1, <1>8

\* What a deletion leaves of the decisions: decisions there were, and none on
\* the evidence of an import that is lost (the cascade of its foreign key).
LEMMA RemainingOK ==
  ASSUME NEW ds \in Seq(Decision), NEW gone
  PROVE  /\ Remaining(ds, gone) \in Seq(Decision)
         /\ \A n \in 1..Len(Remaining(ds, gone)) :
              \E m \in 1..Len(ds) : /\ Remaining(ds, gone)[n] = ds[m]
                                    /\ FoundBy[ds[m].evidence] \notin gone
<1>1. Len(ds) \in Nat
  OBVIOUS
<1> DEFINE F == CHOOSE f : f = [n \in 0..Len(ds) |-> KeptOf(ds, gone, f, n)]
<1>2. F = [n \in 0..Len(ds) |-> KeptOf(ds, gone, F, n)]
  BY <1>1, KeptExists
<1>3. Remaining(ds, gone) = F[Len(ds)]
  BY Zenon DEF Remaining, KeptOf
<1> HIDE DEF F
<1>4. \A n \in 0..Len(ds) : F[n] = KeptOf(ds, gone, F, n)
  BY <1>2
<1> DEFINE Fine(q) == /\ q \in Seq(Decision)
                      /\ \A n \in 1..Len(q) :
                           \E m \in 1..Len(ds) : /\ q[n] = ds[m]
                                                 /\ FoundBy[ds[m].evidence] \notin gone
           Wrong == {n \in 0..Len(ds) : ~Fine(F[n])}
<1>5. Wrong = {}
  <2> SUFFICES ASSUME Wrong # {} PROVE FALSE
    OBVIOUS
  <2>1. PICK n \in Wrong : \A y \in Wrong : n <= y
    <3>1. Wrong \in SUBSET Nat
      BY <1>1
    <3> HIDE DEF Wrong
    <3> QED
      BY <3>1, Least
  <2>2. n \in 0..Len(ds) /\ ~Fine(F[n]) /\ F[n] = KeptOf(ds, gone, F, n)
    BY <1>4, <2>1
  <2>3. Fine(<<>>)
    OBVIOUS
  <2>4. n # 0
    BY <2>2, <2>3 DEF KeptOf
  <2>5. n - 1 \in 0..Len(ds) /\ n \in 1..Len(ds) /\ ~ (n <= n - 1)
    BY <2>2, <2>4, <1>1
  <2>6. Fine(F[n - 1])
    <3>1. n - 1 \notin Wrong
      <4> HIDE DEF Wrong
      <4> QED
        BY <2>1, <2>5
    <3> QED
      BY <2>5, <3>1
  <2>7. ds[n] \in Decision
    BY <2>5, ElementOfSeq
  <2>8. CASE FoundBy[ds[n].evidence] \in gone
    BY <2>2, <2>4, <2>6, <2>8 DEF KeptOf
  <2>9. CASE FoundBy[ds[n].evidence] \notin gone
    <3> DEFINE q == F[n - 1]
    <3>1. F[n] = Append(q, ds[n])
      BY <2>2, <2>4, <2>9 DEF KeptOf
    <3>2. Fine(q)
      BY <2>6
    <3> HIDE DEF q
    <3>3. /\ Append(q, ds[n]) \in Seq(Decision) /\ Len(Append(q, ds[n])) = Len(q) + 1
          /\ \A i \in 1..Len(q) : Append(q, ds[n])[i] = q[i]
          /\ Append(q, ds[n])[Len(q) + 1] = ds[n]
      BY <2>7, <3>2, AppendProperties
    <3>4. ASSUME NEW i \in 1..Len(Append(q, ds[n]))
          PROVE  \E m \in 1..Len(ds) : /\ Append(q, ds[n])[i] = ds[m]
                                       /\ FoundBy[ds[m].evidence] \notin gone
      <4>1. Len(q) \in Nat /\ (i \in 1..Len(q) \/ i = Len(q) + 1)
        BY <3>2, <3>3
      <4>2. CASE i \in 1..Len(q)
        BY <3>2, <3>3, <4>2
      <4>3. CASE i = Len(q) + 1
        BY <2>5, <2>9, <3>3, <4>3
      <4> QED
        BY <4>1, <4>2, <4>3
    <3>5. Fine(Append(q, ds[n]))
      BY <3>3, <3>4
    <3> QED
      BY <2>2, <3>1, <3>5
  <2> QED
    BY <2>8, <2>9
<1>6. Fine(F[Len(ds)])
  <2>1. Len(ds) \in 0..Len(ds)
    BY <1>1
  <2> QED
    BY <1>5, <2>1
<1> QED
  BY <1>3, <1>6

\* One commit of decisions: each is on evidence that was asked about.
LEMMA RulingsOK ==
  ASSUME NEW E \in SUBSET Evidence, NEW action \in Actions, NEW at \in Nat
  PROVE  /\ Rulings(E, action, at) \in Seq(Decision)
         /\ \A n \in 1..Len(Rulings(E, action, at)) : Rulings(E, action, at)[n].evidence \in E
<1> DEFINE Ruling(e) == [evidence |-> e, action |-> action, at |-> at]
           rulings == {Ruling(e) : e \in E}
           Each(ds) == \A e \in E : \E n \in DOMAIN ds : ds[n].evidence = e
<1>1. Cardinality(E) \in Nat /\ ExistsBijection(1..Cardinality(E), E)
  <2>1. IsFiniteSet(E)
    BY ProfilesAssumption, FS_Subset
  <2> QED
    BY <2>1, FS_CardinalityType
<1>2. \E ds \in [1..Cardinality(E) -> rulings] : Each(ds)
  <2>1. PICK f \in [1..Cardinality(E) -> E] : \A e \in E : \E n \in 1..Cardinality(E) : f[n] = e
    BY <1>1, Zenon DEF ExistsBijection, Bijection, Surjection
  <2> DEFINE ds == [n \in 1..Cardinality(E) |-> Ruling(f[n])]
  <2>2. \A n \in 1..Cardinality(E) : ds[n] = Ruling(f[n]) /\ ds[n].evidence = f[n]
    OBVIOUS
  <2>3. ds \in [1..Cardinality(E) -> rulings] /\ DOMAIN ds = 1..Cardinality(E)
    OBVIOUS
  <2> HIDE DEF ds, rulings
  <2>4. \A e \in E : \E n \in DOMAIN ds : ds[n].evidence = e
    BY <2>1, <2>2, <2>3
  <2> QED
    BY <2>3, <2>4, Zenon
<1>3. Rulings(E, action, at) \in [1..Cardinality(E) -> rulings]
  <2>1. Rulings(E, action, at) = CHOOSE ds \in [1..Cardinality(E) -> rulings] : Each(ds)
    BY Zenon DEF Rulings
  <2> QED
    BY <1>2, <2>1
<1>4. \A r \in rulings : r \in Decision /\ r.evidence \in E
  BY DEF Decision
<1> HIDE DEF rulings
<1> DEFINE ds == Rulings(E, action, at)
<1>5. ds \in [1..Cardinality(E) -> Decision]
  BY <1>3, <1>4
<1>6. ds \in Seq(Decision) /\ Len(ds) = Cardinality(E)
  <2> HIDE DEF ds
  <2> QED
    BY <1>1, <1>5
<1> QED
  BY <1>3, <1>4, <1>6

\* Decisions are on evidence that is there; those that a request brings are of
\* the kinds there are.
TrailInv ==
  /\ db.decisions \in Seq(Decision)
  /\ \A n \in 1..Len(db.decisions) : db.decisions[n].evidence \in db.evidence
  /\ \A s \in Sessions : req[s].what.op = "decide" =>
       req[s].what.evidence \subseteq Evidence /\ req[s].what.action \in Actions

\* No request changes what it asks for.
LEMMA AsksKeep ==
  ASSUME IInv, TrailInv, [Next]_vars, NEW t \in Sessions, req'[t].what.op = "decide"
  PROVE  req'[t].what.evidence \subseteq Evidence /\ req'[t].what.action \in Actions
<1>1. CASE req'[t] = req[t]
  BY <1>1 DEF TrailInv
<1>2. CASE req'[t] # req[t]
  <2>1. PICK s \in Sessions :
          \/ Begins(s) \/ Ends(s) \/ \E to : to # "idle" /\ Moves(s, to)
    BY <1>2 DEF Next, vars, Dies, UploadInserts, UploadPuts, Marks, Reconciles, Deletes, Purges,
       ImportStarts, ParsingStarts, ParsingEnds, Decides, Confirms, Refers, Activates
  <2>2. CASE \E to : to # "idle" /\ Moves(s, to)
    <3>1. req'[t].what = req[t].what
      BY <1>2, <2>2, MovesOne DEF IInv
    <3> QED
      BY <3>1 DEF TrailInv
  <2>3. CASE Ends(s)
    <3>1. s = t
      BY <1>2, <2>3, EndsOne DEF IInv
    <3>2. req'[t].what = NoRequest
      BY <2>3, <3>1 DEF Ends, IInv, ShapeInv
    <3> QED
      BY <3>2 DEF NoRequest
  <2>4. CASE Begins(s)
    <3> DEFINE Decisions == [op : {"decide"}, expected : 0..db.version,
                             evidence : (SUBSET Evidence) \ {{}}, action : Actions]
               Fit(r) == r.op = "decide" => r.evidence \subseteq Evidence /\ r.action \in Actions
    <3>1. s = t
      BY <1>2, <2>4, BeginsOne DEF IInv
    <3>2. PICK r : /\ Fit(r)
                   /\ req' = [req EXCEPT ![s] = [at |-> "begun", what |-> r]]
      <4>1. \A r \in Decisions : Fit(r)
        OBVIOUS
      <4> DEFINE A == [op : {"reconcile", "delete"}, asset : Assets]
                 B == [op : {"upload"}, asset : {a \in Assets : db.assets[a] = Unused}]
                 C == [op : {"import"}, asset : Assets,
                       import : {i \in Imports : db.imports[i] = Unused}]
                 D == [op : {"confirm"}, expected : 0..db.version,
                       import : {i \in Imports : Known(db, i)}]
                 G == [op : {"reference"}, expected : 0..db.version]
                 H == [op : {"activate"}, number : Numbers(db)]
      <4>2. \A r \in A : Fit(r)
        OBVIOUS
      <4>3. \A r \in B : Fit(r)
        OBVIOUS
      <4>4. \A r \in C : Fit(r)
        OBVIOUS
      <4>5. \A r \in D : Fit(r)
        OBVIOUS
      <4>6. \A r \in G : Fit(r)
        OBVIOUS
      <4>7. \A r \in H : Fit(r)
        OBVIOUS
      <4>8. \E r \in A \cup B \cup C \cup Decisions \cup D \cup G \cup H :
              req' = [req EXCEPT ![s] = [at |-> "begun", what |-> r]]
        BY <2>4 DEF Begins
      <4> HIDE DEF A, B, C, D, G, H, Decisions, Fit
      <4> QED
        BY <4>1, <4>2, <4>3, <4>4, <4>5, <4>6, <4>7, <4>8
    <3>3. req'[t].what = r
      BY <3>1, <3>2 DEF IInv, ShapeInv
    <3> QED
      BY <3>2, <3>3
  <2> QED
    BY <2>1, <2>2, <2>3, <2>4
<1> QED
  BY <1>1, <1>2

\* Decisions keep their evidence: both go with their import, and a decision is
\* only made while its evidence is there.
LEMMA TrailPreserved == IInv /\ TrailInv /\ [Next]_vars => TrailInv'
<1> SUFFICES ASSUME IInv, TrailInv, [Next]_vars PROVE TrailInv'
  OBVIOUS
<1> DEFINE Kept == /\ db'.decisions \in Seq(Decision)
                   /\ \A n \in 1..Len(db'.decisions) : db'.decisions[n].evidence \in db'.evidence
<1>1. ASSUME Kept PROVE TrailInv'
  BY <1>1, AsksKeep DEF TrailInv
<1>2. RowsOK(db) /\ DOMAIN db = RowNames
  BY DEF IInv, ShapeInv, RowsOK
<1>3. ASSUME db'.decisions = db.decisions, db.evidence \subseteq db'.evidence PROVE Kept
  BY <1>3 DEF TrailInv
<1>4. ASSUME NEW s \in Sessions, Deletes(s) PROVE Kept
  <2> DEFINE a == req[s].what.asset
             gone == IF ImportsOf(snap[s], a) = {} THEN {} ELSE ImportsOf(db, a)
  <2>1. a \in Assets
    BY <1>4 DEF Deletes, Serves, IInv, ShapeInv, RequestOK
  <2>2. /\ db'.decisions = Remaining(db.decisions, gone)
        /\ db'.evidence = {e \in db.evidence : FoundBy[e] \notin gone}
    BY <1>4, <2>1, WithoutFields DEF Deletes, IInv
  <2> HIDE DEF gone
  <2> QED
    BY <2>2, RemainingOK DEF TrailInv
<1>5. ASSUME NEW s \in Sessions, Decides(s) PROVE Kept
  <2> DEFINE r == req[s].what
  <2>1. r.evidence \subseteq Evidence /\ r.action \in Actions /\ r.evidence \subseteq db.evidence
    BY <1>5 DEF Decides, Serves, TrailInv
  <2>2. LastTime(db) \in Nat
    <3>1. CASE db.decisions = <<>>
      BY <3>1 DEF LastTime
    <3>2. CASE db.decisions # <<>>
      <4>1. Len(db.decisions) \in 1..Len(db.decisions)
        BY <3>2 DEF TrailInv
      <4>2. db.decisions[Len(db.decisions)] \in Decision
        BY <4>1, ElementOfSeq DEF TrailInv
      <4> QED
        BY <3>2, <4>2 DEF LastTime, Decision
    <3> QED
      BY <3>1, <3>2
  <2>3. PICK at \in {LastTime(db), LastTime(db) + 1} :
          db' = [db EXCEPT !.decisions = @ \o Rulings(r.evidence, r.action, at),
                           !.version = @ + 1]
    BY <1>5 DEF Decides
  <2>4. at \in Nat
    BY <2>2
  <2> DEFINE more == Rulings(r.evidence, r.action, at)
  <2>5. more \in Seq(Decision) /\ \A n \in 1..Len(more) : more[n].evidence \in r.evidence
    BY <2>1, <2>4, RulingsOK
  <2>6. db'.decisions = db.decisions \o more /\ db'.evidence = db.evidence
    <3> HIDE DEF more
    <3> QED
      BY <2>3, <1>2 DEF RowNames, more
  <2> HIDE DEF more, r
  <2>7. /\ db.decisions \o more \in Seq(Decision)
        /\ Len(db.decisions \o more) = Len(db.decisions) + Len(more)
        /\ \A i \in 1..Len(db.decisions) + Len(more) : (db.decisions \o more)[i] =
             IF i <= Len(db.decisions) THEN db.decisions[i] ELSE more[i - Len(db.decisions)]
    BY <2>5, ConcatProperties DEF TrailInv
  <2>8. ASSUME NEW i \in 1..Len(db.decisions) + Len(more)
        PROVE  (db.decisions \o more)[i].evidence \in db.evidence
    <3>1. Len(db.decisions) \in Nat /\ Len(more) \in Nat
      BY <2>5 DEF TrailInv
    <3>2. CASE i <= Len(db.decisions)
      <4>1. i \in 1..Len(db.decisions)
        BY <3>1, <3>2
      <4> QED
        BY <2>7, <3>2, <4>1 DEF TrailInv
    <3>3. CASE ~ (i <= Len(db.decisions))
      <4>1. i - Len(db.decisions) \in 1..Len(more)
        BY <3>1, <3>3
      <4> QED
        BY <2>1, <2>5, <2>7, <3>3, <4>1
    <3> QED
      BY <3>2, <3>3
  <2> QED
    BY <2>6, <2>7, <2>8
<1>6. ASSUME NEW s \in Sessions,
             \/ Begins(s) \/ Dies(s) \/ UploadPuts(s) \/ Reconciles(s) \/ Purges(s)
             \/ ParsingStarts(s)
      PROVE  Kept
  <2>1. db' = db
    BY <1>6 DEF Begins, Dies, UploadPuts, Reconciles, Purges, ParsingStarts
  <2> QED
    BY <1>3, <2>1
<1>7. ASSUME NEW s \in Sessions,
             \/ UploadInserts(s) \/ Marks(s) \/ ImportStarts(s) \/ ParsingEnds(s)
             \/ Confirms(s) \/ Refers(s) \/ Activates(s)
      PROVE  Kept
  <2>1. CASE UploadInserts(s)
    BY <2>1, <1>2, <1>3 DEF UploadInserts, RowNames
  <2>2. CASE Marks(s)
    BY <2>2, <1>2, <1>3 DEF Marks, RowNames
  <2>3. CASE ImportStarts(s)
    BY <2>3, <1>2, <1>3 DEF ImportStarts, RowNames
  <2>4. CASE ParsingEnds(s)
    BY <2>4, <1>2, <1>3 DEF ParsingEnds, RowNames
  <2>5. CASE Confirms(s)
    <3>1. db'.decisions = db.decisions /\ db'.evidence = db.evidence
      BY <2>5, <1>2 DEF Confirms, RowNames
    <3> QED
      BY <3>1, <1>3
  <2>6. CASE Refers(s)
    BY <2>6, <1>2, <1>3 DEF Refers, RowNames
  <2>7. CASE Activates(s)
    BY <2>7, <1>2, <1>3 DEF Activates, RowNames
  <2> QED
    BY <1>7, <2>1, <2>2, <2>3, <2>4, <2>5, <2>6, <2>7
<1>8. CASE UNCHANGED vars
  BY <1>8, <1>1, <1>3 DEF vars
<1> HIDE DEF Kept
<1> QED
  BY <1>1, <1>4, <1>5, <1>6, <1>7, <1>8 DEF Next

\* At the start there is no decision.
LEMMA InitTrail == Init => TrailInv
<1> SUFFICES ASSUME Init PROVE TrailInv
  OBVIOUS
<1>1. db.decisions = <<>> /\ <<>> \in Seq(Decision) /\ Len(<<>>) = 0
  BY DEF Init, NoRows
<1>2. \A s \in Sessions : req[s].what = NoRequest
  BY DEF Init
<1> QED
  BY <1>1, <1>2 DEF TrailInv, NoRequest

----------------------------------------------------------------------------
(* What follows.                                                           *)

\* A file that is ready has its object, for any number of uploads,
\* reconciliations and deletions that interleave or die (create_pending_asset,
\* mark_ready, reconcile, delete_asset and purge_object).
THEOREM ReadyFilesHaveObjects == Spec => []ReadyHasObject
<1>1. IInv => ReadyHasObject
  BY DEF IInv, FilesInv
<1> QED
  BY Inductive, <1>1, PTL

\* No import outlives its file, no evidence its import and no decision its
\* evidence, although delete_asset only deletes the imports its snapshot shows.
THEOREM NothingIsOrphaned == Spec => []NothingDangles
<1>1. IInv /\ TrailInv => NothingDangles
  BY DEF IInv, ImportsInv, TrailInv, NothingDangles
<1> QED
  BY Inductive, InitTrail, TrailPreserved, <1>1, PTL DEF Spec

\* A version is made of the latest decisions at its commit, although
\* create_confirmed_version reads them from its snapshot: what it compares
\* under the lock is the version of the profile, which every decision raises.
THEOREM VersionsAreLatest == Spec => ConfirmsLatest
<1> DEFINE Latest_(v) == \A ref \in v.refs : ref[2] \in Latest(db, ref[1])
<1>1. ASSUME IInv, [Next]_vars
      PROVE  \A v \in db'.versions \ db.versions : Latest_(v)
  <2>1. CASE db'.versions = db.versions
    BY <2>1
  <2>2. ASSUME NEW s \in Sessions, Confirms(s)
        PROVE  \A v \in db'.versions \ db.versions : Latest_(v)
    <3> DEFINE i == req[s].what.import
               found == EvidenceOf(snap[s], i)
               number == NextNumber(snap[s])
               Version(chosen) ==
                 [number |-> number, aggregate |-> db.version + 1, of |-> i,
                  refs |-> {<<e, chosen[e]>> : e \in {x \in found : chosen[x].action # "ignore"}}]
    <3>1. PICK chosen :
            /\ \A e \in found : chosen[e] \in Latest(snap[s], e)
            /\ db'.versions = db.versions \cup {Version(chosen)}
      BY <1>1, <2>2 DEF Confirms, IInv, ShapeInv, RowsOK, RowNames
    <3>2. snap[s].decisions = db.decisions
      <4>1. /\ req[s].at = "begun" /\ req[s].what.op = "confirm"
            /\ db.version = req[s].what.expected
        BY <2>2 DEF Confirms, Serves, Current
      <4>2. DecisionsOf(s) /\ RowsOK(db) /\ RowsOK(snap[s])
        BY <1>1 DEF IInv, DecisionsInv, ShapeInv
      <4> QED
        BY <4>1, <4>2 DEF DecisionsOf, RowsOK
    <3>3. \A e : Latest(snap[s], e) = Latest(db, e)
      BY <3>2 DEF Latest, DecisionsOn
    <3> QED
      BY <3>1, <3>3
  <2>3. CASE ~ \E s \in Sessions : Confirms(s)
    <3>1. CASE UNCHANGED vars
      BY <3>1 DEF vars
    <3>2. CASE Next
      <4>s. ShapeInv /\ RowsOK(db)
        BY <1>1 DEF IInv, ShapeInv
      <4>0. PICK s \in Sessions :
              \/ Begins(s) \/ Dies(s)
              \/ UploadInserts(s) \/ UploadPuts(s) \/ Marks(s) \/ Reconciles(s)
              \/ Deletes(s) \/ Purges(s)
              \/ ImportStarts(s) \/ ParsingStarts(s) \/ ParsingEnds(s)
              \/ Decides(s) \/ Refers(s) \/ Activates(s)
        BY <2>3, <3>2 DEF Next
      <4>1. CASE Begins(s) \/ Dies(s) \/ UploadPuts(s) \/ Reconciles(s) \/ Purges(s) \/ ParsingStarts(s)
        BY <4>1, <2>1 DEF Begins, Dies, UploadPuts, Reconciles, Purges, ParsingStarts
      <4>2. CASE UploadInserts(s) \/ Marks(s) \/ ImportStarts(s) \/ ParsingEnds(s) \/ Activates(s)
        <5>1. db'.versions = db.versions
          BY <4>2, <4>s DEF UploadInserts, Marks, ImportStarts, ParsingEnds, Activates, RowsOK, RowNames
        <5> QED
          BY <5>1, <2>1
      <4>3. CASE Decides(s) \/ Refers(s)
        <5>1. db'.versions = db.versions
          BY <4>3, <4>s DEF Decides, Refers, RowsOK, RowNames
        <5> QED
          BY <5>1, <2>1
      <4>4. CASE Deletes(s)
        <5>1. req[s].what.asset \in Assets /\ db' = Without(db, req[s].what.asset, s)
          BY <4>4, <4>s DEF Deletes, Serves, ShapeInv, RequestOK
        <5>2. db'.versions = db.versions
          BY <5>1, <4>s, WithoutFields
        <5> QED
          BY <5>2, <2>1
      <4> QED
        BY <4>0, <4>1, <4>2, <4>3, <4>4
    <3> QED
      BY <1>1, <3>1, <3>2
  <2> QED
    BY <2>2, <2>3
<1> QED
  BY Inductive, <1>1, PTL DEF Spec, ConfirmsLatest
=============================================================================
