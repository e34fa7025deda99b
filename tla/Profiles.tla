------------------------------ MODULE Profiles ------------------------------
(***************************************************************************)
(* The talent profile of one user: resume files, their imports, the        *)
(* decisions on what an import found, and the confirmed versions that the  *)
(* agent reads (backend/app/services/profiles.py, the routes that call it, *)
(* repositories/profiles.py and the encrypted object store).               *)
(*                                                                         *)
(* Every request reads the snapshot its session took when it authenticated *)
(* (InnoDB, repeatable read); only the profile row is read again, locked,  *)
(* by get_profile_for_update.  What happens under that lock up to the      *)
(* commit is one step: nothing it reads can change meanwhile.  A request   *)
(* may die at any point, with what it has not committed.                   *)
(***************************************************************************)
EXTENDS Naturals, Sequences, FiniteSets

CONSTANTS
  Sessions,      \* requests being served
  Assets,        \* resume files, each uploaded at most once (a new UUID)
  Imports,       \* imports, each started at most once
  Evidence,      \* what the parser finds
  FoundBy,       \* FoundBy[e]: the import that finds e
  MaxVersion     \* bound: version of the profile, imports of files included

ASSUME ProfilesAssumption ==
  /\ FoundBy \in [Evidence -> Imports]
  /\ IsFiniteSet(Evidence)
  /\ MaxVersion \in Nat

Unused  == "unused"
Deleted == "deleted"

AssetStatus  == {Unused, "pending_upload", "ready", "upload_failed", Deleted}
ImportStatus == {Unused, "pending", "awaiting_confirmation", "needs_manual_entry",
                 "failed", Deleted}

\* "confirm" stands for "correct" too, which only brings another value.
Actions == {"confirm", "ignore"}

Decision  == [evidence : Evidence, action : Actions, at : Nat]
Confirmed == [number : Nat, aggregate : Nat, of : Imports, refs : SUBSET (Evidence \X Decision)]

VARIABLES
  db,      \* the committed rows
  store,   \* files with an object in the encrypted store
  req,     \* req[s]: the request that session s serves
  snap     \* snap[s]: the rows that session s reads

vars == <<db, store, req, snap>>

\* decisions are in the order of their commits; an import that is being
\* parsed is "pending" for everybody else.
Rows == [version : Nat, active : Nat,
         assets : [Assets -> AssetStatus],
         imports : [Imports -> ImportStatus],
         source : [Imports -> Assets],
         evidence : SUBSET Evidence,
         decisions : Seq(Decision),
         versions : SUBSET Confirmed]

Requests ==
  [op : {"upload", "reconcile", "delete"}, asset : Assets]
    \cup [op : {"import"}, asset : Assets, import : Imports]
    \cup [op : {"decide"}, expected : Nat, evidence : SUBSET Evidence, action : Actions]
    \cup [op : {"confirm"}, expected : Nat, import : Imports]
    \cup [op : {"reference"}, expected : Nat]
    \cup [op : {"activate"}, number : Nat]

Stages == {"idle", "begun", "put", "mark_ready", "mark_failed", "process", "parsing", "purge"}
NoRequest == [op |-> "none"]

TypeOK ==
  /\ db \in Rows
  /\ store \subseteq Assets
  /\ \A s \in Sessions :
       /\ req[s].at \in Stages
       /\ req[s].what \in Requests \cup {NoRequest}
       /\ snap[s] \in Rows

NoRows == [version |-> 0, active |-> 0,
           assets |-> [a \in Assets |-> Unused],
           imports |-> [i \in Imports |-> Unused],
           source |-> [i \in Imports |-> CHOOSE a \in Assets : TRUE],
           evidence |-> {}, decisions |-> <<>>, versions |-> {}]

\* The user has a profile, which get_profile or the first upload inserted.
Init ==
  /\ db = NoRows /\ store = {}
  /\ req = [s \in Sessions |-> [at |-> "idle", what |-> NoRequest]]
  /\ snap = [s \in Sessions |-> NoRows]

----------------------------------------------------------------------------
(* What a session reads.                                                   *)

Exists(status) == status \notin {Unused, Deleted}

ImportsOf(rows, a) == {i \in Imports : Exists(rows.imports[i]) /\ rows.source[i] = a}
Known(rows, i) == Exists(rows.imports[i]) /\ rows.imports[i] # "pending"
EvidenceOf(rows, i) == {e \in rows.evidence : FoundBy[e] = i}

DecisionsOn(rows, e) ==
  {rows.decisions[n] : n \in {m \in 1..Len(rows.decisions) : rows.decisions[m].evidence = e}}

\* latest_decisions_by_evidence compares created_at alone: of the decisions
\* of one second any may be the one that is returned.
Latest(rows, e) ==
  {d \in DecisionsOn(rows, e) : \A x \in DecisionsOn(rows, e) : x.at <= d.at}

LastTime(rows) == IF rows.decisions = <<>> THEN 0 ELSE rows.decisions[Len(rows.decisions)].at

Numbers(rows) == {v.number : v \in rows.versions}
NextNumber(rows) == CHOOSE n \in 1..(Cardinality(rows.versions) + 1) :
                      n \notin Numbers(rows) /\ \A m \in Numbers(rows) : m < n

----------------------------------------------------------------------------
(* A request begins with a snapshot, and may die or be refused.            *)

\* What a request does after its first commit or write reads nothing old.
Moves(s, to) ==
  /\ req' = [req EXCEPT ![s].at = to]
  /\ snap' = [snap EXCEPT ![s] = NoRows]

\* The connection goes back to the pool: what is not committed is lost.
Ends(s) ==
  /\ req' = [req EXCEPT ![s] = [at |-> "idle", what |-> NoRequest]]
  /\ snap' = [snap EXCEPT ![s] = NoRows]

\* The expected version is one the client has read, and the identifier of an
\* import comes from the response to it or with its evidence.
Begins(s) ==
  /\ req[s].at = "idle"
  /\ \E r \in [op : {"reconcile", "delete"}, asset : Assets]
             \cup [op : {"upload"}, asset : {a \in Assets : db.assets[a] = Unused}]
             \cup [op : {"import"}, asset : Assets,
                   import : {i \in Imports : db.imports[i] = Unused}]
             \cup [op : {"decide"}, expected : 0..db.version,
                   evidence : (SUBSET Evidence) \ {{}}, action : Actions]
             \cup [op : {"confirm"}, expected : 0..db.version, import : {i \in Imports : Known(db, i)}]
             \cup [op : {"reference"}, expected : 0..db.version]
             \cup [op : {"activate"}, number : Numbers(db)] :
       req' = [req EXCEPT ![s] = [at |-> "begun", what |-> r]]
  /\ snap' = [snap EXCEPT ![s] = db]
  /\ UNCHANGED <<db, store>>

\* A crash, a lost connection, the victim of a deadlock.
Dies(s) ==
  /\ req[s].at # "idle"
  /\ Ends(s)
  /\ UNCHANGED <<db, store>>

Serves(s, op, at) == req[s].at = at /\ req[s].what.op = op

----------------------------------------------------------------------------
(* Files.                                                                  *)

\* create_pending_asset, committed before the object is written.
UploadInserts(s) ==
  /\ Serves(s, "upload", "begun")
  /\ db.assets[req[s].what.asset] = Unused
  /\ db' = [db EXCEPT !.assets[req[s].what.asset] = "pending_upload"]
  /\ Moves(s, "put")
  /\ UNCHANGED store

\* The row is marked ready whatever became of the write.
UploadMarksFirst(s) ==
  /\ Serves(s, "upload", "put")
  /\ store' \in {store, store \cup {req[s].what.asset}}
  /\ Moves(s, "mark_ready")
  /\ UNCHANGED db

\* A write that raised may still have stored the object.
UploadPuts(s) ==
  LET a == req[s].what.asset IN
  /\ Serves(s, "upload", "put")
  /\ \/ store' = store \cup {a} /\ Moves(s, "mark_ready")
     \/ store' \in {store, store \cup {a}} /\ Moves(s, "mark_failed")
  /\ UNCHANGED db

\* An update of a row deleted meanwhile raises StaleDataError.
Marks(s) ==
  LET a == req[s].what.asset IN
  /\ req[s].at \in {"mark_ready", "mark_failed"}
  /\ db' = IF Exists(db.assets[a])
           THEN [db EXCEPT !.assets[a] =
                   IF req[s].at = "mark_ready" THEN "ready" ELSE "upload_failed"]
           ELSE db
  /\ Ends(s)
  /\ UNCHANGED store

Reconciles(s) ==
  LET a == req[s].what.asset IN
  /\ Serves(s, "reconcile", "begun")
  /\ \/ /\ snap[s].assets[a] \in {"pending_upload", "upload_failed"} /\ a \in store
        /\ Moves(s, "mark_ready")
     \/ Ends(s)
  /\ UNCHANGED <<db, store>>

\* Mutant: a database that does not enforce foreign keys.
Unrestricted(s) == FALSE

\* Nothing but the foreign key (ON DELETE RESTRICT) stops the deletion of a
\* file whose first import the snapshot does not show.  An import that is
\* being parsed holds its row.
Restricted(s) ==
  LET a == req[s].what.asset IN
  ImportsOf(snap[s], a) = {} /\ ImportsOf(db, a) # {}

ParsedNow(a) == \E t \in Sessions : req[t].at = "parsing" /\ req[t].what.asset = a

\* The decisions, in their order, but for those on evidence of lost imports.
Remaining(decisions, gone) ==
  LET Kept[n \in 0..Len(decisions)] ==
        IF n = 0 THEN <<>>
        ELSE IF FoundBy[decisions[n].evidence] \in gone THEN Kept[n - 1]
        ELSE Append(Kept[n - 1], decisions[n])
  IN Kept[Len(decisions)]

\* The rows without the file; if the snapshot shows an import of it, without
\* its imports, their evidence and the decisions on it.
Without(rows, a, s) ==
  LET gone == IF ImportsOf(snap[s], a) = {} THEN {} ELSE ImportsOf(rows, a) IN
  [rows EXCEPT
     !.assets[a] = Deleted,
     !.imports = [i \in Imports |-> IF i \in gone THEN Deleted ELSE rows.imports[i]],
     !.evidence = {e \in rows.evidence : FoundBy[e] \notin gone},
     !.decisions = Remaining(rows.decisions, gone),
     !.version = @ + 1]

\* Mutant: the object is deleted before the rows, and the commit may fail.
DeletesObjectFirst(s) ==
  LET a == req[s].what.asset IN
  /\ Serves(s, "delete", "begun")
  /\ Exists(snap[s].assets[a]) /\ ~Restricted(s) /\ ~ParsedNow(a)
  /\ db.version < MaxVersion
  /\ store' = store \ {a}
  /\ db' \in {db, Without(db, a, s)}
  /\ Ends(s)

Deletes(s) ==
  LET a == req[s].what.asset IN
  /\ Serves(s, "delete", "begun")
  /\ Exists(snap[s].assets[a]) /\ ~Restricted(s) /\ ~ParsedNow(a)
  /\ db.version < MaxVersion
  /\ db' = Without(db, a, s)
  /\ Moves(s, "purge")
  /\ UNCHANGED store

\* purge_object, after the commit; its failure is only logged.
Purges(s) ==
  /\ Serves(s, "delete", "purge")
  /\ store' \in {store, store \ {req[s].what.asset}}
  /\ Ends(s)
  /\ UNCHANGED db

----------------------------------------------------------------------------
(* Imports.                                                                *)

\* The insert needs the row of the file, which may be gone.
ImportStarts(s) ==
  LET r == req[s].what IN
  /\ Serves(s, "import", "begun")
  /\ snap[s].assets[r.asset] = "ready" /\ Exists(db.assets[r.asset])
  /\ db.imports[r.import] = Unused
  /\ db' = [db EXCEPT !.imports[r.import] = "pending", !.source[r.import] = r.asset]
  /\ Moves(s, "process")
  /\ UNCHANGED store

\* Mutant: the mark is committed and can be seen.
ParsingCommits(s) ==
  /\ Serves(s, "import", "process")
  /\ Exists(db.imports[req[s].what.import])
  /\ db' = [db EXCEPT !.imports[req[s].what.import] = "parsing"]
  /\ Moves(s, "parsing")
  /\ UNCHANGED store

\* process takes a snapshot of its own and locks the row it marks PARSING.
ParsingStarts(s) ==
  /\ Serves(s, "import", "process")
  /\ Exists(db.imports[req[s].what.import])
  /\ Moves(s, "parsing")
  /\ UNCHANGED <<db, store>>

\* Reading the object may fail; the text may be out of the parser's reach;
\* otherwise evidence and status are committed together, and the version of
\* the profile stays.
ParsingEnds(s) ==
  LET i == req[s].what.import IN
  /\ Serves(s, "import", "parsing")
  /\ \/ \E status \in {"failed", "needs_manual_entry"} :
          db' = [db EXCEPT !.imports[i] = status]
     \/ \E found \in SUBSET {e \in Evidence : FoundBy[e] = i} :
          db' = [db EXCEPT !.imports[i] = "awaiting_confirmation",
                           !.evidence = @ \cup found]
  /\ Ends(s)
  /\ UNCHANGED store

----------------------------------------------------------------------------
(* Decisions and versions: the profile is locked and its version compared. *)

\* Mutant: the version of the profile is not compared.
AnyVersion(s) == db.version < MaxVersion

Current(s) == db.version = req[s].what.expected /\ db.version < MaxVersion

\* One decision per piece of evidence, all in the same commit.
Rulings(E, action, at) ==
  CHOOSE ds \in [1..Cardinality(E) -> {[evidence |-> e, action |-> action, at |-> at] : e \in E}] :
    \A e \in E : \E n \in DOMAIN ds : ds[n].evidence = e

\* The rows of evidence are those of the snapshot, and each must still be
\* there to be referred to.
Decides(s) ==
  LET r == req[s].what IN
  /\ Serves(s, "decide", "begun")
  /\ Current(s)
  /\ r.evidence \subseteq snap[s].evidence \cap db.evidence
  /\ \E at \in {LastTime(db), LastTime(db) + 1} :
       db' = [db EXCEPT !.decisions = @ \o Rulings(r.evidence, r.action, at),
                        !.version = @ + 1]
  /\ Ends(s)
  /\ UNCHANGED store

\* create_confirmed_version: import, evidence and decisions of the snapshot.
\* The number is unique by constraint.
Confirms(s) ==
  LET i == req[s].what.import
      found == EvidenceOf(snap[s], i)
      number == NextNumber(snap[s])
  IN
  /\ Serves(s, "confirm", "begun")
  /\ Exists(snap[s].imports[i])
  /\ Current(s)
  /\ \A e \in found : DecisionsOn(snap[s], e) # {}
  /\ number \notin Numbers(db)
  /\ \E chosen \in [found -> UNION {Latest(snap[s], e) : e \in found}] :
       /\ \A e \in found : chosen[e] \in Latest(snap[s], e)
       /\ db' = [db EXCEPT
            !.versions = @ \cup
               {[number |-> number, aggregate |-> db.version + 1, of |-> i,
                 refs |-> {<<e, chosen[e]>> : e \in {x \in found : chosen[x].action # "ignore"}}]},
            !.active = number,
            !.version = @ + 1]
  /\ Ends(s)
  /\ UNCHANGED store

\* update_local_sensitive_reference.
Refers(s) ==
  /\ Serves(s, "reference", "begun")
  /\ Current(s)
  /\ db' = [db EXCEPT !.version = @ + 1]
  /\ Ends(s)
  /\ UNCHANGED store

\* A selection: the version of the profile is neither compared nor raised.
Activates(s) ==
  /\ Serves(s, "activate", "begun")
  /\ db' = [db EXCEPT !.active = req[s].what.number]
  /\ Ends(s)
  /\ UNCHANGED store

Next ==
  \E s \in Sessions :
    \/ Begins(s) \/ Dies(s)
    \/ UploadInserts(s) \/ UploadPuts(s) \/ Marks(s) \/ Reconciles(s)
    \/ Deletes(s) \/ Purges(s)
    \/ ImportStarts(s) \/ ParsingStarts(s) \/ ParsingEnds(s)
    \/ Decides(s) \/ Confirms(s) \/ Refers(s) \/ Activates(s)

Spec == Init /\ [][Next]_vars

----------------------------------------------------------------------------
(* Properties.                                                             *)

\* A file that is ready has its object, whatever uploads, reconciliations and
\* deletions interleave or die: an object is written before its row says so
\* and deleted only after its row is gone (docstring of delete_asset).
ReadyHasObject == \A a \in Assets : db.assets[a] = "ready" => a \in store

ImportsHaveFiles == \A i \in Imports : Exists(db.imports[i]) => Exists(db.assets[db.source[i]])
EvidenceHasImports == \A e \in db.evidence : Exists(db.imports[FoundBy[e]])

\* Imports keep their file, evidence its import and decisions their evidence,
\* although a deletion only knows the imports of its snapshot.
NothingDangles ==
  /\ ImportsHaveFiles
  /\ EvidenceHasImports
  /\ \A n \in 1..Len(db.decisions) : db.decisions[n].evidence \in db.evidence

\* The decisions a version is made of are the latest ones at its commit,
\* although they were read from the snapshot, before the lock.
ConfirmsLatest ==
  [][\A v \in db'.versions \ db.versions :
       \A ref \in v.refs : ref[2] \in Latest(db, ref[1])]_vars

\* The decision a version is made of is the last one that was committed, not
\* only one of the latest time (latest_decisions_by_evidence).  Violated by
\* ProfilesTie.cfg: decisions of one instant are ordered by a random id.
ConfirmsLast ==
  [][\A v \in db'.versions \ db.versions :
       \A ref \in v.refs :
         \E n \in 1..Len(db.decisions) :
           /\ db.decisions[n] = ref[2]
           /\ \A m \in n + 1..Len(db.decisions) : db.decisions[m].evidence # ref[1]]_vars
=============================================================================
