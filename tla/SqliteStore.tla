---------------------------- MODULE SqliteStore ----------------------------
(***************************************************************************)
(* The SQLite event store: opening a database file and appending to one     *)
(* workload stream, by several handles in processes of their own that may   *)
(* die at any point.                                                       *)
(*                                                                         *)
(* A file is what its last committed transaction left: the schema version,  *)
(* the row of aggregate_versions, the rows of events and the projection     *)
(* document.  The document is the set of event rows folded into it.  A      *)
(* handle that is in a transaction works on a copy; SQLite's write lock,    *)
(* atomic commit and rollback are external, as is the file system: path is  *)
(* the file the name leads to, which can be unlinked while it is in use.    *)
(***************************************************************************)
EXTENDS Naturals, FiniteSets

CONSTANTS Handles,
          None,        \* no handle holds a lock
          MaxFiles,    \* bound: files created under the name
          MaxVersion,  \* bound: events of the stream
          MaxBatch     \* bound: drafts of one append

currentSchemaVersion == 1
NoFile == 0

ASSUME StoreAssumption ==
  {MaxFiles, MaxVersion, MaxBatch} \subseteq Nat /\ MaxFiles > 0 /\ None \notin Handles

Blank(schema) == [schema |-> schema, version |-> 0, rows |-> {}, document |-> {}]

VARIABLES files,   \* committed contents of every file there has been
          path,    \* the file the database's name leads to, or NoFile
          lock,    \* the handle that has each file's write lock
          handle,  \* the state of each handle
          acked    \* history: rows of the appends that returned success, with their file

vars == <<files, path, lock, handle, acked>>

Closed == [pc |-> "closed", file |-> NoFile, created |-> FALSE, expected |-> 0, n |-> 0,
           tx |-> Blank(0)]

\* No file, one of this build, or one of a later build.
Init ==
  /\ \/ files = <<>> /\ path = NoFile
     \/ path = 1 /\ \E v \in {currentSchemaVersion, currentSchemaVersion + 1} : files = <<Blank(v)>>
  /\ lock = [f \in 1 .. MaxFiles |-> None]
  /\ handle = [h \in Handles |-> Closed]
  /\ acked = {}

Goto(h, pc) == handle' = [handle EXCEPT ![h].pc = pc]

\* A new file under the name.
CreateFile ==
  /\ Cardinality(DOMAIN files) < MaxFiles
  /\ path' = Cardinality(DOMAIN files) + 1
  /\ files' = [f \in DOMAIN files \cup {path'} |-> IF f = path' THEN Blank(0) ELSE files[f]]

-----------------------------------------------------------------------------
\* ensureDatabaseFile creates the file if there is none.
EnsureFile(h) ==
  /\ handle[h].pc = "closed"
  /\ \/ /\ path = NoFile
        /\ CreateFile
        /\ handle' = [handle EXCEPT ![h].pc = "inspect", ![h].created = TRUE]
     \/ /\ path # NoFile
        /\ handle' = [handle EXCEPT ![h].pc = "inspect", ![h].created = FALSE]
        /\ UNCHANGED <<files, path>>
  /\ UNCHANGED <<lock, acked>>

\* inspectSchemaVersion reads the version; a newer one is refused and the file left alone.
Inspect(h) ==
  /\ handle[h].pc = "inspect"
  /\ path # NoFile
  /\ IF files[path].schema > currentSchemaVersion
     THEN handle' = [handle EXCEPT ![h] = Closed]
     ELSE Goto(h, "connect")
  /\ UNCHANGED <<files, path, lock, acked>>

\* The connection opens what the name leads to by now, and creates a file if that is nothing.
Connect(h) ==
  /\ handle[h].pc = "connect"
  /\ \/ path # NoFile /\ UNCHANGED <<files, path>>
     \/ path = NoFile /\ CreateFile
  /\ handle' = [handle EXCEPT ![h].pc = "initialize", ![h].file = path']
  /\ UNCHANGED <<lock, acked>>

\* The schema is installed in one transaction, unless it is there.
Initialize(h) ==
  LET f == handle[h].file IN
  /\ handle[h].pc = "initialize"
  /\ lock[f] = None
  /\ files[f].schema <= currentSchemaVersion
  /\ files' = [files EXCEPT ![f].schema = currentSchemaVersion]
  /\ Goto(h, "verify")
  /\ UNCHANGED <<path, lock, acked>>

\* The settings of the connection are as they should be: the store is open.
Verify(h) ==
  /\ handle[h].pc = "verify"
  /\ Goto(h, "open")
  /\ UNCHANGED <<files, path, lock, acked>>

\* Any step of opening fails: a context that ends, a missing file, a lock that is not
\* granted.  cleanupNewDatabase removes the name's file if this handle created one.
FailOpen(h) ==
  /\ handle[h].pc \in {"inspect", "connect", "initialize", "verify"}
  /\ path' = IF handle[h].created THEN NoFile ELSE path
  /\ handle' = [handle EXCEPT ![h] = Closed]
  /\ UNCHANGED <<files, lock, acked>>

-----------------------------------------------------------------------------
File(h) == handle[h].file

\* The caller appends n drafts at the sequence it expects.
Append(h) ==
  /\ handle[h].pc = "open"
  /\ \E expected \in 0 .. MaxVersion, n \in 1 .. MaxBatch :
       /\ expected + n <= MaxVersion
       /\ handle' = [handle EXCEPT ![h].pc = "begin", ![h].expected = expected, ![h].n = n]
  /\ UNCHANGED <<files, path, lock, acked>>

\* Faulty variant: the transaction is not immediate and does not wait for the write lock.
MayBeginAnyway(h) == TRUE

\* BEGIN IMMEDIATE waits for the write lock of the file.
MayBegin(h) == lock[File(h)] = None

Begin(h) ==
  /\ handle[h].pc = "begin"
  /\ MayBegin(h)
  /\ lock' = [lock EXCEPT ![File(h)] = h]
  /\ handle' = [handle EXCEPT ![h].pc = "claim", ![h].tx = files[File(h)]]
  /\ UNCHANGED <<files, path, acked>>

\* The transaction ends without a commit, and the append with an error.
Rollback(h) ==
  /\ lock' = [lock EXCEPT ![File(h)] = IF @ = h THEN None ELSE @]
  /\ handle' = [handle EXCEPT ![h].pc = "open", ![h].tx = Blank(0), ![h].expected = 0, ![h].n = 0]
  /\ UNCHANGED <<files, path, acked>>

\* The version after the claim.
Claimed(h) == handle[h].expected + handle[h].n

\* The version row is claimed only at the expected version: else a version conflict.
Claim(h) ==
  /\ handle[h].pc = "claim"
  /\ IF handle[h].tx.version = handle[h].expected
     THEN /\ handle' = [handle EXCEPT ![h].pc = "insert", ![h].tx.version = Claimed(h)]
          /\ UNCHANGED <<files, path, lock, acked>>
     ELSE Rollback(h)

\* The rows of this append.
Rows(h) ==
  {[sequence |-> handle[h].expected + i, by |-> h] : i \in 1 .. handle[h].n}

Insert(h) ==
  /\ handle[h].pc = "insert"
  /\ handle' = [handle EXCEPT ![h].pc = "project", ![h].tx.rows = @ \cup Rows(h)]
  /\ UNCHANGED <<files, path, lock, acked>>

\* loadWorkloadProjectionTx: the document must be at the version the append started from.
ProjectionMatches(tx, expected) == Cardinality(tx.document) = expected

\* Faulty variant: the projection is left for later.
ProjectedLater(h) == handle[h].tx.document

\* The document with the events of this append applied.
Projected(h) == handle[h].tx.document \cup Rows(h)

\* The projection takes the events, or rejects one and the whole append with it.
Project(h) ==
  /\ handle[h].pc = "project"
  /\ \/ /\ ProjectionMatches(handle[h].tx, handle[h].expected)
        /\ handle' = [handle EXCEPT ![h].pc = "commit", ![h].tx.document = Projected(h)]
        /\ UNCHANGED <<files, path, lock, acked>>
     \/ Rollback(h)

Commit(h) ==
  /\ handle[h].pc = "commit"
  /\ files' = [files EXCEPT ![File(h)] = handle[h].tx]
  /\ lock' = [lock EXCEPT ![File(h)] = None]
  /\ Goto(h, "return")
  /\ UNCHANGED <<path, acked>>

Return(h) ==
  /\ handle[h].pc = "return"
  /\ acked' = acked \cup {[file |-> File(h), row |-> r] : r \in Rows(h)}
  /\ handle' = [handle EXCEPT ![h].pc = "open", ![h].tx = Blank(0), ![h].expected = 0, ![h].n = 0]
  /\ UNCHANGED <<files, path, lock>>

\* Where a failed append returns its error.
Failing == {"begin", "claim", "insert", "project", "commit"}

\* The context ends, the lock is not granted in time or a statement fails.
FailAppend(h) == handle[h].pc \in Failing /\ Rollback(h)

\* Close, or the death of the process: SQLite rolls an open transaction back.
Leave(h) ==
  /\ handle[h].pc # "closed"
  /\ lock' = [f \in DOMAIN lock |-> IF lock[f] = h THEN None ELSE lock[f]]
  /\ handle' = [handle EXCEPT ![h] = Closed]
  /\ UNCHANGED <<files, path, acked>>

Next ==
  \E h \in Handles :
    \/ EnsureFile(h) \/ Inspect(h) \/ Connect(h) \/ Initialize(h) \/ Verify(h) \/ FailOpen(h)
    \/ Append(h) \/ Begin(h) \/ Claim(h) \/ Insert(h) \/ Project(h) \/ Commit(h) \/ Return(h)
    \/ FailAppend(h) \/ Leave(h)

Spec == Init /\ [][Next]_vars

-----------------------------------------------------------------------------
\* Load: the rows after a sequence, which must follow it without a gap.
Load(f, after) == {r \in files[f].rows : r.sequence > after}
LoadAccepts(f, after) ==
  LET loaded == Load(f, after)
  IN {r.sequence : r \in loaded} = after + 1 .. after + Cardinality(loaded)

\* LoadWorkloadProjection: a document at the sequence of its row.
LoadProjection(f) == files[f].document

\* Whatever is committed is one sound stream: from every sequence on Load finds no gap, the
\* version row counts the events and the projection is exactly the fold of them; never is
\* one of the three visible without the others.
StreamIsSound ==
  \A f \in DOMAIN files :
    /\ \A after \in 0 .. files[f].version : LoadAccepts(f, after)
    /\ Cardinality(files[f].rows) = files[f].version
    /\ LoadProjection(f) = files[f].rows

\* An event row that was committed stays as it is, whatever other handles, failures and
\* crashes there are.
RowsAreImmutable ==
  [][\A f \in DOMAIN files : files[f].rows \subseteq files'[f].rows]_vars

\* The rows of an append that returned success are committed at the sequences it expected.
AckedAreCommitted == \A a \in acked : a.row \in files[a.file].rows

\* Opening the database again finds the events of every append that returned success.
AckedSurvive == \A a \in acked : a.file = path
=============================================================================
