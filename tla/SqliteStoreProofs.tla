------------------------- MODULE SqliteStoreProofs -------------------------
(* Machine-checked proofs about the SQLite event store, for any number of  *)
(* handles, files, events and drafts.                                      *)
EXTENDS SqliteStore, FiniteSetTheorems, FunctionTheorems, TLAPS

EventRows == [sequence : Nat, by : Handles]

Databases == [schema : Nat, version : Nat, rows : SUBSET EventRows, document : SUBSET EventRows]

Phases == Failing \cup {"closed", "inspect", "connect", "initialize", "verify", "open", "return"}

HandleStates == [pc : Phases, file : Nat, created : BOOLEAN, expected : Nat, n : Nat, tx : Databases]

\* Files are numbered as they are created.
TypeInv ==
  /\ files \in [DOMAIN files -> Databases]
  /\ \E n \in Nat : n <= MaxFiles /\ DOMAIN files = 1 .. n
  /\ path \in DOMAIN files \cup {NoFile}
  /\ lock \in [1 .. MaxFiles -> Handles \cup {None}]
  /\ handle \in [Handles -> HandleStates]

\* One stream: a row for each sequence up to the version, folded into the document.
SoundDB(d) ==
  /\ {r.sequence : r \in d.rows} = 1 .. d.version
  /\ \A r, q \in d.rows : r.sequence = q.sequence => r = q
  /\ d.document = d.rows

\* A transaction holds the lock of its file and is ahead of it by the statements it has executed.
TxInv(h) ==
  LET s == handle[h]
      d == files[s.file]
  IN /\ s.pc \in Failing \cup {"initialize", "verify", "open", "return"} => s.file \in DOMAIN files
     /\ s.pc \in Failing \ {"begin"} => lock[s.file] = h
     /\ s.pc = "claim" => s.tx = d
     /\ s.pc \in {"insert", "project", "commit"} =>
          /\ d.version = s.expected /\ s.tx.version = Claimed(h)
          /\ s.tx.rows = IF s.pc = "insert" THEN d.rows ELSE d.rows \cup Rows(h)
          /\ s.tx.document = IF s.pc = "commit" THEN d.document \cup Rows(h) ELSE d.document
     /\ s.pc = "return" => Rows(h) \subseteq d.rows

StoreInv ==
  /\ TypeInv
  /\ \A f \in DOMAIN files : SoundDB(files[f])
  /\ \A h \in Handles : TxInv(h)
  /\ \A a \in acked : a.file \in DOMAIN files /\ a.row \in files[a.file].rows

-----------------------------------------------------------------------------
(* What Load returns from a sound stream has no gap.                       *)
LEMMA SoundLoads ==
  ASSUME NEW d \in Databases, SoundDB(d), NEW after \in 0 .. d.version
  PROVE  LET loaded == {r \in d.rows : r.sequence > after}
         IN /\ IsFiniteSet(loaded) /\ Cardinality(loaded) = d.version - after
            /\ {r.sequence : r \in loaded} = after + 1 .. d.version
<1> DEFINE loaded == {r \in d.rows : r.sequence > after}
           f == [r \in loaded |-> r.sequence]
           interval == after + 1 .. d.version
<1>1. d.version \in Nat /\ \A r \in d.rows : r.sequence \in 1 .. d.version
  BY DEF Databases, SoundDB
<1>2. {r.sequence : r \in loaded} = interval
  <2>1. \A r \in loaded : r.sequence \in interval
    BY <1>1
  <2>2. ASSUME NEW i \in interval PROVE \E r \in loaded : r.sequence = i
    <3>1. i \in 1 .. d.version /\ i > after
      BY <1>1
    <3>2. PICK r \in d.rows : r.sequence = i
      BY <3>1 DEF SoundDB
    <3> QED
      BY <3>1, <3>2
  <2> HIDE DEF loaded, interval
  <2> QED
    BY <2>1, <2>2
<1>3. \A r, q \in loaded : f[r] = f[q] => r = q
  BY DEF SoundDB
<1>4. f \in Bijection(loaded, interval)
  <2> HIDE DEF loaded, interval
  <2> QED
    BY <1>2, <1>3 DEF Bijection, Injection, Surjection, IsInjective
<1>5. ExistsBijection(interval, loaded)
  BY <1>4, Fun_ExistsBijSymmetric DEF ExistsBijection
<1>6. IsFiniteSet(interval) /\ Cardinality(interval) = d.version - after
  <2>1. after + 1 \in Int /\ d.version \in Int /\ after <= d.version
    BY <1>1
  <2>2. IsFiniteSet(interval) /\ Cardinality(interval) = IF after + 1 > d.version THEN 0 ELSE d.version - (after + 1) + 1
    BY <2>1, FS_Interval
  <2> QED
    BY <1>1, <2>1, <2>2
<1>7. IsFiniteSet(loaded) /\ Cardinality(loaded) = Cardinality(interval)
  BY <1>5, <1>6, FS_Bijection
<1> QED
  BY <1>2, <1>6, <1>7

(* The rows of an append at the version of a sound stream make it one that *)
(* is longer by them.                                                      *)
LEMMA SoundAppends ==
  ASSUME NEW d \in Databases, SoundDB(d), NEW t \in Databases, NEW h \in Handles,
         handle[h] \in HandleStates, handle[h].expected = d.version,
         t.version = Claimed(h), t.rows = d.rows \cup Rows(h), t.document = d.document \cup Rows(h)
  PROVE  SoundDB(t)
<1> DEFINE e == handle[h].expected
           n == handle[h].n
<1>1. e \in Nat /\ n \in Nat /\ d.version = e /\ t.version = e + n
  BY DEF HandleStates, Claimed
<1>2. \A r \in Rows(h) : r.by = h /\ r.sequence \in e + 1 .. e + n
  BY <1>1 DEF Rows
<1>3. \A i \in e + 1 .. e + n : [sequence |-> i, by |-> h] \in Rows(h)
  <2> SUFFICES ASSUME NEW i \in e + 1 .. e + n PROVE [sequence |-> i, by |-> h] \in Rows(h)
    OBVIOUS
  <2>1. i - e \in 1 .. n /\ e + (i - e) = i
    BY <1>1
  <2> QED
    BY <2>1 DEF Rows
<1>4. \A r \in Rows(h) : r = [sequence |-> r.sequence, by |-> h]
  BY DEF Rows
<1> HIDE DEF e, n
<1>5. \A r \in d.rows : r.sequence \in 1 .. e
  BY <1>1 DEF SoundDB
<1>6. {r.sequence : r \in t.rows} = 1 .. t.version
  <2>1. \A r \in t.rows : r.sequence \in 1 .. t.version
    BY <1>1, <1>2, <1>5
  <2>2. ASSUME NEW i \in 1 .. t.version PROVE \E r \in t.rows : r.sequence = i
    <3>1. CASE i <= e
      <4>1. i \in 1 .. d.version
        BY <1>1, <3>1
      <4>2. PICK r \in d.rows : r.sequence = i
        BY <4>1 DEF SoundDB
      <4> QED
        BY <4>2
    <3>2. CASE i > e
      <4>1. i \in e + 1 .. e + n
        BY <1>1, <3>2
      <4> QED
        <5> DEFINE r == [sequence |-> i, by |-> h]
        <5>1. r \in t.rows
          BY <4>1, <1>3
        <5>2. r.sequence = i
          OBVIOUS
        <5> QED
          BY <5>1, <5>2
    <3> QED
      BY <1>1, <3>1, <3>2
  <2> QED
    BY <2>1, <2>2
<1>7. \A r, q \in t.rows : r.sequence = q.sequence => r = q
  <2> SUFFICES ASSUME NEW r \in t.rows, NEW q \in t.rows, r.sequence = q.sequence PROVE r = q
    OBVIOUS
  <2>1. CASE r \in d.rows /\ q \in d.rows
    BY <2>1 DEF SoundDB
  <2>2. CASE r \in Rows(h) /\ q \in Rows(h)
    BY <2>2, <1>4
  <2>3. (r \in d.rows => r.sequence <= e) /\ (q \in d.rows => q.sequence <= e)
    BY <1>1, <1>5
  <2>4. (r \in Rows(h) => r.sequence > e) /\ (q \in Rows(h) => q.sequence > e)
    BY <1>1, <1>2
  <2>5. r.sequence \in Nat
    BY <1>1, <1>2, <1>5
  <2> QED
    BY <1>1, <2>1, <2>2, <2>3, <2>4, <2>5
<1> QED
  BY <1>6, <1>7 DEF SoundDB

LEMMA BlankIsSound ==
  ASSUME NEW v \in Nat
  PROVE  Blank(v) \in Databases /\ SoundDB(Blank(v))
<1>1. Blank(v) \in Databases
  BY DEF Blank, Databases
<1>2. 1 .. 0 = {}
  OBVIOUS
<1> QED
  BY <1>1, <1>2 DEF Blank, SoundDB

LEMMA ClosedIsTyped == Closed \in HandleStates
BY BlankIsSound DEF Closed, HandleStates, Phases, NoFile

(* A file that is created gets the next number and is blank; no other file *)
(* changes.                                                                *)
LEMMA CreatesNext ==
  ASSUME TypeInv, CreateFile
  PROVE  /\ path' \in DOMAIN files' /\ path' \notin DOMAIN files
         /\ DOMAIN files \subseteq DOMAIN files'
         /\ \E n \in Nat : n <= MaxFiles /\ DOMAIN files' = 1 .. n
         /\ files' \in [DOMAIN files' -> Databases]
         /\ \A f \in DOMAIN files : files'[f] = files[f]
         /\ \A f \in DOMAIN files' : f \notin DOMAIN files => files'[f] = Blank(0)
<1>1. PICK n \in Nat : DOMAIN files = 1 .. n
  BY DEF TypeInv
<1>2. Cardinality(DOMAIN files) = n
  <2>1. 1 \in Int /\ n \in Int
    BY <1>1
  <2>2. Cardinality(1 .. n) = IF 1 > n THEN 0 ELSE n - 1 + 1
    BY <2>1, FS_Interval
  <2> QED
    BY <1>1, <2>2
<1>3. n + 1 <= MaxFiles /\ path' = n + 1
  BY <1>2, StoreAssumption DEF CreateFile
<1>4. DOMAIN files' = DOMAIN files \cup {path'} /\ DOMAIN files' = 1 .. n + 1
  BY <1>1, <1>3 DEF CreateFile
<1>5. path' \notin DOMAIN files
  BY <1>1, <1>3
<1>6. \A f \in DOMAIN files' : files'[f] = IF f = path' THEN Blank(0) ELSE files[f]
  BY DEF CreateFile
<1>7. files' = [f \in DOMAIN files' |-> files'[f]]
  BY DEF CreateFile
<1>8. \A f \in DOMAIN files' : files'[f] \in Databases
  BY <1>4, <1>6, BlankIsSound DEF TypeInv
<1>9. n + 1 \in Nat
  OBVIOUS
<1> QED
  BY <1>3, <1>4, <1>5, <1>6, <1>7, <1>8, <1>9

(* What the step of one handle must leave alone for the others to keep     *)
(* their invariant.                                                        *)
LEMMA OthersKeep ==
  ASSUME NEW g \in Handles, TxInv(g), handle'[g] = handle[g],
         DOMAIN files \subseteq DOMAIN files',
         \A f \in DOMAIN files : files[f].rows \subseteq files'[f].rows,
         handle[g].pc \in Failing \ {"begin"} =>
           /\ lock'[handle[g].file] = g
           /\ files'[handle[g].file] = files[handle[g].file]
  PROVE  TxInv(g)'
<1>1. Rows(g)' = Rows(g) /\ Claimed(g)' = Claimed(g)
  BY DEF Rows, Claimed
<1>2. handle[g].pc = "claim" \/ handle[g].pc \in {"insert", "project", "commit"}
        => handle[g].pc \in Failing \ {"begin"}
  BY DEF Failing
<1>3. CASE handle[g].pc = "return"
  <2>1. handle[g].pc \notin Failing
    BY <1>3 DEF Failing
  <2> QED
    BY <1>1, <1>3, <2>1 DEF TxInv
<1>4. CASE handle[g].pc \in Failing \ {"begin"}
  <2>1. handle[g].pc # "return"
    BY <1>4 DEF Failing
  <2> QED
    BY <1>1, <1>4, <2>1 DEF TxInv
<1>5. CASE handle[g].pc \notin Failing \ {"begin"} /\ handle[g].pc # "return"
  BY <1>2, <1>5 DEF TxInv
<1> QED
  BY <1>3, <1>4, <1>5

LEMMA StoreInvStarts == Init => StoreInv
<1> SUFFICES ASSUME Init PROVE StoreInv
  OBVIOUS
<1>1. /\ files \in [DOMAIN files -> Databases]
      /\ \E n \in Nat : n <= MaxFiles /\ DOMAIN files = 1 .. n
      /\ path \in DOMAIN files \cup {NoFile}
      /\ \A f \in DOMAIN files : SoundDB(files[f])
  <2>1. CASE files = <<>> /\ path = NoFile
    <3>1. DOMAIN files = {} /\ 1 .. 0 = {} /\ 0 \in Nat /\ 0 <= MaxFiles
      BY <2>1, StoreAssumption
    <3> QED
      BY <2>1, <3>1
  <2>2. CASE path = 1 /\ \E v \in {currentSchemaVersion, currentSchemaVersion + 1} : files = <<Blank(v)>>
    <3>1. PICK v \in Nat : files = <<Blank(v)>>
      BY <2>2 DEF currentSchemaVersion
    <3>2. DOMAIN files = 1 .. 1 /\ 1 \in Nat /\ 1 <= MaxFiles /\ 1 .. 1 = {1}
      BY <3>1, StoreAssumption
    <3>3. files[1] = Blank(v) /\ files = [f \in 1 .. 1 |-> files[f]]
      BY <3>1
    <3> QED
      BY <2>2, <3>2, <3>3, BlankIsSound
  <2> QED
    BY <2>1, <2>2 DEF Init
<1>2. lock \in [1 .. MaxFiles -> Handles \cup {None}]
  BY DEF Init
<1>3. handle \in [Handles -> HandleStates]
  BY ClosedIsTyped DEF Init
<1>4. \A h \in Handles : TxInv(h)
  BY DEF Init, Closed, TxInv, Failing
<1> QED
  BY <1>1, <1>2, <1>3, <1>4 DEF Init, StoreInv, TypeInv

-----------------------------------------------------------------------------
(* Another handle keeps its invariant when files stay and no lock of its   *)
(* own is taken from it.                                                   *)
LEMMA OthersKeepOnSame ==
  ASSUME StoreInv, NEW h \in Handles, UNCHANGED files,
         \A g \in Handles \ {h} : handle'[g] = handle[g],
         \A f \in DOMAIN files : lock[f] \in Handles \ {h} => lock'[f] = lock[f]
  PROVE  \A g \in Handles \ {h} : TxInv(g)'
<1> SUFFICES ASSUME NEW g \in Handles \ {h} PROVE TxInv(g)'
  OBVIOUS
<1>1. TxInv(g) /\ handle'[g] = handle[g]
  BY DEF StoreInv
<1>2. handle[g].pc \in Failing \ {"begin"} => handle[g].file \in DOMAIN files /\ lock[handle[g].file] = g
  BY <1>1 DEF TxInv
<1> QED
  BY <1>1, <1>2, OthersKeep

(* A handle that is not in a transaction and has at most a file.           *)
LEMMA OutsideTx ==
  ASSUME NEW h \in Handles, handle'[h].pc \in {"closed", "inspect", "connect", "initialize", "verify", "open", "begin"},
         handle'[h].pc \in {"initialize", "verify", "open", "begin"} => handle'[h].file \in DOMAIN files'
  PROVE  TxInv(h)'
BY DEF TxInv, Failing

(* The step of a handle that writes to no file.                            *)
LEMMA QuietKeeps ==
  ASSUME StoreInv, NEW h \in Handles, UNCHANGED <<files, acked>>,
         path' \in {path, NoFile}, lock' \in [1 .. MaxFiles -> Handles \cup {None}],
         \A f \in DOMAIN files : lock[f] \in Handles \ {h} => lock'[f] = lock[f],
         handle' \in [Handles -> HandleStates],
         \A g \in Handles \ {h} : handle'[g] = handle[g],
         TxInv(h)'
  PROVE  StoreInv'
<1>1. TypeInv'
  BY DEF StoreInv, TypeInv
<1>2. \A g \in Handles \ {h} : TxInv(g)'
  BY OthersKeepOnSame
<1> QED
  BY <1>1, <1>2 DEF StoreInv

(* The step of a handle that creates a file.                               *)
LEMMA CreateKeeps ==
  ASSUME StoreInv, NEW h \in Handles, CreateFile, UNCHANGED <<lock, acked>>,
         handle' \in [Handles -> HandleStates],
         \A g \in Handles \ {h} : handle'[g] = handle[g],
         TxInv(h)'
  PROVE  StoreInv'
<1>1. TypeInv
  BY DEF StoreInv
<1>2. TypeInv'
  BY <1>1, CreatesNext DEF TypeInv
<1>3. \A f \in DOMAIN files' : SoundDB(files'[f])
  BY <1>1, CreatesNext, BlankIsSound DEF StoreInv
<1>4. ASSUME NEW g \in Handles \ {h} PROVE TxInv(g)'
  <2>1. TxInv(g) /\ handle'[g] = handle[g]
    BY DEF StoreInv
  <2>2. handle[g].pc \in Failing \ {"begin"} => handle[g].file \in DOMAIN files /\ lock[handle[g].file] = g
    BY <2>1 DEF TxInv
  <2> QED
    BY <1>1, <2>1, <2>2, CreatesNext, OthersKeep
<1>5. \A a \in acked' : a.file \in DOMAIN files' /\ a.row \in files'[a.file].rows
  BY <1>1, CreatesNext DEF StoreInv
<1> QED
  BY <1>2, <1>3, <1>4, <1>5 DEF StoreInv

(* A rollback gives up the handle's own lock and nothing else.             *)
LEMMA RollbackKeeps ==
  ASSUME StoreInv, NEW h \in Handles, handle[h].pc \in Failing, Rollback(h)
  PROVE  StoreInv'
<1>1. handle \in [Handles -> HandleStates] /\ lock \in [1 .. MaxFiles -> Handles \cup {None}]
  BY DEF StoreInv, TypeInv
<1>2. handle[h].file \in DOMAIN files
  BY DEF StoreInv, TxInv
<1>3. handle' \in [Handles -> HandleStates]
  <2>1. "open" \in Phases /\ Blank(0) \in Databases /\ 0 \in Nat
    BY BlankIsSound DEF Phases
  <2>2. [handle[h] EXCEPT !.pc = "open", !.tx = Blank(0), !.expected = 0, !.n = 0] \in HandleStates
    BY <1>1, <2>1 DEF HandleStates
  <2> QED
    BY <1>1, <2>2 DEF Rollback
<1>4. handle'[h].pc = "open" /\ handle'[h].file = handle[h].file /\ \A g \in Handles \ {h} : handle'[g] = handle[g]
  BY <1>1 DEF Rollback, HandleStates
<1>5. lock' \in [1 .. MaxFiles -> Handles \cup {None}]
  BY <1>1 DEF Rollback, File
<1>6. \A f \in DOMAIN files : lock[f] \in Handles \ {h} => lock'[f] = lock[f]
  <2>1. DOMAIN files \subseteq 1 .. MaxFiles
    BY StoreAssumption DEF StoreInv, TypeInv
  <2> QED
    BY <1>1, <2>1 DEF Rollback, File
<1>7. TxInv(h)'
  BY <1>2, <1>4, OutsideTx DEF Rollback
<1> QED
  BY <1>3, <1>4, <1>5, <1>6, <1>7, QuietKeeps DEF Rollback

(* Every step of opening a store keeps the invariant.                      *)
LEMMA OpeningKeeps ==
  ASSUME StoreInv, NEW h \in Handles,
         \/ EnsureFile(h) \/ Inspect(h) \/ Connect(h) \/ Verify(h) \/ FailOpen(h) \/ Leave(h) \/ Append(h)
  PROVE  StoreInv'
<1>1. /\ handle \in [Handles -> HandleStates] /\ lock \in [1 .. MaxFiles -> Handles \cup {None}]
      /\ DOMAIN files \subseteq 1 .. MaxFiles /\ path \in DOMAIN files \cup {NoFile}
  BY StoreAssumption DEF StoreInv, TypeInv
<1>2. CASE EnsureFile(h)
  <2>1. handle' \in [Handles -> HandleStates] /\ handle'[h].pc = "inspect"
    <3>1. \A c \in BOOLEAN : [handle[h] EXCEPT !.pc = "inspect", !.created = c] \in HandleStates
      BY <1>1 DEF HandleStates, Phases
    <3>2. PICK c \in BOOLEAN : handle' = [handle EXCEPT ![h].pc = "inspect", ![h].created = c]
      BY <1>2 DEF EnsureFile
    <3>3. handle'[h] = [handle[h] EXCEPT !.pc = "inspect", !.created = c]
      BY <1>1, <3>2
    <3>4. handle'[h].pc = "inspect"
      BY <1>1, <3>3 DEF HandleStates
    <3> QED
      BY <1>1, <3>1, <3>2, <3>3, <3>4
  <2>2. \A g \in Handles \ {h} : handle'[g] = handle[g]
    BY <1>1, <1>2 DEF EnsureFile
  <2>3. TxInv(h)'
    BY <2>1, OutsideTx
  <2> QED
    BY <1>1, <1>2, <2>1, <2>2, <2>3, QuietKeeps, CreateKeeps DEF EnsureFile
<1>3. CASE Inspect(h)
  <2>1. handle' \in [Handles -> HandleStates] /\ handle'[h].pc \in {"closed", "connect"}
    <3>1. CASE handle' = [handle EXCEPT ![h] = Closed]
      <4>1. Closed.pc = "closed"
        BY DEF Closed
      <4> QED
        BY <1>1, <3>1, <4>1, ClosedIsTyped
    <3>2. CASE Goto(h, "connect")
      BY <1>1, <3>2 DEF Goto, HandleStates, Phases
    <3> QED
      BY <1>3, <3>1, <3>2 DEF Inspect
  <2>2. \A g \in Handles \ {h} : handle'[g] = handle[g]
    BY <1>1, <1>3 DEF Inspect, Goto
  <2>3. TxInv(h)'
    BY <2>1, OutsideTx
  <2> QED
    BY <1>1, <1>3, <2>1, <2>2, <2>3, QuietKeeps DEF Inspect
<1>4. CASE Connect(h)
  <2>1. path' \in DOMAIN files' /\ path' \in Nat
    <3>1. CASE path # NoFile /\ UNCHANGED <<files, path>>
      BY <1>1, <3>1
    <3>2. CASE CreateFile
      BY <3>2, CreatesNext DEF StoreInv
    <3> QED
      BY <1>4, <3>1, <3>2 DEF Connect
  <2>2. handle' \in [Handles -> HandleStates] /\ handle'[h].pc = "initialize" /\ handle'[h].file = path'
    <3> DEFINE s == [handle[h] EXCEPT !.pc = "initialize", !.file = path']
    <3>1. s \in HandleStates /\ s.pc = "initialize" /\ s.file = path'
      BY <1>1, <2>1 DEF HandleStates, Phases
    <3>2. handle' = [handle EXCEPT ![h] = s]
      BY <1>1, <1>4 DEF Connect
    <3> HIDE DEF s
    <3> QED
      BY <1>1, <3>1, <3>2
  <2>3. \A g \in Handles \ {h} : handle'[g] = handle[g]
    BY <1>1, <1>4 DEF Connect
  <2>4. TxInv(h)'
    BY <2>1, <2>2, OutsideTx
  <2> QED
    BY <1>1, <1>4, <2>2, <2>3, <2>4, QuietKeeps, CreateKeeps DEF Connect
<1>5. CASE Verify(h)
  <2>1. handle' \in [Handles -> HandleStates] /\ handle'[h].pc = "open" /\ handle'[h].file = handle[h].file
    BY <1>1, <1>5 DEF Verify, Goto, HandleStates, Phases
  <2>2. \A g \in Handles \ {h} : handle'[g] = handle[g]
    BY <1>1, <1>5 DEF Verify, Goto
  <2>3. TxInv(h)'
    <3>1. handle[h].file \in DOMAIN files /\ files' = files
      BY <1>5 DEF Verify, StoreInv, TxInv
    <3> QED
      BY <2>1, <3>1, OutsideTx
  <2> QED
    BY <1>1, <1>5, <2>1, <2>2, <2>3, QuietKeeps DEF Verify
<1>6. CASE FailOpen(h) \/ Leave(h)
  <2>1. handle' \in [Handles -> HandleStates] /\ handle'[h].pc = "closed"
    <3>1. handle' = [handle EXCEPT ![h] = Closed]
      BY <1>6 DEF FailOpen, Leave
    <3>2. Closed.pc = "closed"
      BY DEF Closed
    <3> QED
      BY <1>1, <3>1, <3>2, ClosedIsTyped
  <2>2. \A g \in Handles \ {h} : handle'[g] = handle[g]
    BY <1>1, <1>6 DEF FailOpen, Leave
  <2>3. TxInv(h)'
    BY <2>1, OutsideTx
  <2>4. /\ lock' \in [1 .. MaxFiles -> Handles \cup {None}]
        /\ \A f \in DOMAIN files : lock[f] \in Handles \ {h} => lock'[f] = lock[f]
    BY <1>1, <1>6 DEF FailOpen, Leave
  <2>5. UNCHANGED <<files, acked>> /\ path' \in {path, NoFile}
    BY <1>6 DEF FailOpen, Leave
  <2> QED
    BY <2>1, <2>2, <2>3, <2>4, <2>5, QuietKeeps
<1>7. CASE Append(h)
  <2>1. PICK expected \in 0 .. MaxVersion, n \in 1 .. MaxBatch :
          handle' = [handle EXCEPT ![h].pc = "begin", ![h].expected = expected, ![h].n = n]
    BY <1>7 DEF Append
  <2>2. expected \in Nat /\ n \in Nat
    BY StoreAssumption
  <2>3. handle' \in [Handles -> HandleStates] /\ handle'[h].pc = "begin" /\ handle'[h].file = handle[h].file
    <3> DEFINE s == [handle[h] EXCEPT !.pc = "begin", !.expected = expected, !.n = n]
    <3>1. s \in HandleStates /\ s.pc = "begin" /\ s.file = handle[h].file
      BY <1>1, <2>2 DEF HandleStates, Phases, Failing
    <3>2. handle' = [handle EXCEPT ![h] = s]
      BY <1>1, <2>1
    <3> HIDE DEF s
    <3> QED
      BY <1>1, <3>1, <3>2
  <2>4. \A g \in Handles \ {h} : handle'[g] = handle[g]
    BY <1>1, <2>1
  <2>5. TxInv(h)'
    <3>1. handle[h].file \in DOMAIN files /\ files' = files
      BY <1>7 DEF Append, StoreInv, TxInv
    <3> QED
      BY <2>3, <3>1, OutsideTx
  <2> QED
    BY <1>1, <1>7, <2>3, <2>4, <2>5, QuietKeeps DEF Append
<1> QED
  BY <1>2, <1>3, <1>4, <1>5, <1>6, <1>7

(* The schema is installed in a file no transaction is open on.            *)
LEMMA InitializeKeeps ==
  ASSUME StoreInv, NEW h \in Handles, Initialize(h)
  PROVE  StoreInv'
<1> DEFINE f == handle[h].file
<1>1. /\ handle \in [Handles -> HandleStates] /\ files \in [DOMAIN files -> Databases]
      /\ f \in DOMAIN files /\ lock[f] = None
  BY DEF Initialize, StoreInv, TypeInv, TxInv
<1>2. files' = [files EXCEPT ![f] = [files[f] EXCEPT !.schema = currentSchemaVersion]]
  BY DEF Initialize
<1>3. /\ handle' \in [Handles -> HandleStates] /\ handle'[h].pc = "verify" /\ handle'[h].file = f
      /\ \A g \in Handles \ {h} : handle'[g] = handle[g]
  BY <1>1 DEF Initialize, Goto, HandleStates, Phases
<1> HIDE DEF f
<1>4. /\ DOMAIN files' = DOMAIN files /\ files' \in [DOMAIN files' -> Databases]
      /\ \A q \in DOMAIN files : files'[q].rows = files[q].rows /\ files'[q].version = files[q].version
                                   /\ files'[q].document = files[q].document
      /\ \A q \in DOMAIN files \ {f} : files'[q] = files[q]
  <2> DEFINE d == [files[f] EXCEPT !.schema = currentSchemaVersion]
  <2>1. d \in Databases /\ d.rows = files[f].rows /\ d.version = files[f].version /\ d.document = files[f].document
    BY <1>1 DEF Databases, currentSchemaVersion
  <2>2. files' = [files EXCEPT ![f] = d]
    BY <1>2
  <2> HIDE DEF d
  <2> QED
    BY <1>1, <2>1, <2>2
<1>5. TypeInv'
  BY <1>3, <1>4 DEF Initialize, StoreInv, TypeInv
<1>6. \A q \in DOMAIN files' : SoundDB(files'[q])
  BY <1>4 DEF StoreInv, SoundDB
<1>7. TxInv(h)'
  BY <1>1, <1>3, <1>4, OutsideTx
<1>8. ASSUME NEW g \in Handles \ {h} PROVE TxInv(g)'
  <2>1. TxInv(g) /\ handle'[g] = handle[g]
    BY <1>3 DEF StoreInv
  <2>2. handle[g].pc \in Failing \ {"begin"} => handle[g].file \in DOMAIN files /\ lock[handle[g].file] = g
    BY <2>1 DEF TxInv
  <2>3. handle[g].pc \in Failing \ {"begin"} => handle[g].file # f
    BY <1>1, <2>2, StoreAssumption
  <2>4. lock' = lock
    BY DEF Initialize
  <2> QED
    BY <1>4, <2>1, <2>2, <2>3, <2>4, OthersKeep
<1>9. \A a \in acked' : a.file \in DOMAIN files' /\ a.row \in files'[a.file].rows
  BY <1>4 DEF Initialize, StoreInv
<1> QED
  BY <1>5, <1>6, <1>7, <1>8, <1>9 DEF StoreInv

(* The statements of a transaction change the handle's copy and the lock   *)
(* of its file.                                                            *)
LEMMA StatementsKeep ==
  ASSUME StoreInv, NEW h \in Handles, Begin(h) \/ Claim(h) \/ Insert(h) \/ Project(h) \/ FailAppend(h)
  PROVE  StoreInv'
<1> DEFINE f == handle[h].file
           old == handle[h]
<1>1. /\ handle \in [Handles -> HandleStates] /\ lock \in [1 .. MaxFiles -> Handles \cup {None}]
      /\ files \in [DOMAIN files -> Databases] /\ DOMAIN files \subseteq 1 .. MaxFiles
  BY StoreAssumption DEF StoreInv, TypeInv
<1>2. old \in HandleStates /\ TxInv(h)
  BY <1>1 DEF StoreInv
<1>3. old.pc \in Failing /\ f \in DOMAIN files
  BY <1>2 DEF TxInv, Begin, Claim, Insert, Project, FailAppend, Failing
<1>4. Rows(h) \in SUBSET EventRows /\ Claimed(h) \in Nat
  BY <1>2 DEF Rows, Claimed, EventRows, HandleStates
<1>5. CASE Begin(h)
  <2> DEFINE s == [old EXCEPT !.pc = "claim", !.tx = files[f]]
  <2>1. s \in HandleStates /\ s.pc = "claim" /\ s.file = f /\ s.tx = files[f]
    BY <1>1, <1>2, <1>3 DEF HandleStates, Phases, Failing
  <2>2. handle' = [handle EXCEPT ![h] = s] /\ lock' = [lock EXCEPT ![f] = h] /\ lock[f] = None
    BY <1>1, <1>5 DEF Begin, MayBegin, File
  <2> HIDE DEF s, f, old
  <2>3. handle' \in [Handles -> HandleStates] /\ handle'[h] = s /\ \A g \in Handles \ {h} : handle'[g] = handle[g]
    BY <1>1, <2>1, <2>2
  <2>4. /\ lock' \in [1 .. MaxFiles -> Handles \cup {None}] /\ lock'[f] = h
        /\ \A q \in DOMAIN files : lock[q] \in Handles \ {h} => lock'[q] = lock[q]
    BY <1>1, <1>3, <2>2, StoreAssumption
  <2>5. files' = files
    BY <1>5 DEF Begin
  <2>6. TxInv(h)'
    BY <1>3, <2>1, <2>3, <2>4, <2>5 DEF TxInv, Failing
  <2> QED
    BY <1>5, <2>3, <2>4, <2>6, QuietKeeps DEF Begin
<1>6. CASE Claim(h) /\ handle[h].tx.version = handle[h].expected
  <2> DEFINE s == [old EXCEPT !.pc = "insert", !.tx = [old.tx EXCEPT !.version = Claimed(h)]]
  <2>1. old.pc = "claim" /\ old.tx = files[f] /\ old.tx.version = old.expected /\ lock[f] = h
    BY <1>2, <1>6 DEF Claim, TxInv, Failing
  <2>2. /\ s \in HandleStates /\ s.pc = "insert" /\ s.file = f /\ s.expected = old.expected /\ s.n = old.n
        /\ s.tx.version = Claimed(h) /\ s.tx.rows = files[f].rows /\ s.tx.document = files[f].document
    BY <1>2, <1>4, <2>1 DEF HandleStates, Phases, Failing, Databases
  <2>3. handle' = [handle EXCEPT ![h] = s] /\ UNCHANGED <<files, path, lock, acked>>
    <3>1. /\ handle' = [handle EXCEPT ![h].pc = "insert", ![h].tx.version = Claimed(h)]
          /\ UNCHANGED <<files, path, lock, acked>>
      BY <1>6 DEF Claim
    <3> QED
      BY <1>1, <3>1
  <2> HIDE DEF s, f, old
  <2>4. handle' \in [Handles -> HandleStates] /\ handle'[h] = s /\ \A g \in Handles \ {h} : handle'[g] = handle[g]
    BY <1>1, <2>2, <2>3
  <2>5. Claimed(h)' = Claimed(h)
    BY <2>2, <2>4 DEF Claimed, old
  <2>6. TxInv(h)'
    BY <1>3, <2>1, <2>2, <2>3, <2>4, <2>5 DEF TxInv, Failing
  <2> QED
    BY <1>1, <2>3, <2>4, <2>6, QuietKeeps
<1>7. CASE Insert(h)
  <2> DEFINE s == [old EXCEPT !.pc = "project", !.tx = [old.tx EXCEPT !.rows = old.tx.rows \cup Rows(h)]]
  <2>1. /\ old.pc = "insert" /\ lock[f] = h /\ files[f].version = old.expected
        /\ old.tx.version = Claimed(h) /\ old.tx.rows = files[f].rows /\ old.tx.document = files[f].document
    BY <1>2, <1>7 DEF Insert, TxInv, Failing
  <2>2. /\ s \in HandleStates /\ s.pc = "project" /\ s.file = f /\ s.expected = old.expected /\ s.n = old.n
        /\ s.tx.version = Claimed(h) /\ s.tx.rows = files[f].rows \cup Rows(h) /\ s.tx.document = files[f].document
    BY <1>2, <1>4, <2>1 DEF HandleStates, Phases, Failing, Databases
  <2>3. handle' = [handle EXCEPT ![h] = s] /\ UNCHANGED <<files, path, lock, acked>>
    BY <1>1, <1>7 DEF Insert
  <2> HIDE DEF s, f, old
  <2>4. handle' \in [Handles -> HandleStates] /\ handle'[h] = s /\ \A g \in Handles \ {h} : handle'[g] = handle[g]
    BY <1>1, <2>2, <2>3
  <2>5. Claimed(h)' = Claimed(h) /\ Rows(h)' = Rows(h)
    BY <2>2, <2>4 DEF Claimed, Rows, old
  <2>6. TxInv(h)'
    BY <1>3, <2>1, <2>2, <2>3, <2>4, <2>5 DEF TxInv, Failing
  <2> QED
    BY <1>1, <2>3, <2>4, <2>6, QuietKeeps
<1>8. CASE /\ Project(h)
           /\ handle' = [handle EXCEPT ![h].pc = "commit", ![h].tx.document = Projected(h)]
           /\ UNCHANGED <<files, path, lock, acked>>
  <2> DEFINE s == [old EXCEPT !.pc = "commit", !.tx = [old.tx EXCEPT !.document = old.tx.document \cup Rows(h)]]
  <2>1. /\ old.pc = "project" /\ lock[f] = h /\ files[f].version = old.expected
        /\ old.tx.version = Claimed(h) /\ old.tx.rows = files[f].rows \cup Rows(h) /\ old.tx.document = files[f].document
    BY <1>2, <1>8 DEF Project, TxInv, Failing
  <2>2. /\ s \in HandleStates /\ s.pc = "commit" /\ s.file = f /\ s.expected = old.expected /\ s.n = old.n
        /\ s.tx.version = Claimed(h) /\ s.tx.rows = files[f].rows \cup Rows(h)
        /\ s.tx.document = files[f].document \cup Rows(h)
    BY <1>2, <1>4, <2>1 DEF HandleStates, Phases, Failing, Databases
  <2>3. handle' = [handle EXCEPT ![h] = s] /\ UNCHANGED <<files, path, lock, acked>>
    BY <1>1, <1>8 DEF Projected
  <2> HIDE DEF s, f, old
  <2>4. handle' \in [Handles -> HandleStates] /\ handle'[h] = s /\ \A g \in Handles \ {h} : handle'[g] = handle[g]
    BY <1>1, <2>2, <2>3
  <2>5. Claimed(h)' = Claimed(h) /\ Rows(h)' = Rows(h)
    BY <2>2, <2>4 DEF Claimed, Rows, old
  <2>6. TxInv(h)'
    BY <1>3, <2>1, <2>2, <2>3, <2>4, <2>5 DEF TxInv, Failing
  <2> QED
    BY <1>1, <2>3, <2>4, <2>6, QuietKeeps
<1>9. CASE Rollback(h)
  BY <1>3, <1>9, RollbackKeeps
<1>10. CASE Claim(h)
  BY <1>6, <1>9, <1>10 DEF Claim
<1>11. CASE Project(h)
  BY <1>8, <1>9, <1>11 DEF Project
<1> QED
  BY <1>5, <1>7, <1>9, <1>10, <1>11 DEF FailAppend

(* A commit makes the whole append visible; no other handle is in a        *)
(* transaction on the file.                                                *)
LEMMA CommitKeeps ==
  ASSUME StoreInv, NEW h \in Handles, Commit(h)
  PROVE  StoreInv'
<1> DEFINE f == handle[h].file
           t == handle[h].tx
<1>1. /\ handle \in [Handles -> HandleStates] /\ lock \in [1 .. MaxFiles -> Handles \cup {None}]
      /\ files \in [DOMAIN files -> Databases] /\ DOMAIN files \subseteq 1 .. MaxFiles
  BY StoreAssumption DEF StoreInv, TypeInv
<1>2. /\ f \in DOMAIN files /\ lock[f] = h /\ files[f].version = handle[h].expected /\ t.version = Claimed(h)
      /\ t.rows = files[f].rows \cup Rows(h) /\ t.document = files[f].document \cup Rows(h)
  BY DEF Commit, StoreInv, TxInv, Failing
<1>3. t \in Databases
  BY <1>1 DEF HandleStates
<1>4. SoundDB(t)
  BY <1>1, <1>2, <1>3, SoundAppends DEF StoreInv
<1>5. files' = [files EXCEPT ![f] = t] /\ lock' = [lock EXCEPT ![f] = None] /\ acked' = acked /\ path' = path
  BY DEF Commit, File
<1>6. /\ handle' \in [Handles -> HandleStates] /\ handle'[h].pc = "return" /\ handle'[h].file = f
      /\ handle'[h].expected = handle[h].expected /\ handle'[h].n = handle[h].n
      /\ \A g \in Handles \ {h} : handle'[g] = handle[g]
  BY <1>1 DEF Commit, Goto, HandleStates, Phases
<1>7. Rows(h)' = Rows(h)
  BY <1>6 DEF Rows
<1> HIDE DEF f, t
<1>8. /\ DOMAIN files' = DOMAIN files /\ files' \in [DOMAIN files' -> Databases] /\ files'[f] = t
      /\ \A q \in DOMAIN files \ {f} : files'[q] = files[q]
      /\ \A q \in DOMAIN files : files[q].rows \subseteq files'[q].rows
  BY <1>1, <1>2, <1>3, <1>5
<1>9. lock' \in [1 .. MaxFiles -> Handles \cup {None}] /\ \A q \in DOMAIN files \ {f} : lock'[q] = lock[q]
  BY <1>1, <1>5
<1>10. TypeInv'
  BY <1>5, <1>6, <1>8, <1>9 DEF StoreInv, TypeInv
<1>11. \A q \in DOMAIN files' : SoundDB(files'[q])
  BY <1>4, <1>8 DEF StoreInv
<1>12. TxInv(h)'
  BY <1>2, <1>6, <1>7, <1>8 DEF TxInv, Failing
<1>13. ASSUME NEW g \in Handles \ {h} PROVE TxInv(g)'
  <2>1. TxInv(g) /\ handle'[g] = handle[g]
    BY <1>6 DEF StoreInv
  <2>2. handle[g].pc \in Failing \ {"begin"} => handle[g].file \in DOMAIN files /\ lock[handle[g].file] = g
    BY <2>1 DEF TxInv
  <2>3. handle[g].pc \in Failing \ {"begin"} => handle[g].file # f
    BY <1>2, <2>2
  <2> QED
    BY <1>8, <1>9, <2>1, <2>2, <2>3, OthersKeep
<1>14. \A a \in acked' : a.file \in DOMAIN files' /\ a.row \in files'[a.file].rows
  BY <1>5, <1>8 DEF StoreInv
<1> QED
  BY <1>10, <1>11, <1>12, <1>13, <1>14 DEF StoreInv

(* An append returns success only after its rows are committed.            *)
LEMMA ReturnKeeps ==
  ASSUME StoreInv, NEW h \in Handles, Return(h)
  PROVE  StoreInv'
<1>1. handle \in [Handles -> HandleStates]
  BY DEF StoreInv, TypeInv
<1>2. handle[h].file \in DOMAIN files /\ Rows(h) \subseteq files[handle[h].file].rows
  BY DEF Return, StoreInv, TxInv
<1> DEFINE s == [handle[h] EXCEPT !.pc = "open", !.tx = Blank(0), !.expected = 0, !.n = 0]
<1>3. s \in HandleStates /\ s.pc = "open" /\ s.file = handle[h].file
  BY <1>1, BlankIsSound DEF HandleStates, Phases
<1>4. handle' = [handle EXCEPT ![h] = s]
  BY <1>1 DEF Return
<1> HIDE DEF s
<1>5. handle' \in [Handles -> HandleStates] /\ handle'[h] = s /\ \A g \in Handles \ {h} : handle'[g] = handle[g]
  BY <1>1, <1>3, <1>4
<1>6. UNCHANGED <<files, path, lock>>
  BY DEF Return
<1>7. TypeInv'
  BY <1>5, <1>6 DEF StoreInv, TypeInv
<1>8. TxInv(h)'
  BY <1>2, <1>3, <1>5, <1>6, OutsideTx
<1>9. \A g \in Handles \ {h} : TxInv(g)'
  BY <1>5, <1>6, OthersKeepOnSame
<1>10. \A a \in acked' : a.file \in DOMAIN files' /\ a.row \in files'[a.file].rows
  <2>1. acked' = acked \cup {[file |-> handle[h].file, row |-> r] : r \in Rows(h)}
    BY DEF Return, File
  <2> QED
    BY <1>2, <1>6, <2>1 DEF StoreInv
<1> QED
  BY <1>6, <1>7, <1>8, <1>9, <1>10 DEF StoreInv

LEMMA StoreStep == StoreInv /\ [Next]_vars => StoreInv'
<1> SUFFICES ASSUME StoreInv, [Next]_vars PROVE StoreInv'
  OBVIOUS
<1>1. CASE Next
  <2>1. PICK h \in Handles :
          \/ EnsureFile(h) \/ Inspect(h) \/ Connect(h) \/ Initialize(h) \/ Verify(h) \/ FailOpen(h)
          \/ Append(h) \/ Begin(h) \/ Claim(h) \/ Insert(h) \/ Project(h) \/ Commit(h) \/ Return(h)
          \/ FailAppend(h) \/ Leave(h)
    BY <1>1 DEF Next
  <2> QED
    BY <2>1, OpeningKeeps, InitializeKeeps, StatementsKeep, CommitKeeps, ReturnKeeps
<1>2. CASE UNCHANGED vars
  <2>1. TypeInv'
    BY <1>2 DEF vars, StoreInv, TypeInv
  <2>2. ASSUME NEW h \in Handles PROVE TxInv(h)'
    <3>1. TxInv(h) /\ UNCHANGED <<files, lock, handle>>
      BY <1>2 DEF vars, StoreInv
    <3>2. handle[h].pc \in Failing \ {"begin"} => lock[handle[h].file] = h
      BY <3>1 DEF TxInv
    <3> QED
      BY <3>1, <3>2, OthersKeep
  <2> QED
    BY <1>2, <2>1, <2>2 DEF vars, StoreInv
<1> QED
  BY <1>1, <1>2

LEMMA StoreAlways == Spec => []StoreInv
BY StoreInvStarts, StoreStep, PTL DEF Spec

-----------------------------------------------------------------------------
LEMMA SoundIsLoaded == StoreInv => StreamIsSound
<1> SUFFICES ASSUME StoreInv, NEW f \in DOMAIN files
             PROVE  /\ \A after \in 0 .. files[f].version : LoadAccepts(f, after)
                    /\ Cardinality(files[f].rows) = files[f].version
                    /\ LoadProjection(f) = files[f].rows
  BY DEF StreamIsSound
<1> DEFINE d == files[f]
<1>1. d \in Databases /\ SoundDB(d) /\ d.version \in Nat
  BY DEF StoreInv, TypeInv, Databases
<1>2. ASSUME NEW after \in 0 .. d.version PROVE LoadAccepts(f, after)
  <2> DEFINE loaded == {r \in d.rows : r.sequence > after}
  <2>1. Cardinality(loaded) = d.version - after /\ {r.sequence : r \in loaded} = after + 1 .. d.version
    BY <1>1, SoundLoads
  <2>2. Load(f, after) = loaded
    BY DEF Load
  <2> HIDE DEF loaded, d
  <2>3. after + Cardinality(loaded) = d.version
    BY <1>1, <2>1
  <2> QED
    BY <2>1, <2>2, <2>3 DEF LoadAccepts
<1>3. Cardinality(d.rows) = d.version
  <2>1. {r \in d.rows : r.sequence > 0} = d.rows
    BY <1>1 DEF SoundDB
  <2>2. 0 \in 0 .. d.version /\ d.version - 0 = d.version
    BY <1>1
  <2> HIDE DEF d
  <2>3. Cardinality({r \in d.rows : r.sequence > 0}) = d.version - 0
    BY <1>1, <2>2, SoundLoads
  <2> QED
    BY <2>1, <2>2, <2>3
<1>4. LoadProjection(f) = d.rows
  BY <1>1 DEF LoadProjection, SoundDB
<1> QED
  BY <1>2, <1>3, <1>4

(* Whatever handles append, fail and die in whatever order, Load finds no  *)
(* gap from any sequence on, the version row counts the events and the     *)
(* projection is exactly the fold of them.                                 *)
THEOREM StreamStaysSound == Spec => []StreamIsSound
BY StoreAlways, SoundIsLoaded, PTL

(* The events of an Append that returned success are in the file it wrote. *)
THEOREM AckedStayCommitted == Spec => []AckedAreCommitted
<1>1. StoreInv => AckedAreCommitted
  BY DEF StoreInv, AckedAreCommitted
<1> QED
  BY <1>1, StoreAlways, PTL

(* No step of any handle, installing the schema and committing included,   *)
(* takes an event row out of a file.                                       *)
THEOREM RowsStayImmutable == Spec => RowsAreImmutable
<1> DEFINE Kept == \A f \in DOMAIN files : files[f].rows \subseteq files'[f].rows
<1>1. ASSUME StoreInv, Next PROVE Kept
  <2>1. PICK h \in Handles :
          \/ EnsureFile(h) \/ Inspect(h) \/ Connect(h) \/ Initialize(h) \/ Verify(h) \/ FailOpen(h)
          \/ Append(h) \/ Begin(h) \/ Claim(h) \/ Insert(h) \/ Project(h) \/ Commit(h) \/ Return(h)
          \/ FailAppend(h) \/ Leave(h)
    BY <1>1 DEF Next
  <2>2. CASE UNCHANGED files
    BY <2>2
  <2>3. CASE CreateFile
    BY <1>1, <2>3, CreatesNext DEF StoreInv
  <2>4. CASE Initialize(h)
    <3>1. files' = [files EXCEPT ![handle[h].file].schema = currentSchemaVersion]
      BY <2>4 DEF Initialize
    <3>2. files \in [DOMAIN files -> Databases]
      BY <1>1 DEF StoreInv, TypeInv
    <3> QED
      BY <3>1, <3>2 DEF Databases
  <2>5. CASE Commit(h)
    <3>1. files' = [files EXCEPT ![handle[h].file] = handle[h].tx]
      BY <2>5 DEF Commit, File
    <3>2. files[handle[h].file].rows \subseteq handle[h].tx.rows
      BY <1>1, <2>5 DEF Commit, StoreInv, TxInv
    <3> QED
      BY <3>1, <3>2
  <2>6. CASE EnsureFile(h) \/ Connect(h)
    BY <2>2, <2>3, <2>6 DEF EnsureFile, Connect
  <2>7. CASE Claim(h) \/ Project(h) \/ FailAppend(h)
    BY <2>2, <2>7 DEF Claim, Project, FailAppend, Rollback
  <2>8. CASE Inspect(h) \/ Verify(h) \/ FailOpen(h) \/ Append(h) \/ Begin(h) \/ Insert(h) \/ Return(h) \/ Leave(h)
    BY <2>2, <2>8 DEF Inspect, Verify, FailOpen, Append, Begin, Insert, Return, Leave
  <2> QED
    BY <2>1, <2>4, <2>5, <2>6, <2>7, <2>8
<1>2. StoreInv /\ [Next]_vars => [Kept]_vars
  BY <1>1
<1> QED
  BY <1>2, StoreAlways, PTL DEF Spec, RowsAreImmutable
=============================================================================
