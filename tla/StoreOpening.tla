---------------------------- MODULE StoreOpening ----------------------------
(***************************************************************************)
(* Opening one durable store file: DurableStore::open of krit-state        *)
(* (crates/krit-state/src/lib.rs) with the initialization, migration and   *)
(* validation of crates/krit-state/src/schema.rs.  Several hosts open the  *)
(* same file at once, each with a byte budget of its own, and any of them  *)
(* may die between two statements.                                         *)
(*                                                                         *)
(* `file` is what SQLite has committed; the exclusive transaction of an    *)
(* opener works on a copy that nobody else sees.  Sizes are in pages.      *)
(* Specification and state carry the component's name: StoreProofs extends *)
(* this module together with InvocationStore.                              *)
(***************************************************************************)
EXTENDS Integers

CONSTANTS
    Openers,            \* the hosts
    Files,              \* what may be at the path before the first open
    Budget,             \* Budget[p]: max_database_bytes of p over the page size
    Growths,            \* how many pages a write may add
    APPLICATION_ID,     \* 0x4b52_4954, "KRIT"
    MAX_SCHEMA_ATTEMPTS,
    MaxCommits          \* bounds exploration: the last revision a host commits

STORE_SCHEMA_VERSION == 2

\* The schema objects of a file: the complete definitions of schema 1, those
\* schema 2 adds, and anything else (an extra, altered or partial object).
SchemaObjects == {"one", "two", "other"}

\* What a file says: whether quick_check accepts it, application_id and
\* user_version, its schema objects, the revision of its meta row (-1 without a
\* valid one), the rows that hosts committed, its journal mode and its size.
FileFields == [intact: BOOLEAN, app: Int, version: Int, objects: SUBSET SchemaObjects,
               revision: Int, rows: SUBSET Int, wal: BOOLEAN, pages: Nat]

\* Without tables there are no rows.
File == {f \in FileFields : f.objects = {} => f.revision = -1 /\ f.rows = {}}

ASSUME OpeningAssumption ==
    /\ Files \subseteq File
    /\ Budget \in [Openers -> Nat]
    /\ Growths \subseteq Nat
    /\ APPLICATION_ID \in Int \ {0}
    /\ MAX_SCHEMA_ATTEMPTS \in Nat

VARIABLES
    file,  \* the committed content of the path
    op     \* op[p]: how far p is, with the locals of its call of open

openingVars == <<file, op>>

Refusals == {"Limit", "Rejected", "Conflict", "Failed"}
InTransaction == {"define", "stamp", "commit"}
Running == InTransaction \cup {"check", "read", "lock", "validate", "persist", "verify"}
Phases == Running \cup Refusals \cup {"closed", "open"}

\* One call of open: the attempt and the version it read, the page ceiling of
\* its connection, and the file as its transaction has changed it.
Opener == [phase: Phases, attempt: Nat, seen: Int, ceiling: Nat, work: File]

NoFile == [intact |-> TRUE, app |-> 0, version |-> 0, objects |-> {}, revision |-> -1,
           rows |-> {}, wal |-> FALSE, pages |-> 0]

\* An opener at rest: closed, or refused with the kind of its error.  The
\* verdicts of the schema code are "Rejected"; an error of SQLite itself, which
\* has the same StateErrorKind::Database, is "Failed".
AtRest(phase) == [phase |-> phase, attempt |-> 0, seen |-> 0, ceiling |-> 0, work |-> NoFile]

Becomes(p, s) == op' = [op EXCEPT ![p] = s]

\* On to a phase, from the locals s; an error drops the connection and them.
To(phase, s) == IF phase \in Refusals THEN AtRest(phase) ELSE [s EXCEPT !.phase = phase]

\* Another opener holds the write lock.
LockedOut(p) == \E q \in Openers \ {p} : op[q].phase \in InTransaction

\* A reader waits for an exclusive transaction unless the journal is a WAL.
Readable(p) == file.wal \/ ~LockedOut(p)

\* apply_page_limit: SQLite does not lower the ceiling below the present size.
PageLimit(p) == IF Budget[p] < file.pages THEN file.pages ELSE Budget[p]

\* Allocating g pages fails at the ceiling.
Fits(p, pages, g) == g = 0 \/ pages + g <= op[p].ceiling
-----------------------------------------------------------------------------
(* Validation                                                              *)

ValidSchemaOne(f) == f.objects = {"one"} /\ f.revision >= 0

ValidSchema(f) == f.objects = {"one", "two"} /\ f.revision >= 0

-----------------------------------------------------------------------------
OpeningInit ==
    /\ file \in Files
    /\ op = [p \in Openers |-> AtRest("closed")]

\* The length of the file is compared before a connection exists; what is still
\* in the write-ahead log is not part of it.  The path may be a link, or not be
\* accessible.
Start(p) ==
    /\ op[p].phase \in Refusals \cup {"closed"}
    /\ \/ file.pages > Budget[p] /\ Becomes(p, AtRest("Limit"))
       \/ Becomes(p, AtRest("Failed"))
       \/ /\ file.pages <= Budget[p] \/ file.wal
          /\ Becomes(p, AtRest("check"))
    /\ UNCHANGED file

\* The page ceiling is installed first, then quick_check.
Check(p) ==
    /\ op[p].phase = "check" /\ Readable(p)
    /\ Becomes(p, To(IF file.intact THEN "read" ELSE "Rejected",
                     [op[p] EXCEPT !.ceiling = PageLimit(p)]))
    /\ UNCHANGED file

\* Faulty variant: a file that says it is of the present schema needs no work.
AfterIdentityTrusting(f) ==
    IF f.app \notin {0, APPLICATION_ID} \/ f.version > STORE_SCHEMA_VERSION THEN "Rejected"
    ELSE IF f.version # STORE_SCHEMA_VERSION THEN "lock"
    ELSE IF f.app = APPLICATION_ID THEN "verify" ELSE "Rejected"

\* initialize_or_validate: what the identity of the file asks for.
AfterIdentity(f) ==
    IF f.app \notin {0, APPLICATION_ID} \/ f.version > STORE_SCHEMA_VERSION THEN "Rejected"
    ELSE IF f.version # STORE_SCHEMA_VERSION THEN "lock"
    ELSE IF f.app = APPLICATION_ID THEN "validate" ELSE "Rejected"

\* read_identity, in a transaction that ends before the exclusive one begins.
ReadIdentity(p) ==
    /\ op[p].phase = "read" /\ Readable(p)
    /\ Becomes(p, To(AfterIdentity(file), [op[p] EXCEPT !.seen = file.version]))
    /\ UNCHANGED file

\* Faulty variant: an opener that comes second does not expect the first.
InitializeLockedAlone(f) ==
    IF f.app # 0 \/ f.version # 0 \/ f.objects # {} THEN "Rejected" ELSE "define"

\* Faulty variant: an unversioned file is taken for an empty one.
InitializeLockedUncounted(f) ==
    IF f.app = APPLICATION_ID /\ f.version = STORE_SCHEMA_VERSION THEN "validate"
    ELSE IF f.app # 0 \/ f.version # 0 THEN "Rejected"
    ELSE "define"

\* initialize, once it holds the lock: another opener may have been faster.
InitializeLocked(f) ==
    IF f.app = APPLICATION_ID /\ f.version = STORE_SCHEMA_VERSION THEN "validate"
    ELSE IF f.app # 0 \/ f.version # 0 \/ f.objects # {} THEN "Rejected"
    ELSE "define"

\* migrate, once it holds the lock: it re-reads the identity and validates
\* schema 1 before it changes anything.
MigrateLocked(f, from) ==
    IF f.app # APPLICATION_ID THEN "Rejected"
    ELSE IF f.version = STORE_SCHEMA_VERSION THEN "validate"
    ELSE IF f.version # from \/ f.version \notin 1..STORE_SCHEMA_VERSION THEN "Rejected"
    ELSE IF ValidSchemaOne(f) THEN "define" ELSE "Rejected"

Lock(p) ==
    /\ op[p].phase = "lock" /\ ~LockedOut(p)
    /\ Becomes(p, To(IF op[p].seen = 0 THEN InitializeLocked(file)
                                       ELSE MigrateLocked(file, op[p].seen),
                     [op[p] EXCEPT !.work = file]))
    /\ UNCHANGED file

\* The tables and indexes of both schemas and the meta row, or only what
\* schema 2 adds, on g more pages.
Defined(f, from, g) ==
    [f EXCEPT !.objects = f.objects \cup (IF from = 0 THEN {"one", "two"} ELSE {"two"}),
              !.revision = IF from = 0 THEN 0 ELSE f.revision,
              !.pages = f.pages + g]

Define(p) ==
    /\ op[p].phase = "define"
    /\ \E g \in Growths :
          Becomes(p, To(IF Fits(p, op[p].work.pages, g) THEN "stamp" ELSE "Limit",
                        [op[p] EXCEPT !.work = Defined(op[p].work, op[p].seen, g)]))
    /\ UNCHANGED file

\* application_id and user_version; a migration validates what it has made.
Stamped(f) == [f EXCEPT !.app = APPLICATION_ID, !.version = STORE_SCHEMA_VERSION]

Stamp(p) ==
    /\ op[p].phase = "stamp"
    /\ Becomes(p, To(IF op[p].seen = 0 \/ ValidSchema(op[p].work) THEN "commit" ELSE "Rejected",
                     [op[p] EXCEPT !.work = Stamped(op[p].work)]))
    /\ UNCHANGED file

CommitSchema(p) ==
    /\ op[p].phase = "commit"
    /\ file' = op[p].work
    /\ Becomes(p, To("validate", [op[p] EXCEPT !.work = NoFile]))

Validate(p) ==
    /\ op[p].phase = "validate" /\ Readable(p)
    /\ Becomes(p, To(IF ValidSchema(file) THEN "persist" ELSE "Rejected", op[p]))
    /\ UNCHANGED file

\* configure_persistence: the WAL is a property of the file.
Persist(p) ==
    /\ op[p].phase = "persist" /\ Readable(p)
    /\ file' = [file EXCEPT !.wal = TRUE]
    /\ Becomes(p, To("verify", [op[p] EXCEPT !.ceiling = PageLimit(p)]))

\* verify_database_budget
Verify(p) ==
    /\ op[p].phase = "verify" /\ Readable(p)
    /\ Becomes(p, To(IF op[p].ceiling <= Budget[p] /\ file.pages <= Budget[p]
                     THEN "open" ELSE "Limit", op[p]))
    /\ UNCHANGED file

\* The busy timeout ends first.  Only a busy exclusive transaction is retried,
\* from the identity on and MAX_SCHEMA_ATTEMPTS times in all.
Busy(p) ==
    /\ op[p].phase \in Running \ InTransaction
    /\ \E q \in Openers \ {p} : op[q].phase \in InTransaction \cup {"open"}
    /\ Becomes(p, To(IF op[p].phase = "lock" /\ op[p].attempt + 1 < MAX_SCHEMA_ATTEMPTS
                     THEN "read" ELSE "Conflict",
                     [op[p] EXCEPT !.attempt = op[p].attempt + 1]))
    /\ UNCHANGED file

\* SQLite reports another error; dropping the transaction rolls it back.
Fails(p) ==
    /\ op[p].phase \in Running
    /\ Becomes(p, AtRest("Failed"))
    /\ UNCHANGED file

\* A host that has the store open commits state (commit_plan).
HostCommits(p) ==
    /\ op[p].phase = "open" /\ ~LockedOut(p)
    /\ file.revision < MaxCommits
    /\ \E g \in Growths :
          /\ Fits(p, file.pages, g)
          /\ file' = [file EXCEPT !.revision = file.revision + 1,
                                  !.rows = file.rows \cup {file.revision + 1},
                                  !.pages = file.pages + g]
    /\ UNCHANGED op

\* The process ends, at any point.
Exits(p) ==
    /\ op[p].phase \in Running \cup {"open"}
    /\ Becomes(p, AtRest("closed"))
    /\ UNCHANGED file

Opens(p) ==
    \/ Check(p) \/ ReadIdentity(p) \/ Lock(p)
    \/ Define(p) \/ Stamp(p) \/ CommitSchema(p)
    \/ Validate(p) \/ Persist(p) \/ Verify(p)
    \/ Busy(p)

OpeningNext ==
    \E p \in Openers : Start(p) \/ Opens(p) \/ Fails(p) \/ HostCommits(p) \/ Exits(p)

OpeningSpec == OpeningInit /\ [][OpeningNext]_openingVars

-----------------------------------------------------------------------------
(* Properties                                                              *)

Empty(f) == f.app = 0 /\ f.version = 0 /\ f.objects = {}
SchemaOne(f) == f.app = APPLICATION_ID /\ f.version = 1 /\ ValidSchemaOne(f)
SchemaTwo(f) == f.app = APPLICATION_ID /\ f.version = 2 /\ ValidSchema(f)

\* What open accepts: nothing yet, or a complete store of a schema it knows.
Sound(f) == f.intact /\ (Empty(f) \/ SchemaOne(f) \/ SchemaTwo(f))

\* The variables have their types.
OpeningTypeOK ==
    /\ file \in File
    /\ op \in [Openers -> Opener]

\* As long as some host has the store open the file is a complete schema-2
\* store, whoever else opens, migrates, fails or dies: open returns a store only
\* after it validated one, and no later open of the same file changes that.
OpenStoreIsSound == (\E p \in Openers : op[p].phase = "open") => file.intact /\ SchemaTwo(file)

\* "Krit never resets or replaces an unknown database": a file that is neither
\* empty nor a complete store of schema 1 or 2 is never changed, not even its
\* journal mode, by any number of attempts to open it.
UnknownFileUntouched == [][~Sound(file) => UNCHANGED file]_openingVars

\* Initialization and migration are all or nothing and keep the data: a sound
\* file stays sound in every step, a crash between two statements of the
\* transaction included, and rows, revision and schema version never go back.
StoreMovesForward ==
    [][Sound(file) => /\ Sound(file')
                      /\ file.version <= file'.version
                      /\ file.revision <= file'.revision
                      /\ file.rows \subseteq file'.rows]_openingVars

\* Both together, what any number of opens may do to the file that is there:
\* nothing if it is unknown, and otherwise only what loses nothing.
FileIsRespected == UnknownFileUntouched /\ StoreMovesForward

\* Openers that race for the first open or the migration do not take each
\* other's work for damage: a sound store is never rejected, although the
\* identity is read before the lock is held.
SoundStoreNotRejected == Sound(file) => \A p \in Openers : op[p].phase # "Rejected"

\* The ceiling is in force before the first statement that could allocate: no
\* opener commits a schema that grows the file beyond its budget, and an open
\* handle can never allocate beyond it.
BudgetInForce ==
    \A p \in Openers :
        /\ op[p].phase \in {"stamp", "commit"} /\ op[p].work.pages > file.pages
              => op[p].work.pages <= Budget[p]
        /\ op[p].phase = "open" => op[p].ceiling = Budget[p]

\* Both together, what a host relies on once open has returned: a complete store
\* under it, and a ceiling that nothing it does can exceed.
OpenedStoreHolds == OpenStoreIsSound /\ BudgetInForce
=============================================================================
