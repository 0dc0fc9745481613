----------------------------- MODULE KeyManager -----------------------------
(***************************************************************************)
(* The downstream API keys: internal/keymgmt/keymgmt.go, used by the       *)
(* gateway server and by the command line (internal/cli), which is a       *)
(* process of its own on the same SQLite file.                             *)
(*                                                                         *)
(* The database survives crashes; each process serves from a snapshot of   *)
(* it that is replaced as a whole after each write of its own.  One action *)
(* is one SQL statement or one operation on the mutex or the snapshot:     *)
(* the code uses no transaction.  A key stands for its raw value and its   *)
(* hash; hashing, encryption, names, models and expiry are left out.       *)
(***************************************************************************)
EXTENDS Integers, FiniteSets

CONSTANTS
    Procs,             \* operating system processes: the server, the command line
    Servers,           \* those that serve HTTP: the command line has no revoke
    Ops,               \* admin calls that may be under way at the same time
    ProcOf,            \* the process of each
    Configs,           \* the static keys of API_KEY or DOWNSTREAM_KEYS_JSON, in
                       \* each configuration a process may be started with
    DynKeys,           \* keys CreateKey can draw
    IdOf,              \* the id column
    Faults,            \* whether SQL statements may fail (locked, disk, ...):
                       \* the cases to explore
    ConcurrentStarts,  \* whether a process may start while another imports
    MaxStarts          \* bound: starts of each process

NoOne == "none"
NoKey == "none"
StaticKeys == UNION Configs
Keys == StaticKeys \cup DynKeys

ASSUME ServersAssumption == Servers \subseteq Procs
ASSUME OpsAssumption == NoOne \notin Ops /\ ProcOf \in [Ops -> Procs]
ASSUME KeysAssumption == NoKey \notin Keys /\ StaticKeys \cap DynKeys = {}
(* DOWNSTREAM_KEYS_JSON with an id used twice is rejected (config.go:182). *)
ASSUME ConfigsAssumption ==
    \A st \in Configs : \A s, t \in st : IdOf[s] = IdOf[t] => s = t
ASSUME FlagsAssumption == Faults \subseteq BOOLEAN /\ ConcurrentStarts \in BOOLEAN
ASSUME StartsAssumption == MaxStarts \in [Procs -> Nat]

VARIABLES
    faulty,      \* SQL statements fail in this behaviour
    rows,        \* downstream_keys: per key "none" (no row), "active", "revoked"
    migrations,  \* key_migrations
    phase,       \* per process: "down", "import", "up", "failed" (exit 1)
    starts,      \* how often each process was started
    static,      \* m.staticKeys
    todo,        \* static keys the import loop has still to visit
    importing,   \* the import's next statement and its key
    snapshot,    \* m.snapshot: the status of each key, "static" if not from a row
    writeMu,     \* the call that holds m.writeMu, or NoOne
    op,          \* the state of each admin call
    refuse,      \* history: keys each process said are revoked or deleted,
                 \* and those any process had said so when it started
    issued,      \* history: keys created or imported by it, likewise
    retired      \* history: keys hit by a revoking or deleting statement

db == <<faulty, rows, migrations>>
history == <<refuse, issued, retired>>
vars == <<faulty, rows, migrations, phase, starts, static, todo, importing, snapshot,
          writeMu, op, refuse, issued, retired>>

Statuses == {"none", "active", "revoked", "static"}
Idle == [pc |-> "idle", kind |-> "none", key |-> NoKey, loaded |-> [k \in Keys |-> "none"]]
NotImporting == [pc |-> "next", key |-> NoKey]

Init ==
    /\ faulty \in Faults
    /\ rows = [k \in Keys |-> "none"]
    /\ migrations = {}
    /\ phase = [p \in Procs |-> "down"]
    /\ starts = [p \in Procs |-> 0]
    /\ static = [p \in Procs |-> {}]
    /\ todo = [p \in Procs |-> {}]
    /\ importing = [p \in Procs |-> NotImporting]
    /\ snapshot = [p \in Procs |-> [k \in Keys |-> "none"]]
    /\ writeMu = [p \in Procs |-> NoOne]
    /\ op = [o \in Ops |-> Idle]
    /\ refuse = [p \in Procs |-> {}]
    /\ issued = [p \in Procs |-> {}]
    /\ retired = {}

Exists(k) == rows[k] # "none"

(***************************************************************************)
(* reloadSnapshot: static keys first, then the rows, which replace a       *)
(* static key of the same id and hash; any other key with the id of a      *)
(* static one makes it fail.                                               *)
(***************************************************************************)
Conflict(st) == \E s \in st : \E k \in Keys \ {s} : Exists(k) /\ IdOf[k] = IdOf[s]

View(st) == [k \in Keys |-> IF Exists(k) THEN rows[k]
                            ELSE IF k \in st THEN "static" ELSE "none"]

(* Authenticate looks only at the process's own snapshot. *)
Accepts(p, k) == snapshot[p][k] \in {"active", "static"}

-----------------------------------------------------------------------------
(* Start-up: NewManager, then ImportStaticKeys; only then calls are served. *)

Start(p) ==
    /\ phase[p] \in {"down", "failed"} /\ starts[p] < MaxStarts[p]
    /\ ConcurrentStarts \/ \A q \in Procs : phase[q] # "import"
    /\ starts' = [starts EXCEPT ![p] = @ + 1]
    /\ refuse' = [refuse EXCEPT ![p] = UNION {refuse[q] : q \in Procs}]
    /\ issued' = [issued EXCEPT ![p] = UNION {issued[q] : q \in Procs}]
    /\ \E st \in Configs :
        \/ /\ ~Conflict(st)
           /\ phase' = [phase EXCEPT ![p] = "import"]
           /\ static' = [static EXCEPT ![p] = st]
           /\ todo' = [todo EXCEPT ![p] = st]
           /\ importing' = [importing EXCEPT ![p] = NotImporting]
           /\ snapshot' = [snapshot EXCEPT ![p] = View(st)]
        \/ /\ Conflict(st) \/ faulty
           /\ phase' = [phase EXCEPT ![p] = "failed"]
           /\ UNCHANGED <<static, todo, importing, snapshot>>
    /\ UNCHANGED <<db, writeMu, op, retired>>

ImportAt(p, pc) == phase[p] = "import" /\ importing[p].pc = pc

GoTo(p, pc, k) == importing' = [importing EXCEPT ![p] = [pc |-> pc, key |-> k]]

(* main exits: the process's memory is gone, the database stays. *)
Exit(p, how) ==
    /\ phase' = [phase EXCEPT ![p] = how]
    /\ snapshot' = [snapshot EXCEPT ![p] = [k \in Keys |-> "none"]]
    /\ static' = [static EXCEPT ![p] = {}]
    /\ todo' = [todo EXCEPT ![p] = {}]
    /\ importing' = [importing EXCEPT ![p] = NotImporting]

(* Mutant: key_migrations is not looked at. *)
ImportNextAgain(p) ==
    /\ ImportAt(p, "next")
    /\ \E k \in todo[p] :
        /\ todo' = [todo EXCEPT ![p] = @ \ {k}]
        /\ GoTo(p, "exists", k)
    /\ UNCHANGED <<db, phase, starts, static, snapshot, writeMu, op, history>>

(* SELECT COUNT(1) FROM key_migrations: a migrated key is skipped. *)
ImportNext(p) ==
    /\ ImportAt(p, "next")
    /\ \E k \in todo[p] :
        \/ /\ todo' = [todo EXCEPT ![p] = @ \ {k}]
           /\ IF k \in migrations THEN UNCHANGED importing ELSE GoTo(p, "exists", k)
           /\ UNCHANGED <<phase, static, snapshot>>
        \/ faulty /\ Exit(p, "failed")
    /\ UNCHANGED <<db, starts, writeMu, op, history>>

(* Mutant: the row is taken to be missing. *)
ImportExistsNever(p) ==
    /\ ImportAt(p, "exists")
    /\ GoTo(p, "insert", importing[p].key)
    /\ UNCHANGED <<db, phase, starts, static, todo, snapshot, writeMu, op, history>>

(* SELECT COUNT(1) FROM downstream_keys: an existing row is kept. *)
ImportExists(p) ==
    /\ ImportAt(p, "exists")
    /\ LET k == importing[p].key
       IN  \/ /\ GoTo(p, IF Exists(k) THEN "mark" ELSE "insert", k)
              /\ UNCHANGED <<phase, static, todo, snapshot>>
           \/ faulty /\ Exit(p, "failed")
    /\ UNCHANGED <<db, starts, writeMu, op, history>>

(* INSERT INTO downstream_keys, whose id and hash are unique. *)
ImportInsert(p) ==
    /\ ImportAt(p, "insert")
    /\ LET k == importing[p].key
           taken == \E j \in Keys : Exists(j) /\ IdOf[j] = IdOf[k]
       IN  \/ /\ ~taken
              /\ rows' = [rows EXCEPT ![k] = "active"]
              /\ GoTo(p, "mark", k)
              /\ UNCHANGED <<phase, static, todo, snapshot>>
           \/ /\ taken \/ faulty
              /\ Exit(p, "failed")
              /\ UNCHANGED rows
    /\ UNCHANGED <<faulty, migrations, starts, writeMu, op, history>>

(* INSERT INTO key_migrations. *)
ImportMark(p) ==
    /\ ImportAt(p, "mark")
    /\ LET k == importing[p].key
       IN  \/ /\ k \notin migrations
              /\ migrations' = migrations \cup {k}
              /\ GoTo(p, "next", NoKey)
              /\ UNCHANGED <<phase, static, todo, snapshot>>
           \/ /\ k \in migrations \/ faulty
              /\ Exit(p, "failed")
              /\ UNCHANGED migrations
    /\ UNCHANGED <<faulty, rows, starts, writeMu, op, history>>

(* The loop is over: the static keys are forgotten, the snapshot reloaded. *)
ImportDone(p) ==
    /\ ImportAt(p, "next") /\ todo[p] = {}
    /\ \/ /\ phase' = [phase EXCEPT ![p] = "up"]
          /\ issued' = [issued EXCEPT ![p] = @ \cup static[p]]
          /\ static' = [static EXCEPT ![p] = {}]
          /\ snapshot' = [snapshot EXCEPT ![p] = View({})]
          /\ UNCHANGED <<todo, importing>>
       \/ faulty /\ Exit(p, "failed") /\ UNCHANGED issued
    /\ UNCHANGED <<db, starts, writeMu, op, refuse, retired>>

-----------------------------------------------------------------------------
(* Admin calls.  Each is a goroutine of a running process. *)

At(o, pc) == op[o].pc = pc /\ phase[ProcOf[o]] = "up"

Begin(o, kind, k) ==
    /\ At(o, "idle")
    /\ op' = [op EXCEPT ![o] = [Idle EXCEPT !.pc = "lock", !.kind = kind, !.key = k]]
    /\ UNCHANGED <<db, phase, starts, static, todo, importing, snapshot, writeMu, history>>

(* The key CreateKey draws is fresh: 38 random bytes. *)
BeginCreate(o) ==
    \E k \in DynKeys :
        /\ ~Exists(k) /\ k \notin retired
        /\ \A q \in Procs : k \notin issued[q]
        /\ \A x \in Ops : op[x].key # k
        /\ Begin(o, "create", k)

BeginDelete(o) == \E k \in Keys : Begin(o, "delete", k)

(* RevokeKey first looks, without the lock, whether the key is static. *)
BeginRevoke(o) ==
    /\ ProcOf[o] \in Servers
    /\ \E k \in Keys :
        /\ \A j \in Keys : IdOf[j] = IdOf[k] => snapshot[ProcOf[o]][j] # "static"
        /\ Begin(o, "revoke", k)

(* Mutant: there is no writeMu. *)
LockFree(o) ==
    /\ At(o, "lock")
    /\ op' = [op EXCEPT ![o].pc = "write"]
    /\ UNCHANGED <<db, phase, starts, static, todo, importing, snapshot, writeMu, history>>

Lock(o) ==
    /\ At(o, "lock") /\ writeMu[ProcOf[o]] = NoOne
    /\ writeMu' = [writeMu EXCEPT ![ProcOf[o]] = o]
    /\ op' = [op EXCEPT ![o].pc = "write"]
    /\ UNCHANGED <<db, phase, starts, static, todo, importing, snapshot, history>>

(* Mutant: the mutex is not released. *)
ReturnLocked(o) == op' = [op EXCEPT ![o] = Idle] /\ UNCHANGED writeMu

(* The call returns, here with an error; the deferred unlock runs. *)
Return(o) ==
    /\ writeMu' = [writeMu EXCEPT ![ProcOf[o]] = NoOne]
    /\ op' = [op EXCEPT ![o] = Idle]

(* INSERT, or DELETE or UPDATE of the row with the id; no row affected is *)
(* ErrKeyNotFound.                                                        *)
Write(o) ==
    /\ At(o, "write")
    /\ LET called == op[o].key
           hit == {k \in Keys : Exists(k) /\ IdOf[k] = IdOf[called]}
           done(k, status) ==
               /\ rows' = [rows EXCEPT ![k] = status]
               /\ op' = [op EXCEPT ![o].pc = "query", ![o].key = k]
               /\ UNCHANGED writeMu
       IN  \/ /\ op[o].kind = "create"
              /\ done(called, "active")
              /\ UNCHANGED retired
           \/ /\ op[o].kind \in {"delete", "revoke"}
              /\ \E k \in hit :
                  /\ done(k, IF op[o].kind = "delete" THEN "none" ELSE "revoked")
                  /\ retired' = retired \cup {k}
           \/ /\ faulty \/ (op[o].kind # "create" /\ hit = {})
              /\ Return(o)
              /\ UNCHANGED <<rows, retired>>
    /\ UNCHANGED <<faulty, migrations, phase, starts, static, todo, importing,
                   snapshot, refuse, issued>>

(* reloadSnapshot reads the table; if that fails the call fails although   *)
(* its write is in the database.                                           *)
Query(o) ==
    /\ At(o, "query")
    /\ LET st == static[ProcOf[o]]
       IN  \/ /\ ~Conflict(st)
              /\ op' = [op EXCEPT ![o].pc = "store", ![o].loaded = View(st)]
              /\ UNCHANGED writeMu
           \/ /\ Conflict(st) \/ faulty
              /\ Return(o)
    /\ UNCHANGED <<db, phase, starts, static, todo, importing, snapshot, history>>

(* The snapshot pointer is swapped, the mutex released, success returned.  *)
Store(o) ==
    /\ At(o, "store")
    /\ LET p == ProcOf[o]
           k == op[o].key
       IN  /\ snapshot' = [snapshot EXCEPT ![p] = op[o].loaded]
           /\ IF op[o].kind = "create"
              THEN issued' = [issued EXCEPT ![p] = @ \cup {k}] /\ UNCHANGED refuse
              ELSE refuse' = [refuse EXCEPT ![p] = @ \cup {k}] /\ UNCHANGED issued
    /\ Return(o)
    /\ UNCHANGED <<db, phase, starts, static, todo, importing, retired>>

(* A crash, a kill or the end of a command: memory is gone. *)
Crash(p) ==
    /\ phase[p] \in {"import", "up"}
    /\ Exit(p, "down")
    /\ writeMu' = [writeMu EXCEPT ![p] = NoOne]
    /\ op' = [o \in Ops |-> IF ProcOf[o] = p THEN Idle ELSE op[o]]
    /\ UNCHANGED <<db, starts, history>>

Import(p) ==
    ImportNext(p) \/ ImportExists(p) \/ ImportInsert(p) \/ ImportMark(p) \/ ImportDone(p)

Call(o) == BeginCreate(o) \/ BeginDelete(o) \/ BeginRevoke(o)

Work(o) == Lock(o) \/ Write(o) \/ Query(o) \/ Store(o)

Next == \/ \E p \in Procs : Start(p) \/ Import(p) \/ Crash(p)
        \/ \E o \in Ops : Call(o) \/ Work(o)

Spec == Init /\ [][Next]_vars

(* An admin call keeps running; strongly, as sync.Mutex lets no goroutine  *)
(* wait for ever.                                                          *)
FairSpec == Spec /\ \A o \in Ops : SF_vars(Work(o))

-----------------------------------------------------------------------------
TypeOK ==
    /\ faulty \in Faults
    /\ rows \in [Keys -> Statuses \ {"static"}]
    /\ migrations \in SUBSET StaticKeys
    /\ phase \in [Procs -> {"down", "import", "up", "failed"}]
    /\ starts \in [Procs -> Nat] /\ \A p \in Procs : starts[p] <= MaxStarts[p]
    /\ static \in [Procs -> {{}} \cup Configs]
    /\ todo \in [Procs -> SUBSET StaticKeys]
    /\ importing \in [Procs -> [pc : {"next", "exists", "insert", "mark"},
                                key : StaticKeys \cup {NoKey}]]
    /\ snapshot \in [Procs -> [Keys -> Statuses]]
    /\ writeMu \in [Procs -> Ops \cup {NoOne}]
    /\ op \in [Ops -> [pc : {"idle", "lock", "write", "query", "store"},
                       kind : {"none", "create", "delete", "revoke"},
                       key : Keys \cup {NoKey},
                       loaded : [Keys -> Statuses]]]
    /\ \A o \in Ops : op[o].pc # "idle" => op[o].key \in Keys
    /\ refuse \in [Procs -> SUBSET Keys]
    /\ issued \in [Procs -> SUBSET Keys]
    /\ retired \in SUBSET Keys

(* Once a process has answered that a key is revoked or deleted, it never  *)
(* accepts that key again, whatever calls run beside it and however often  *)
(* it is restarted; nor does a process that starts later.                  *)
RefusesRetired ==
    \A p \in Procs : phase[p] = "up" => \A k \in refuse[p] : ~Accepts(p, k)

(* The command line shares the downstream-key manager with the server      *)
(* (DIFF_FILE): what it answered to be deleted is refused everywhere.      *)
RefusedEverywhere ==
    \A p \in Servers, q \in Procs \ Servers :
        phase[p] = "up" => \A k \in refuse[q] : ~Accepts(p, k)

(* A key that was handed out, or imported, works until a call to revoke  *)
(* or delete it reaches the database: no reload loses it.                  *)
HonoursIssued ==
    \A p \in Procs : phase[p] = "up" =>
        \A k \in issued[p] \ retired : Accepts(p, k)

(* In the database a revoked key never becomes active again and a deleted  *)
(* one never comes back, not even by the import of the static keys at the  *)
(* next start: that is what key_migrations is for.                         *)
NoResurrection ==
    [][\A k \in retired : /\ rows[k] = "none" => rows'[k] = "none"
                          /\ rows[k] = "revoked" => rows'[k] # "active"]_vars

(* Whatever statement an earlier import was interrupted at, this one is    *)
(* not turned back by what it left in the database: it fails only if       *)
(* SQLite does.                                                            *)
ImportCompletes ==
    [][\A p \in Procs : phase[p] = "import" /\ phase'[p] = "failed" => faulty]_vars

(* The snapshot is exactly the database whenever no write is under way, in *)
(* a process that is alone to write, unless a reload has failed.           *)
SnapshotCurrent ==
    ~faulty => \A p \in Procs :
        phase[p] = "up" /\ writeMu[p] = NoOne => snapshot[p] = View({})

(* Every admin call returns: the write mutex is released on every path.    *)
CallsReturn == \A o \in Ops : []<>(op[o].pc = "idle")
=============================================================================
