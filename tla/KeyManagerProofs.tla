-------------------------- MODULE KeyManagerProofs --------------------------
(***************************************************************************)
(* Theorems about KeyManager: type correctness in general; and for one     *)
(* process whose configuration is not edited, but that may crash and be    *)
(* restarted at any point, serves any number of calls at a time and meets  *)
(* failing statements anywhere, that retired keys stay refused and issued  *)
(* ones accepted.                                                          *)
(***************************************************************************)
EXTENDS KeyManager, TLAPS

USE DEF db, history

(* Only one process uses the database, with one set of static keys. *)
Alone == \A p, q \in Procs : p = q
Settled == \A s, t \in Configs : s = t

-----------------------------------------------------------------------------
(* The inductive invariant, in parts. *)

Importing(p) == importing[p].pc # "next"
Pending(o) == op[o].kind = "create" /\ op[o].pc \in {"lock", "write"}
Written(o) == op[o].pc \in {"query", "store"}

ImportKnown == \A p \in Procs : Importing(p) => importing[p].key \in StaticKeys

(* The mutex is held from Lock to Return, and only a running process works. *)
MutexHeld ==
    /\ \A p \in Procs, o \in Ops :
        writeMu[p] = o <=> ProcOf[o] = p /\ op[o].pc \in {"write", "query", "store"}
    /\ \A o \in Ops : op[o].pc # "idle" => phase[ProcOf[o]] = "up"

(* What the import has done: the keys it has visited are marked, the one   *)
(* under way is not.                                                       *)
ImportSoFar ==
    \A p \in Procs : phase[p] = "import" =>
        /\ static[p] \in Configs /\ todo[p] \subseteq static[p]
        /\ ~Conflict(static[p])
        /\ \A k \in static[p] \ todo[p] : k \in migrations \/ (Importing(p) /\ importing[p].key = k)
        /\ Importing(p) =>
            /\ importing[p].key \in static[p] /\ importing[p].key \notin migrations
            /\ importing[p].pc = "insert" => ~Exists(importing[p].key)
            /\ importing[p].pc = "mark" => Exists(importing[p].key)

ImportOver ==
    \A p \in Procs : phase[p] = "up" => static[p] = {} /\ StaticKeys \subseteq migrations

(* A row that was ever there is there, or was retired; what was retired    *)
(* has no active row, and if it is static it is marked as imported.        *)
RowsKept ==
    /\ \A k \in migrations : Exists(k) \/ k \in retired
    /\ \A k \in Keys : rows[k] = "revoked" => k \in retired
    /\ \A k \in retired : rows[k] # "active" /\ (k \in StaticKeys => k \in migrations)

(* A key that is being created is known to nobody yet. *)
CreatesFresh ==
    /\ \A o \in Ops : Pending(o) =>
        op[o].key \in DynKeys /\ op[o].key \notin retired /\ ~Exists(op[o].key)
    /\ \A o, x \in Ops : Pending(o) /\ Pending(x) /\ o # x => op[o].key # op[x].key

(* What a call has written and loaded. *)
CallsWritten ==
    \A o \in Ops : Written(o) =>
        /\ IF op[o].kind = "create" THEN op[o].key \in retired \/ rows[op[o].key] = "active"
                                    ELSE op[o].key \in retired
        /\ op[o].pc = "store" => op[o].loaded = View({})

(* What was answered is in the database... *)
AnswersKept ==
    \A p \in Procs : /\ refuse[p] \subseteq retired
                     /\ \A k \in issued[p] : k \in retired \/ rows[k] = "active"

(* ... and in the snapshot, which is as old as the last reload. *)
SnapshotSince ==
    \A p \in Procs : phase[p] = "up" /\ ~faulty /\ (\A o \in Ops : ProcOf[o] = p => ~Written(o))
                        => snapshot[p] = View({})

IInv ==
    /\ TypeOK /\ ImportKnown
    /\ MutexHeld
    /\ ImportSoFar /\ ImportOver
    /\ RowsKept
    /\ CreatesFresh /\ CallsWritten
    /\ AnswersKept
    /\ SnapshotSince /\ RefusesRetired /\ HonoursIssued

-----------------------------------------------------------------------------
LEMMA ViewType == TypeOK => \A st : View(st) \in [Keys -> Statuses]
BY DEF TypeOK, View, Statuses, Exists

LEMMA ConfigKeys == \A st \in Configs : st \subseteq StaticKeys /\ st \subseteq Keys
BY DEF StaticKeys, Keys

LEMMA InitIInv == Init => IInv
<1> SUFFICES ASSUME Init PROVE IInv
    OBVIOUS
<1> USE DEF Init
<1>1. TypeOK
    BY StartsAssumption DEF TypeOK, Statuses, Idle, NotImporting, Keys
<1>2. MutexHeld
    BY OpsAssumption DEF MutexHeld, Idle
<1>3. ImportKnown /\ ImportSoFar /\ ImportOver /\ RowsKept
    BY DEF ImportKnown, ImportSoFar, ImportOver, RowsKept, Importing, NotImporting
<1>4. CreatesFresh /\ CallsWritten /\ AnswersKept
    BY DEF CreatesFresh, CallsWritten, AnswersKept, Pending, Written, Idle
<1>5. SnapshotSince /\ RefusesRetired /\ HonoursIssued
    BY DEF SnapshotSince, RefusesRetired, HonoursIssued
<1> QED
    BY <1>1, <1>2, <1>3, <1>4, <1>5 DEF IInv

-----------------------------------------------------------------------------
(* Type correctness, whatever the processes and configurations.            *)

TypeInv == TypeOK /\ ImportKnown

OpRecord == [pc : {"idle", "lock", "write", "query", "store"},
             kind : {"none", "create", "delete", "revoke"},
             key : Keys \cup {NoKey},
             loaded : [Keys -> Statuses]]

OpTyped == op \in [Ops -> OpRecord] /\ \A o \in Ops : op[o].pc # "idle" => op[o].key \in Keys

DbTyped ==
    /\ faulty \in Faults
    /\ rows \in [Keys -> Statuses \ {"static"}]
    /\ migrations \in SUBSET StaticKeys
    /\ refuse \in [Procs -> SUBSET Keys] /\ issued \in [Procs -> SUBSET Keys]
    /\ retired \in SUBSET Keys

ProcTyped ==
    /\ phase \in [Procs -> {"down", "import", "up", "failed"}]
    /\ starts \in [Procs -> Nat] /\ \A p \in Procs : starts[p] <= MaxStarts[p]
    /\ static \in [Procs -> {{}} \cup Configs]
    /\ todo \in [Procs -> SUBSET StaticKeys]
    /\ snapshot \in [Procs -> [Keys -> Statuses]]
    /\ writeMu \in [Procs -> Ops \cup {NoOne}]

ImportTyped ==
    /\ importing \in [Procs -> [pc : {"next", "exists", "insert", "mark"},
                                key : StaticKeys \cup {NoKey}]]
    /\ ImportKnown

LEMMA TypeParts == TypeOK /\ ImportKnown <=> DbTyped /\ ProcTyped /\ ImportTyped /\ OpTyped
BY DEF TypeOK, DbTyped, ProcTyped, ImportTyped, OpTyped, OpRecord

(* What the steps of a call do to its record, and to no other. *)
Others(o) == \A x \in Ops \ {o} : op'[x] = op[x]

LEMMA BeginEffect ==
    ASSUME OpTyped, NEW o \in Ops, NEW k \in Keys, NEW kind \in {"create", "delete", "revoke"},
           Begin(o, kind, k)
    PROVE  /\ OpTyped' /\ Others(o)
           /\ op'[o].pc = "lock" /\ op'[o].kind = kind /\ op'[o].key = k
BY DEF OpTyped, OpRecord, Others, Begin, Idle, Statuses

LEMMA LockEffect ==
    ASSUME OpTyped, NEW o \in Ops, Lock(o)
    PROVE  /\ OpTyped' /\ Others(o)
           /\ op'[o].pc = "write" /\ op'[o].kind = op[o].kind /\ op'[o].key = op[o].key
BY DEF OpTyped, OpRecord, Others, Lock, At

LEMMA ReturnEffect ==
    ASSUME OpTyped, NEW o \in Ops, Return(o)
    PROVE  /\ OpTyped' /\ Others(o)
           /\ op'[o].pc = "idle" /\ op'[o].kind = "none" /\ op'[o].key = NoKey
BY DEF OpTyped, OpRecord, Others, Return, Idle, Statuses

(* The statement of a call succeeds on the row of k. *)
Wrote(o, k, status) ==
    /\ rows' = [rows EXCEPT ![k] = status] /\ writeMu' = writeMu
    /\ op'[o].pc = "query" /\ op'[o].kind = op[o].kind /\ op'[o].key = k

LEMMA WriteEffect ==
    ASSUME OpTyped, NEW o \in Ops, Write(o)
    PROVE  /\ OpTyped' /\ Others(o) /\ At(o, "write")
           /\ \/ /\ op[o].kind = "create" /\ retired' = retired
                 /\ Wrote(o, op[o].key, "active")
              \/ /\ op[o].kind # "create"
                 /\ \E k \in Keys : /\ Exists(k) /\ retired' = retired \cup {k}
                                    /\ \/ Wrote(o, k, "none")
                                       \/ Wrote(o, k, "revoked")
              \/ Return(o) /\ UNCHANGED <<rows, retired>>
<1>1. At(o, "write") /\ op[o].key \in Keys
    BY DEF Write, At, OpTyped
<1>2. ASSUME NEW k \in Keys, op' = [op EXCEPT ![o].pc = "query", ![o].key = k]
      PROVE  /\ OpTyped' /\ Others(o)
             /\ op'[o].pc = "query" /\ op'[o].kind = op[o].kind /\ op'[o].key = k
    BY <1>2 DEF OpTyped, OpRecord, Others
<1>3. CASE /\ op[o].kind = "create" /\ UNCHANGED <<retired, writeMu>>
           /\ rows' = [rows EXCEPT ![op[o].key] = "active"]
           /\ op' = [op EXCEPT ![o].pc = "query", ![o].key = op[o].key]
    BY <1>1, <1>2, <1>3 DEF Wrote
<1>4. ASSUME op[o].kind \in {"delete", "revoke"}, UNCHANGED writeMu,
             NEW k \in Keys, Exists(k), retired' = retired \cup {k},
             rows' = [rows EXCEPT ![k] = IF op[o].kind = "delete" THEN "none" ELSE "revoked"],
             op' = [op EXCEPT ![o].pc = "query", ![o].key = k]
      PROVE  OpTyped' /\ Others(o) /\ (Wrote(o, k, "none") \/ Wrote(o, k, "revoked"))
    BY <1>2, <1>4 DEF Wrote
<1>5. CASE Return(o) /\ UNCHANGED <<rows, retired>>
    BY <1>1, <1>5, ReturnEffect
<1> QED
    BY <1>1, <1>3, <1>4, <1>5 DEF Write

LEMMA QueryEffect ==
    ASSUME TypeOK, OpTyped, NEW o \in Ops, Query(o)
    PROVE  /\ OpTyped' /\ Others(o) /\ At(o, "query")
           /\ \/ /\ op'[o].pc = "store" /\ op'[o].kind = op[o].kind /\ op'[o].key = op[o].key
                 /\ op'[o].loaded = View(static[ProcOf[o]]) /\ writeMu' = writeMu
              \/ Return(o) /\ (Conflict(static[ProcOf[o]]) \/ faulty)
<1>1. At(o, "query") /\ View(static[ProcOf[o]]) \in [Keys -> Statuses]
    BY ViewType DEF Query
<1>2. CASE op' = [op EXCEPT ![o].pc = "store", ![o].loaded = View(static[ProcOf[o]])]
           /\ UNCHANGED writeMu
    BY <1>1, <1>2 DEF OpTyped, OpRecord, Others, At
<1>3. CASE Return(o) /\ (Conflict(static[ProcOf[o]]) \/ faulty)
    BY <1>1, <1>3, ReturnEffect
<1> QED
    BY <1>2, <1>3 DEF Query

LEMMA StoreEffect ==
    ASSUME OpTyped, NEW o \in Ops, Store(o)
    PROVE  OpTyped' /\ Others(o) /\ At(o, "store") /\ Return(o)
BY ReturnEffect DEF Store

LEMMA CrashEffect ==
    ASSUME OpTyped, NEW p \in Procs, Crash(p)
    PROVE  OpTyped' /\ \A x \in Ops : IF ProcOf[x] = p THEN op'[x].pc = "idle" ELSE op'[x] = op[x]
BY DEF OpTyped, OpRecord, Crash, Idle, Statuses

LEMMA StartType ==
    ASSUME TypeOK, DbTyped, ProcTyped, ImportTyped, OpTyped, NEW p \in Procs, Start(p)
    PROVE  DbTyped' /\ ProcTyped' /\ ImportTyped' /\ OpTyped'
<1>1. PICK st \in Configs :
          \/ /\ phase' = [phase EXCEPT ![p] = "import"]
             /\ static' = [static EXCEPT ![p] = st]
             /\ todo' = [todo EXCEPT ![p] = st]
             /\ importing' = [importing EXCEPT ![p] = NotImporting]
             /\ snapshot' = [snapshot EXCEPT ![p] = View(st)]
          \/ /\ phase' = [phase EXCEPT ![p] = "failed"]
             /\ UNCHANGED <<static, todo, importing, snapshot>>
    BY DEF Start
<1>2. starts[p] < MaxStarts[p] /\ starts' = [starts EXCEPT ![p] = starts[p] + 1]
    BY DEF Start
<1>3. starts' \in [Procs -> Nat] /\ \A q \in Procs : starts'[q] <= MaxStarts[q]
  <2>1. starts[p] \in Nat /\ MaxStarts[p] \in Nat /\ starts \in [Procs -> Nat]
    BY StartsAssumption DEF ProcTyped
  <2>2. starts' \in [Procs -> Nat]
    BY <1>2, <2>1
  <2>3. ASSUME NEW q \in Procs PROVE starts'[q] <= MaxStarts[q]
    <3>1. CASE q = p
      <4>1. starts'[q] = starts[p] + 1
        BY <1>2, <2>1, <3>1
      <4> QED
        BY <1>2, <2>1, <3>1, <4>1
    <3>2. CASE q # p
      <4>1. starts'[q] = starts[q]
        BY <1>2, <2>1, <3>2
      <4> QED
        BY <4>1 DEF ProcTyped
    <3> QED
      BY <3>1, <3>2
  <2> QED
    BY <2>2, <2>3
<1>4. DbTyped'
  <2>1. \A q \in Procs : refuse[q] \subseteq Keys /\ issued[q] \subseteq Keys
    BY DEF DbTyped
  <2>2. UNION {refuse[q] : q \in Procs} \subseteq Keys /\ UNION {issued[q] : q \in Procs} \subseteq Keys
    BY <2>1
  <2>3. /\ refuse' = [refuse EXCEPT ![p] = UNION {refuse[q] : q \in Procs}]
        /\ issued' = [issued EXCEPT ![p] = UNION {issued[q] : q \in Procs}]
        /\ UNCHANGED <<db, retired>>
    BY DEF Start
  <2>4. refuse' \in [Procs -> SUBSET Keys] /\ issued' \in [Procs -> SUBSET Keys]
    BY <2>2, <2>3 DEF DbTyped
  <2> QED
    BY <2>3, <2>4 DEF DbTyped
<1>5. snapshot' \in [Procs -> [Keys -> Statuses]]
    BY <1>1, ViewType DEF ProcTyped
<1>6. UNCHANGED writeMu /\ UNCHANGED op
    BY DEF Start
<1>7. /\ phase' \in [Procs -> {"down", "import", "up", "failed"}]
      /\ static' \in [Procs -> {{}} \cup Configs] /\ todo' \in [Procs -> SUBSET StaticKeys]
  <2>1. st \in {{}} \cup Configs /\ st \in SUBSET StaticKeys
    BY ConfigKeys
  <2>2. phase' \in [Procs -> {"down", "import", "up", "failed"}]
    BY <1>1 DEF ProcTyped
  <2>3. static' \in [Procs -> {{}} \cup Configs]
    BY <1>1, <2>1 DEF ProcTyped
  <2>4. todo' \in [Procs -> SUBSET StaticKeys]
    BY <1>1, <2>1 DEF ProcTyped
  <2> QED
    BY <2>2, <2>3, <2>4
<1>8. ProcTyped'
    BY <1>3, <1>5, <1>6, <1>7 DEF ProcTyped
<1>9. ImportTyped'
    BY <1>1 DEF ImportTyped, ImportKnown, Importing, NotImporting
<1> QED
    BY <1>4, <1>6, <1>8, <1>9 DEF OpTyped

LEMMA ExitType ==
    ASSUME ProcTyped, ImportTyped, NEW p \in Procs, NEW how \in {"down", "failed"},
           Exit(p, how), UNCHANGED starts, writeMu' \in [Procs -> Ops \cup {NoOne}]
    PROVE  ProcTyped' /\ ImportTyped'
<1>1. snapshot' \in [Procs -> [Keys -> Statuses]]
    BY DEF Exit, ProcTyped, Statuses
<1>2. ImportTyped'
    BY DEF Exit, ImportTyped, ImportKnown, Importing, NotImporting
<1> QED
    BY <1>1, <1>2 DEF Exit, ProcTyped

LEMMA ImportType ==
    ASSUME TypeOK, DbTyped, ProcTyped, ImportTyped, OpTyped, NEW p \in Procs, Import(p)
    PROVE  DbTyped' /\ ProcTyped' /\ ImportTyped' /\ OpTyped'
<1> USE DEF ImportAt, GoTo
<1>1. OpTyped' /\ UNCHANGED <<starts, writeMu>>
    BY DEF Import, ImportNext, ImportExists, ImportInsert, ImportMark, ImportDone, OpTyped
<1>2. Importing(p) => importing[p].key \in StaticKeys /\ importing[p].key \in Keys
    BY DEF ImportTyped, ImportKnown, Keys
<1>3. CASE ImportNext(p)
  <2>1. CASE Exit(p, "failed")
    BY <1>1, <1>3, <2>1, ExitType DEF ImportNext, DbTyped, ProcTyped
  <2>2. CASE ~Exit(p, "failed")
    <3>1. PICK k \in todo[p] :
              /\ todo' = [todo EXCEPT ![p] = @ \ {k}]
              /\ importing' = importing \/ GoTo(p, "exists", k)
              /\ UNCHANGED <<phase, static, snapshot>>
      BY <1>3, <2>2 DEF ImportNext
    <3>2. k \in StaticKeys
      BY DEF ProcTyped
    <3>3. ImportTyped'
      BY <3>1, <3>2 DEF ImportTyped, ImportKnown, Importing
    <3> QED
      BY <1>1, <1>3, <3>1, <3>3 DEF ImportNext, DbTyped, ProcTyped
  <2> QED
    BY <2>1, <2>2
<1>4. CASE ImportExists(p)
  <2>1. CASE Exit(p, "failed")
    BY <1>1, <1>4, <2>1, ExitType DEF ImportExists, DbTyped, ProcTyped
  <2>2. CASE ~Exit(p, "failed")
    <3>1. /\ \/ importing' = [importing EXCEPT ![p] = [pc |-> "mark", key |-> importing[p].key]]
             \/ importing' = [importing EXCEPT ![p] = [pc |-> "insert", key |-> importing[p].key]]
          /\ UNCHANGED <<phase, static, todo, snapshot>>
      BY <1>4, <2>2 DEF ImportExists
    <3>2. importing[p].key \in StaticKeys
      BY <1>2, <1>4 DEF ImportExists, Importing
    <3>3. ImportTyped'
      BY <3>1, <3>2 DEF ImportTyped, ImportKnown, Importing
    <3> QED
      BY <1>1, <1>4, <3>1, <3>3 DEF ImportExists, DbTyped, ProcTyped
  <2> QED
    BY <2>1, <2>2
<1>5. CASE ImportInsert(p)
  <2>1. Importing(p)
    BY <1>5 DEF ImportInsert, Importing
  <2>2. CASE /\ rows' = [rows EXCEPT ![importing[p].key] = "active"]
             /\ GoTo(p, "mark", importing[p].key)
             /\ UNCHANGED <<phase, static, todo, snapshot>>
    <3>1. ImportTyped'
      BY <1>2, <2>1, <2>2 DEF ImportTyped, ImportKnown, Importing
    <3> QED
      BY <1>1, <1>2, <1>5, <2>1, <2>2, <3>1 DEF ImportInsert, DbTyped, ProcTyped, Statuses
  <2>3. CASE Exit(p, "failed") /\ UNCHANGED rows
    BY <1>1, <1>5, <2>3, ExitType DEF ImportInsert, DbTyped, ProcTyped
  <2> QED
    BY <1>5, <2>2, <2>3 DEF ImportInsert
<1>6. CASE ImportMark(p)
  <2>1. Importing(p)
    BY <1>6 DEF ImportMark, Importing
  <2>2. CASE /\ migrations' = migrations \cup {importing[p].key}
             /\ GoTo(p, "next", NoKey)
             /\ UNCHANGED <<phase, static, todo, snapshot>>
    <3>1. ImportTyped'
      BY <2>2 DEF ImportTyped, ImportKnown, Importing
    <3> QED
      BY <1>1, <1>2, <1>6, <2>1, <2>2, <3>1 DEF ImportMark, DbTyped, ProcTyped
  <2>3. CASE Exit(p, "failed") /\ UNCHANGED migrations
    BY <1>1, <1>6, <2>3, ExitType DEF ImportMark, DbTyped, ProcTyped
  <2> QED
    BY <1>6, <2>2, <2>3 DEF ImportMark
<1>7. CASE ImportDone(p)
  <2>1. CASE /\ phase' = [phase EXCEPT ![p] = "up"]
             /\ issued' = [issued EXCEPT ![p] = @ \cup static[p]]
             /\ static' = [static EXCEPT ![p] = {}]
             /\ snapshot' = [snapshot EXCEPT ![p] = View({})]
             /\ UNCHANGED <<todo, importing>>
    <3>1. static[p] \subseteq Keys
      BY ConfigKeys DEF ProcTyped
    <3>2. DbTyped'
      BY <1>7, <2>1, <3>1 DEF ImportDone, DbTyped
    <3>3. snapshot' \in [Procs -> [Keys -> Statuses]]
      BY <2>1, ViewType DEF ProcTyped
    <3>4. ImportTyped'
      BY <2>1 DEF ImportTyped, ImportKnown, Importing
    <3> QED
      BY <1>1, <2>1, <3>2, <3>3, <3>4 DEF ProcTyped
  <2>2. CASE Exit(p, "failed") /\ UNCHANGED issued
    BY <1>1, <1>7, <2>2, ExitType DEF ImportDone, DbTyped, ProcTyped
  <2> QED
    BY <1>7, <2>1, <2>2 DEF ImportDone
<1> QED
    BY <1>3, <1>4, <1>5, <1>6, <1>7 DEF Import

LEMMA CallType ==
    ASSUME DbTyped, ProcTyped, ImportTyped, OpTyped, NEW o \in Ops, Call(o)
    PROVE  DbTyped' /\ ProcTyped' /\ ImportTyped' /\ OpTyped'
<1>1. PICK kind \in {"create", "delete", "revoke"}, k \in Keys : Begin(o, kind, k)
    BY DEF Call, BeginCreate, BeginDelete, BeginRevoke, Keys
<1> QED
    BY <1>1, BeginEffect DEF Begin, DbTyped, ProcTyped, ImportTyped, ImportKnown, Importing

LEMMA WorkType ==
    ASSUME TypeOK, DbTyped, ProcTyped, ImportTyped, OpTyped, NEW o \in Ops, Work(o)
    PROVE  DbTyped' /\ ProcTyped' /\ ImportTyped' /\ OpTyped'
<1>1. OpTyped'
    BY LockEffect, WriteEffect, QueryEffect, StoreEffect DEF Work
<1>2. ImportTyped'
    BY DEF Work, Lock, Write, Query, Store, ImportTyped, ImportKnown, Importing
<1>3. op[o].loaded \in [Keys -> Statuses] /\ ProcOf[o] \in Procs
    BY OpsAssumption DEF OpTyped, OpRecord
<1>4. ProcTyped'
    BY <1>3 DEF Work, Lock, Write, Query, Store, Return, ProcTyped
<1>5. DbTyped'
  <2>1. CASE Write(o)
    BY <2>1, WriteEffect DEF Write, Wrote, At, OpTyped, DbTyped, Statuses
  <2>2. CASE Store(o)
    BY <1>3, <2>2 DEF Store, At, OpTyped, DbTyped
  <2>3. CASE Lock(o) \/ Query(o)
    BY <2>3 DEF Lock, Query, DbTyped
  <2> QED
    BY <2>1, <2>2, <2>3 DEF Work
<1> QED
    BY <1>1, <1>2, <1>4, <1>5

LEMMA NextType == TypeInv /\ [Next]_vars => TypeInv'
<1> SUFFICES ASSUME TypeInv, [Next]_vars
             PROVE  DbTyped' /\ ProcTyped' /\ ImportTyped' /\ OpTyped'
  <2>1. DbTyped' /\ ProcTyped' /\ ImportTyped' /\ OpTyped' => TypeOK' /\ ImportKnown'
    BY DEF TypeOK, ImportKnown, DbTyped, ProcTyped, ImportTyped, OpTyped, OpRecord
  <2> QED
    BY <2>1 DEF TypeInv
<1>1. TypeOK /\ DbTyped /\ ProcTyped /\ ImportTyped /\ OpTyped
    BY TypeParts DEF TypeInv
<1>2. ASSUME NEW p \in Procs, Crash(p)
      PROVE  DbTyped' /\ ProcTyped' /\ ImportTyped' /\ OpTyped'
  <2>1. writeMu' \in [Procs -> Ops \cup {NoOne}] /\ UNCHANGED <<starts, db, history>>
    BY <1>1, <1>2 DEF Crash, ProcTyped
  <2>2. ProcTyped' /\ ImportTyped'
    BY <1>1, <1>2, <2>1, ExitType DEF Crash
  <2> QED
    BY <1>1, <1>2, <2>1, <2>2, CrashEffect DEF DbTyped
<1>3. CASE UNCHANGED vars
    BY <1>1, <1>3 DEF vars, DbTyped, ProcTyped, ImportTyped, ImportKnown, Importing, OpTyped
<1> QED
    BY <1>1, <1>2, <1>3, StartType, ImportType, CallType, WorkType DEF Next

LEMMA TypeInvariant == Spec => []TypeInv
<1>1. Init => TypeInv
    BY InitIInv DEF IInv, TypeInv
<1> QED
    BY <1>1, NextType, PTL DEF Spec

(* Type correctness of the key manager.                                    *)
THEOREM TypeCorrect == Spec => []TypeOK
<1>1. TypeInv => TypeOK
    BY DEF TypeInv
<1> QED
    BY <1>1, TypeInvariant, PTL
-----------------------------------------------------------------------------
(* The rest of the invariant, action by action.                            *)

Rest ==
    /\ MutexHeld
    /\ ImportSoFar /\ ImportOver
    /\ RowsKept
    /\ CreatesFresh /\ CallsWritten
    /\ AnswersKept
    /\ SnapshotSince /\ RefusesRetired /\ HonoursIssued

LEMMA IInvParts == IInv <=> TypeInv /\ Rest
BY DEF IInv, TypeInv, Rest

(* What is read from a table that keeps its promises refuses what was      *)
(* answered to be gone and honours what was issued.                        *)
LEMMA FreshView ==
    ASSUME TypeOK', RowsKept', AnswersKept', NEW p \in Procs
    PROVE  /\ \A k \in refuse'[p] : View({})'[k] \notin {"active", "static"}
           /\ \A k \in issued'[p] \ retired' : View({})'[k] = "active"
BY DEF TypeOK, RowsKept, AnswersKept, View, Exists, Statuses

LEMMA OwnerAlone == Alone => \A p \in Procs, o \in Ops : ProcOf[o] = p
BY OpsAssumption DEF Alone

(* While the one process imports or is down, no call is under way. *)
LEMMA IdleBefore ==
    ASSUME Alone, MutexHeld, NEW p \in Procs, phase[p] # "up"
    PROVE  \A o \in Ops : op[o].pc = "idle"
BY OwnerAlone DEF MutexHeld

LEMMA StartKeeps ==
    ASSUME Alone, Settled, IInv, NEW p \in Procs, Start(p)
    PROVE  Rest'
<1> USE DEF IInv
<1>1. /\ UNCHANGED <<faulty, rows, migrations, writeMu, op, retired>>
      /\ phase[p] # "up" /\ refuse' = refuse /\ issued' = issued
  <2>1. \A f \in [Procs -> SUBSET Keys] :
            [f EXCEPT ![p] = UNION {f[q] : q \in Procs}] = f
    BY DEF Alone
  <2> QED
    BY <2>1 DEF Start, TypeOK
<1>2. \A q \in Procs : q = p
    BY DEF Alone
<1>3. \A o \in Ops : op[o].pc = "idle"
    BY <1>1, IdleBefore
<1>4. PICK st \in Configs :
          \/ /\ ~Conflict(st)
             /\ phase' = [phase EXCEPT ![p] = "import"]
             /\ static' = [static EXCEPT ![p] = st]
             /\ todo' = [todo EXCEPT ![p] = st]
             /\ importing' = [importing EXCEPT ![p] = NotImporting]
          \/ /\ phase' = [phase EXCEPT ![p] = "failed"]
             /\ UNCHANGED <<static, todo, importing>>
    BY DEF Start
<1>5. MutexHeld'
    BY <1>1, <1>3 DEF MutexHeld
<1>6. phase'[p] \in {"import", "failed"}
    BY <1>4 DEF TypeOK
<1>7. ImportSoFar'
    BY <1>1, <1>2, <1>4 DEF TypeOK, ImportSoFar, Importing, NotImporting, Conflict, Exists
<1>8. ImportOver' /\ SnapshotSince' /\ RefusesRetired' /\ HonoursIssued'
    BY <1>2, <1>6 DEF ImportOver, SnapshotSince, RefusesRetired, HonoursIssued
<1>9. RowsKept' /\ CreatesFresh' /\ CallsWritten' /\ AnswersKept'
    BY <1>1, <1>3 DEF RowsKept, CreatesFresh, CallsWritten, AnswersKept, Exists, View, Pending, Written
<1> QED
    BY <1>5, <1>7, <1>8, <1>9 DEF Rest

(* A crash, or a failed start. *)
LEMMA ExitKeeps ==
    ASSUME Alone, IInv, NEW p \in Procs, NEW how \in {"down", "failed"}, Exit(p, how), OpTyped',
           UNCHANGED <<faulty, rows, migrations, refuse, issued, retired>>,
           \A o \in Ops : op'[o].pc = "idle",
           \A o \in Ops : writeMu'[p] # o
    PROVE  Rest'
<1> USE DEF IInv
<1>1. \A q \in Procs : q = p /\ phase'[q] = how
    BY DEF Alone, Exit, TypeOK
<1>2. MutexHeld'
    BY <1>1 DEF MutexHeld
<1>3. /\ ImportSoFar' /\ ImportOver'
      /\ SnapshotSince' /\ RefusesRetired' /\ HonoursIssued'
    BY <1>1 DEF ImportSoFar, ImportOver, SnapshotSince, RefusesRetired, HonoursIssued
<1>4. RowsKept' /\ CreatesFresh' /\ CallsWritten' /\ AnswersKept'
    BY DEF RowsKept, CreatesFresh, CallsWritten, AnswersKept, Exists, Pending, Written
<1> QED
    BY <1>2, <1>3, <1>4 DEF Rest

LEMMA CrashKeeps ==
    ASSUME Alone, IInv, NEW p \in Procs, Crash(p)
    PROVE  Rest'
<1>1. OpTyped
    BY TypeParts DEF IInv
<1>2. OpTyped' /\ \A o \in Ops : op'[o].pc = "idle"
    BY <1>1, CrashEffect, OwnerAlone
<1>3. writeMu'[p] = NoOne
    BY DEF Crash, IInv, TypeOK
<1> QED
    BY <1>2, <1>3, ExitKeeps, OpsAssumption DEF Crash

(* The steps of the import.  It holds no mutex and no call runs beside it. *)
ImportFrame(p) ==
    /\ UNCHANGED <<faulty, starts, writeMu, op, refuse, retired>>
    /\ \A q \in Procs : q = p
    /\ \A o \in Ops : op[o].pc = "idle" /\ writeMu[p] # o
    /\ phase[p] = "import"

LEMMA ImportFramed ==
    ASSUME Alone, IInv, NEW p \in Procs, Import(p)
    PROVE  ImportFrame(p)
<1>1. phase[p] = "import" /\ UNCHANGED <<faulty, starts, writeMu, op, refuse, retired>>
    BY DEF Import, ImportNext, ImportExists, ImportInsert, ImportMark, ImportDone, ImportAt
<1>2. \A o \in Ops : op[o].pc = "idle"
    BY <1>1, IdleBefore DEF IInv
<1> QED
    BY <1>1, <1>2 DEF ImportFrame, IInv, MutexHeld, Alone

(* A step that goes on importing leaves most of the invariant alone. *)
LEMMA ImportGoesOn ==
    ASSUME IInv, NEW p \in Procs, ImportFrame(p), UNCHANGED <<phase, issued>>
    PROVE  /\ MutexHeld' /\ ImportOver' /\ CreatesFresh' /\ CallsWritten'
           /\ SnapshotSince' /\ RefusesRetired' /\ HonoursIssued'
<1> USE DEF ImportFrame
<1>1. MutexHeld'
    BY DEF MutexHeld, IInv
<1>2. ImportOver' /\ SnapshotSince' /\ RefusesRetired' /\ HonoursIssued'
    BY DEF ImportOver, SnapshotSince, RefusesRetired, HonoursIssued
<1>3. CreatesFresh' /\ CallsWritten'
    BY DEF CreatesFresh, CallsWritten, Pending, Written
<1> QED
    BY <1>1, <1>2, <1>3

LEMMA ImportVisitKeeps ==
    ASSUME Alone, IInv, NEW p \in Procs, ImportFrame(p), ImportNext(p) \/ ImportExists(p)
    PROVE  Rest' /\ (phase'[p] = "failed" => faulty)
<1> USE DEF ImportFrame, IInv, ImportAt, GoTo
<1>1. CASE faulty /\ Exit(p, "failed")
  <2>1. UNCHANGED <<rows, migrations, issued>>
    BY DEF ImportNext, ImportExists
  <2>2. Rest'
    BY <1>1, <2>1, ExitKeeps, TypeParts DEF OpTyped
  <2> QED
    BY <1>1, <2>2
<1>2. CASE ~(faulty /\ Exit(p, "failed"))
  <2>1. UNCHANGED <<rows, migrations, phase, issued, static>>
    BY <1>2 DEF ImportNext, ImportExists
  <2>2. RowsKept' /\ AnswersKept'
    BY <2>1 DEF RowsKept, AnswersKept, Exists
  <2>3. ~Conflict(static[p])' /\ static'[p] \in Configs
    BY <2>1 DEF ImportSoFar, Conflict, Exists
  <2>4. CASE ImportNext(p)
    <3>1. PICK k \in todo[p] :
              /\ todo' = [todo EXCEPT ![p] = todo[p] \ {k}]
              /\ IF k \in migrations THEN importing' = importing
                 ELSE importing' = [importing EXCEPT ![p] = [pc |-> "exists", key |-> k]]
      BY <1>2, <2>4 DEF ImportNext
    <3>2. importing[p].pc = "next"
      BY <2>4 DEF ImportNext
    <3>3. ImportSoFar'
      BY <2>1, <2>3, <3>1, <3>2 DEF TypeOK, ImportSoFar, Importing
    <3> QED
      BY <2>1, <2>2, <3>3, ImportGoesOn DEF Rest
  <2>5. CASE ImportExists(p)
    <3>1. /\ importing[p].pc = "exists" /\ todo' = todo
          /\ importing' = [importing EXCEPT ![p] =
                 [pc |-> IF Exists(importing[p].key) THEN "mark" ELSE "insert",
                  key |-> importing[p].key]]
      BY <1>2, <2>5 DEF ImportExists
    <3>2. ImportSoFar'
      BY <2>1, <2>3, <3>1 DEF TypeOK, ImportSoFar, Importing, Exists
    <3> QED
      BY <2>1, <2>2, <3>2, ImportGoesOn DEF Rest
  <2> QED
    BY <2>1, <2>4, <2>5
<1> QED
    BY <1>1, <1>2

(* The row a static key is given disturbs nobody: its id is free. *)
LEMMA ImportInsertKeeps ==
    ASSUME Alone, IInv, NEW p \in Procs, ImportFrame(p), ImportInsert(p)
    PROVE  Rest' /\ (phase'[p] = "failed" => faulty)
<1> USE DEF ImportFrame, IInv, ImportAt, GoTo
<1> DEFINE k == importing[p].key
<1>1. /\ importing[p].pc = "insert" /\ k \in static[p] /\ static[p] \in Configs
      /\ k \in Keys /\ k \in StaticKeys /\ k \notin migrations /\ ~Exists(k)
      /\ ~Conflict(static[p])
    BY ConfigKeys DEF ImportInsert, ImportSoFar, Importing
<1>2. ~\E j \in Keys : Exists(j) /\ IdOf[j] = IdOf[k]
    BY <1>1 DEF Conflict
<1>3. k \notin retired
    BY <1>1 DEF RowsKept
<1>4. CASE /\ rows' = [rows EXCEPT ![k] = "active"]
           /\ importing' = [importing EXCEPT ![p] = [pc |-> "mark", key |-> k]]
           /\ UNCHANGED <<phase, static, todo, snapshot>>
  <2>1. UNCHANGED <<migrations, issued>>
    BY DEF ImportInsert
  <2>2. \A j \in Keys : rows'[j] = IF j = k THEN "active" ELSE rows[j]
    BY <1>1, <1>4 DEF TypeOK
  <2>3. RowsKept'
    <3>1. migrations \subseteq Keys /\ retired \subseteq Keys
      BY DEF TypeOK, Keys
    <3>2. retired' = retired
      OBVIOUS
    <3> QED
      BY <1>3, <2>1, <2>2, <3>1, <3>2 DEF RowsKept, Exists
  <2>4. AnswersKept'
    BY <2>1, <2>2 DEF AnswersKept, TypeOK
  <2>5. \A s \in static[p] : IdOf[s] = IdOf[k] => s = k
    BY <1>1, ConfigsAssumption
  <2>6. ~Conflict(static[p])'
    BY <1>1, <1>4, <2>2, <2>5 DEF Conflict, Exists
  <2>7. ImportSoFar'
    BY <1>1, <1>4, <2>1, <2>2, <2>6 DEF TypeOK, ImportSoFar, Importing, Exists
  <2> QED
    BY <1>4, <2>1, <2>3, <2>4, <2>7, ImportGoesOn DEF Rest
<1>5. CASE Exit(p, "failed") /\ UNCHANGED rows /\ faulty
  <2>1. Rest'
    BY <1>5, ExitKeeps, TypeParts DEF ImportInsert, OpTyped
  <2> QED
    BY <1>5, <2>1
<1> QED
    BY <1>2, <1>4, <1>5 DEF ImportInsert

LEMMA ImportMarkKeeps ==
    ASSUME Alone, IInv, NEW p \in Procs, ImportFrame(p), ImportMark(p)
    PROVE  Rest' /\ (phase'[p] = "failed" => faulty)
<1> USE DEF ImportFrame, IInv, ImportAt, GoTo
<1> DEFINE k == importing[p].key
<1>1. /\ importing[p].pc = "mark" /\ k \in static[p] /\ static[p] \in Configs
      /\ k \notin migrations /\ Exists(k) /\ ~Conflict(static[p])
    BY DEF ImportMark, ImportSoFar, Importing
<1>2. CASE /\ migrations' = migrations \cup {k}
           /\ importing' = [importing EXCEPT ![p] = [pc |-> "next", key |-> NoKey]]
           /\ UNCHANGED <<phase, static, todo, snapshot>>
  <2>1. UNCHANGED <<rows, issued>>
    BY DEF ImportMark
  <2>2. RowsKept' /\ AnswersKept'
    BY <1>1, <1>2, <2>1 DEF RowsKept, AnswersKept, Exists
  <2>3. ~Conflict(static[p])'
    BY <1>1, <1>2, <2>1 DEF Conflict, Exists
  <2>4. ImportSoFar'
    BY <1>1, <1>2, <2>1, <2>3 DEF TypeOK, ImportSoFar, Importing
  <2> QED
    BY <1>2, <2>1, <2>2, <2>4, ImportGoesOn DEF Rest
<1>3. CASE Exit(p, "failed") /\ UNCHANGED migrations /\ faulty
  <2>1. Rest'
    BY <1>3, ExitKeeps, TypeParts DEF ImportMark, OpTyped
  <2> QED
    BY <1>3, <2>1
<1> QED
    BY <1>1, <1>2, <1>3 DEF ImportMark

(* When the loop is over, every static key has a row or was retired. *)
LEMMA ImportDoneKeeps ==
    ASSUME Alone, Settled, IInv, NEW p \in Procs, ImportFrame(p), ImportDone(p)
    PROVE  Rest' /\ (phase'[p] = "failed" => faulty)
<1> USE DEF ImportFrame, IInv, ImportAt
<1>1. /\ importing[p].pc = "next" /\ todo[p] = {} /\ static[p] \in Configs
      /\ static[p] \subseteq migrations
    BY DEF ImportDone, ImportSoFar, Importing
<1>2. StaticKeys = static[p]
    BY <1>1 DEF Settled, StaticKeys
<1>3. CASE /\ phase' = [phase EXCEPT ![p] = "up"]
           /\ issued' = [issued EXCEPT ![p] = issued[p] \cup static[p]]
           /\ static' = [static EXCEPT ![p] = {}]
           /\ snapshot' = [snapshot EXCEPT ![p] = View({})]
  <2>1. UNCHANGED <<rows, migrations>>
    BY DEF ImportDone
  <2>2. phase'[p] = "up" /\ static'[p] = {} /\ snapshot'[p] = View({})
    BY <1>3 DEF TypeOK
  <2>3. MutexHeld' /\ ImportOver' /\ ImportSoFar' /\ RowsKept' /\ CreatesFresh' /\ CallsWritten'
    BY <1>1, <1>2, <2>1, <2>2 DEF MutexHeld, ImportOver, ImportSoFar, RowsKept, CreatesFresh,
       CallsWritten, Pending, Written, Exists
  <2>4. \A k \in static[p] : k \in retired \/ rows[k] = "active"
    BY <1>1, ConfigKeys DEF RowsKept, Exists, TypeOK, Statuses
  <2>5. AnswersKept'
    BY <1>3, <2>1, <2>4 DEF AnswersKept, TypeOK
  <2>6. View({})' = View({})
    BY <2>1 DEF View, Exists
  <2>7. SnapshotSince'
    BY <2>2, <2>6 DEF SnapshotSince
  <2>8. TypeOK'
    BY NextType DEF TypeInv, Next, Import
  <2>9. RefusesRetired' /\ HonoursIssued'
    BY <2>2, <2>3, <2>5, <2>6, <2>8, FreshView DEF RefusesRetired, HonoursIssued, Accepts
  <2> QED
    BY <2>2, <2>3, <2>5, <2>7, <2>9 DEF Rest
<1>4. CASE Exit(p, "failed") /\ UNCHANGED issued /\ faulty
  <2>1. Rest'
    BY <1>4, ExitKeeps, TypeParts DEF ImportDone, OpTyped
  <2> QED
    BY <1>4, <2>1
<1> QED
    BY <1>3, <1>4 DEF ImportDone

(* The steps of an admin call leave what belongs to the import alone. *)
CallFrame(o) ==
    /\ UNCHANGED <<faulty, migrations, phase, starts, static, todo, importing>>
    /\ ProcOf[o] \in Procs /\ \A q \in Procs : q = ProcOf[o]
    /\ \A x \in Ops : ProcOf[x] = ProcOf[o]
    /\ phase[ProcOf[o]] = "up" /\ static[ProcOf[o]] = {} /\ StaticKeys \subseteq migrations

LEMMA CallFramed ==
    ASSUME Alone, IInv, NEW o \in Ops, Call(o) \/ Work(o)
    PROVE  CallFrame(o) /\ OpTyped /\ OpTyped'
<1>1. UNCHANGED <<faulty, migrations, phase, starts, static, todo, importing>>
    BY DEF Call, BeginCreate, BeginDelete, BeginRevoke, Begin, Work, Lock, Write, Query, Store
<1>2. phase[ProcOf[o]] = "up"
    BY DEF Call, BeginCreate, BeginDelete, BeginRevoke, Begin, Work, Lock, Write, Query, Store, At
<1>3. OpTyped /\ OpTyped'
    BY TypeParts, NextType DEF IInv, TypeInv, Next, OpTyped, TypeOK, OpRecord
<1> QED
    BY <1>1, <1>2, <1>3, OwnerAlone, OpsAssumption DEF CallFrame, Alone, IInv, ImportOver

LEMMA CallLeavesImport ==
    ASSUME IInv, NEW o \in Ops, CallFrame(o)
    PROVE  ImportSoFar' /\ ImportOver'
BY DEF CallFrame, IInv, ImportSoFar, ImportOver

(* Only one call is between Lock and its return. *)
LEMMA OneHolder ==
    ASSUME MutexHeld, NEW o \in Ops, CallFrame(o), op[o].pc \in {"write", "query", "store"}
    PROVE  /\ writeMu[ProcOf[o]] = o
           /\ \A x \in Ops \ {o} : op[x].pc \notin {"write", "query", "store"}
BY DEF MutexHeld, CallFrame

LEMMA BeginKeeps ==
    ASSUME Alone, IInv, NEW o \in Ops, Call(o)
    PROVE  Rest'
<1> USE DEF IInv
<1>1. CallFrame(o) /\ OpTyped
    BY CallFramed
<1>2. PICK kind \in {"create", "delete", "revoke"}, k \in Keys :
        /\ Begin(o, kind, k)
        /\ kind = "create" => /\ k \in DynKeys /\ ~Exists(k) /\ k \notin retired
                              /\ \A x \in Ops : op[x].key # k
    BY DEF Call, BeginCreate, BeginDelete, BeginRevoke, Keys
<1>3. /\ UNCHANGED <<rows, snapshot, writeMu, refuse, issued, retired>>
      /\ op[o].pc = "idle" /\ Others(o)
      /\ op'[o].pc = "lock" /\ op'[o].kind = kind /\ op'[o].key = k
    BY <1>1, <1>2, BeginEffect DEF Begin, At
<1>4. MutexHeld'
    BY <1>1, <1>3 DEF MutexHeld, CallFrame, Others
<1>5. \A x \in Ops : Pending(x)' => \/ x = o /\ kind = "create"
                                    \/ x # o /\ Pending(x) /\ op'[x].key = op[x].key
    BY <1>3 DEF Pending, Others
<1>6. CreatesFresh'
    BY <1>2, <1>3, <1>5 DEF CreatesFresh, Exists
<1>7. \A x \in Ops : /\ Written(x)' <=> Written(x)
                     /\ Written(x)' => op'[x] = op[x]
    BY <1>3 DEF Written, Others
<1>8. CallsWritten' /\ RowsKept' /\ AnswersKept'
    BY <1>1, <1>3, <1>7 DEF CallsWritten, RowsKept, AnswersKept, View, Exists, CallFrame
<1>9. SnapshotSince' /\ RefusesRetired' /\ HonoursIssued'
    BY <1>1, <1>3, <1>7 DEF SnapshotSince, RefusesRetired, HonoursIssued, Accepts,
       View, Exists, CallFrame
<1> QED
    BY <1>1, <1>4, <1>6, <1>8, <1>9, CallLeavesImport DEF Rest

LEMMA LockKeeps ==
    ASSUME Alone, IInv, NEW o \in Ops, Lock(o)
    PROVE  Rest'
<1> USE DEF IInv
<1>1. CallFrame(o) /\ OpTyped
    BY CallFramed DEF Work
<1>2. /\ UNCHANGED <<rows, snapshot, refuse, issued, retired>>
      /\ op[o].pc = "lock" /\ Others(o)
      /\ op'[o].pc = "write" /\ op'[o].kind = op[o].kind /\ op'[o].key = op[o].key
      /\ writeMu[ProcOf[o]] = NoOne /\ writeMu'[ProcOf[o]] = o
    BY <1>1, LockEffect DEF Lock, At, CallFrame, TypeOK
<1>3. \A x \in Ops : op[x].pc \notin {"write", "query", "store"}
    BY <1>1, <1>2, OpsAssumption DEF MutexHeld, CallFrame
<1>4. MutexHeld'
    BY <1>1, <1>2, <1>3 DEF MutexHeld, CallFrame, Others
<1>5. \A x \in Ops : Pending(x)' => Pending(x) /\ op'[x].key = op[x].key
    BY <1>2 DEF Pending, Others
<1>6. CreatesFresh'
    BY <1>2, <1>5 DEF CreatesFresh, Exists
<1>7. \A x \in Ops : ~Written(x) /\ ~Written(x)'
    BY <1>2, <1>3 DEF Written, Others
<1>8. CallsWritten' /\ RowsKept' /\ AnswersKept'
    BY <1>1, <1>2, <1>7 DEF CallsWritten, RowsKept, AnswersKept, Exists, CallFrame
<1>9. SnapshotSince' /\ RefusesRetired' /\ HonoursIssued'
    BY <1>1, <1>2, <1>7 DEF SnapshotSince, RefusesRetired, HonoursIssued, Accepts,
       View, Exists, CallFrame
<1> QED
    BY <1>1, <1>4, <1>6, <1>8, <1>9, CallLeavesImport DEF Rest

(* A call that returns without having written, or with what it wrote       *)
(* already accounted for.                                                  *)
LEMMA ReturnKeeps ==
    ASSUME IInv, NEW o \in Ops, CallFrame(o), OpTyped,
           op[o].pc \in {"write", "query", "store"}, Return(o),
           UNCHANGED <<rows, retired>>
    PROVE  /\ MutexHeld' /\ RowsKept' /\ CreatesFresh' /\ CallsWritten'
           /\ \A x \in Ops : ~Written(x)'
<1> USE DEF IInv
<1>1. /\ Others(o) /\ op'[o].pc = "idle" /\ writeMu'[ProcOf[o]] = NoOne
    BY ReturnEffect DEF Return, CallFrame, TypeOK
<1>2. \A x \in Ops \ {o} : op[x].pc \notin {"write", "query", "store"}
    BY OneHolder
<1>3. MutexHeld'
    BY <1>1, <1>2, OpsAssumption DEF MutexHeld, CallFrame, Others
<1>4. \A x \in Ops : Pending(x)' => Pending(x) /\ op'[x].key = op[x].key
    BY <1>1 DEF Pending, Others
<1>5. \A x \in Ops : ~Written(x)'
    BY <1>1, <1>2 DEF Written, Others
<1>6. CreatesFresh' /\ CallsWritten' /\ RowsKept'
    BY <1>4, <1>5 DEF CreatesFresh, CallsWritten, RowsKept, Exists, CallFrame
<1> QED
    BY <1>3, <1>5, <1>6

(* The write of a call: a create gives a row to a key nobody knows, a      *)
(* delete or revoke retires an existing one.                               *)
LEMMA WriteKeeps ==
    ASSUME Alone, IInv, NEW o \in Ops, Write(o)
    PROVE  Rest'
<1> USE DEF IInv
<1>1. CallFrame(o) /\ OpTyped /\ op[o].pc = "write" /\ op[o].key \in Keys
    BY CallFramed DEF Work, Write, At, OpTyped
<1>2. UNCHANGED <<snapshot, refuse, issued>>
    BY DEF Write
<1>3. \A x \in Ops \ {o} : op[x].pc \notin {"write", "query", "store"}
    BY <1>1, OneHolder
<1>4. ASSUME NEW k \in Keys, NEW status \in {"active", "none", "revoked"}, Wrote(o, k, status), Others(o)
      PROVE  /\ MutexHeld' /\ SnapshotSince'
             /\ \A j \in Keys : rows'[j] = IF j = k THEN status ELSE rows[j]
             /\ \A x \in Ops : /\ Written(x)' => x = o /\ op'[x].pc # "store"
                               /\ Pending(x)' => x # o /\ Pending(x) /\ op'[x].key = op[x].key
  <2>1. MutexHeld'
    BY <1>1, <1>3, <1>4 DEF MutexHeld, CallFrame, Others, Wrote
  <2>2. Written(o)'
    BY <1>4 DEF Wrote, Written
  <2>3. SnapshotSince'
    BY <1>1, <2>2 DEF SnapshotSince, CallFrame
  <2>4. \A j \in Keys : rows'[j] = IF j = k THEN status ELSE rows[j]
    BY <1>4 DEF Wrote, TypeOK
  <2>5. \A x \in Ops : /\ Written(x)' => x = o /\ op'[x].pc # "store"
                       /\ Pending(x)' => x # o /\ Pending(x) /\ op'[x].key = op[x].key
    BY <1>3, <1>4 DEF Wrote, Written, Pending, Others
  <2> QED
    BY <2>1, <2>3, <2>4, <2>5
<1>5. migrations \subseteq Keys /\ retired \subseteq Keys
      /\ \A p \in Procs : issued[p] \subseteq Keys
    BY DEF TypeOK, Keys
<1>6. CASE /\ op[o].kind = "create" /\ retired' = retired
           /\ Wrote(o, op[o].key, "active") /\ Others(o)
  <2> DEFINE k == op[o].key
  <2>1. Pending(o) /\ k \in DynKeys /\ k \notin retired /\ ~Exists(k)
    BY <1>1, <1>6 DEF Pending, CreatesFresh
  <2>2. /\ MutexHeld' /\ SnapshotSince'
        /\ \A j \in Keys : rows'[j] = IF j = k THEN "active" ELSE rows[j]
        /\ \A x \in Ops : /\ Written(x)' => x = o /\ op'[x].pc # "store"
                          /\ Pending(x)' => x # o /\ Pending(x) /\ op'[x].key = op[x].key
    BY <1>1, <1>4, <1>6
  <2>3. RowsKept'
    BY <1>1, <1>5, <1>6, <2>1, <2>2 DEF RowsKept, Exists, CallFrame
  <2>4. CreatesFresh'
    BY <1>6, <2>1, <2>2 DEF CreatesFresh, Exists, Keys
  <2>5. CallsWritten'
    BY <1>1, <1>6, <2>2 DEF CallsWritten, Wrote
  <2>6. AnswersKept'
    BY <1>2, <1>5, <1>6, <2>2 DEF AnswersKept
  <2>7. RefusesRetired' /\ HonoursIssued'
    BY <1>1, <1>2, <1>6 DEF RefusesRetired, HonoursIssued, Accepts, CallFrame
  <2> QED
    BY <1>1, <2>2, <2>3, <2>4, <2>5, <2>6, <2>7, CallLeavesImport DEF Rest
<1>7. ASSUME op[o].kind # "create", NEW k \in Keys, Exists(k), retired' = retired \cup {k},
             NEW status \in {"none", "revoked"}, Wrote(o, k, status), Others(o)
      PROVE  Rest'
  <2>2. /\ MutexHeld' /\ SnapshotSince'
        /\ \A j \in Keys : rows'[j] = IF j = k THEN status ELSE rows[j]
        /\ \A x \in Ops : /\ Written(x)' => x = o /\ op'[x].pc # "store"
                          /\ Pending(x)' => x # o /\ Pending(x) /\ op'[x].key = op[x].key
    BY <1>4, <1>7
  <2>3. RowsKept'
    BY <1>1, <1>5, <1>7, <2>2 DEF RowsKept, Exists, CallFrame
  <2>4. CreatesFresh'
    BY <1>7, <2>2 DEF CreatesFresh, Exists, Keys
  <2>5. CallsWritten'
    BY <1>7, <2>2 DEF CallsWritten, Wrote
  <2>6. AnswersKept'
    BY <1>2, <1>5, <1>7, <2>2 DEF AnswersKept
  <2>7. RefusesRetired' /\ HonoursIssued'
    BY <1>1, <1>2, <1>7 DEF RefusesRetired, HonoursIssued, Accepts, CallFrame
  <2> QED
    BY <1>1, <2>2, <2>3, <2>4, <2>5, <2>6, <2>7, CallLeavesImport DEF Rest
<1>8. CASE Return(o) /\ UNCHANGED <<rows, retired>>
  <2>1. MutexHeld' /\ RowsKept' /\ CreatesFresh' /\ CallsWritten'
    BY <1>1, <1>8, ReturnKeeps
  <2>2. \A x \in Ops : ~Written(x)
    BY <1>1, <1>3 DEF Written
  <2>3. AnswersKept' /\ SnapshotSince' /\ RefusesRetired' /\ HonoursIssued'
    BY <1>1, <1>2, <1>8, <2>2 DEF AnswersKept, SnapshotSince, RefusesRetired, HonoursIssued,
       Accepts, View, Exists, CallFrame
  <2> QED
    BY <1>1, <2>1, <2>3, CallLeavesImport DEF Rest
<1> QED
    BY <1>1, <1>6, <1>7, <1>8, WriteEffect

(* Reading the table back: with no static keys left, no id conflicts. *)
LEMMA QueryKeeps ==
    ASSUME Alone, IInv, NEW o \in Ops, Query(o)
    PROVE  Rest'
<1> USE DEF IInv
<1>1. CallFrame(o) /\ OpTyped /\ op[o].pc = "query"
    BY CallFramed DEF Work, Query, At
<1>2. UNCHANGED <<rows, snapshot, refuse, issued, retired>> /\ static[ProcOf[o]] = {}
    BY <1>1 DEF Query, CallFrame
<1>3. \A x \in Ops \ {o} : op[x].pc \notin {"write", "query", "store"}
    BY <1>1, OneHolder
<1>4. ~Conflict(static[ProcOf[o]])
    BY <1>2 DEF Conflict
<1>5. AnswersKept' /\ RefusesRetired' /\ HonoursIssued'
    BY <1>1, <1>2 DEF AnswersKept, RefusesRetired, HonoursIssued, Accepts, CallFrame
<1>6. CASE /\ op'[o].pc = "store" /\ op'[o].kind = op[o].kind /\ op'[o].key = op[o].key
           /\ op'[o].loaded = View({}) /\ writeMu' = writeMu /\ Others(o)
  <2>1. MutexHeld'
    BY <1>1, <1>6 DEF MutexHeld, CallFrame, Others
  <2>2. \A x \in Ops : /\ Written(x)' => x = o
                       /\ Pending(x)' => Pending(x) /\ op'[x].key = op[x].key
    BY <1>3, <1>6 DEF Written, Pending, Others
  <2>3. View({})' = View({})
    BY <1>2 DEF View, Exists
  <2>4. Written(o) /\ Written(o)'
    BY <1>1, <1>6 DEF Written
  <2>5. CallsWritten'
    BY <1>2, <1>6, <2>2, <2>3, <2>4 DEF CallsWritten
  <2>6. RowsKept' /\ CreatesFresh'
    BY <1>1, <1>2, <2>2 DEF RowsKept, CreatesFresh, Exists, CallFrame
  <2>7. SnapshotSince'
    BY <1>1, <2>4 DEF SnapshotSince, CallFrame
  <2> QED
    BY <1>1, <1>5, <2>1, <2>5, <2>6, <2>7, CallLeavesImport DEF Rest
<1>7. CASE Return(o) /\ faulty
  <2>1. MutexHeld' /\ RowsKept' /\ CreatesFresh' /\ CallsWritten'
    BY <1>1, <1>2, <1>7, ReturnKeeps
  <2>2. SnapshotSince'
    BY <1>1, <1>7 DEF SnapshotSince, CallFrame
  <2> QED
    BY <1>1, <1>5, <2>1, <2>2, CallLeavesImport DEF Rest
<1> QED
    BY <1>1, <1>2, <1>4, <1>6, <1>7, QueryEffect

LEMMA StoreKeeps ==
    ASSUME Alone, IInv, NEW o \in Ops, Store(o)
    PROVE  Rest'
<1> USE DEF IInv
<1> DEFINE p == ProcOf[o]
           k == op[o].key
<1>1. CallFrame(o) /\ OpTyped /\ op[o].pc = "store" /\ Return(o) /\ k \in Keys
    BY CallFramed DEF Work, Store, At, OpTyped
<1>2. UNCHANGED <<rows, retired>> /\ snapshot' = [snapshot EXCEPT ![p] = op[o].loaded]
    BY DEF Store
<1>3. MutexHeld' /\ RowsKept' /\ CreatesFresh' /\ CallsWritten'
    BY <1>1, <1>2, ReturnKeeps
<1>4. Written(o)
    BY <1>1 DEF Written
<1>5. View({})' = View({})
    BY <1>2 DEF View, Exists
<1>6. snapshot'[p] = View({})'
    BY <1>1, <1>2, <1>4, <1>5 DEF CallsWritten, CallFrame, TypeOK
<1>7. AnswersKept'
  <2>1. CASE op[o].kind = "create"
    <3>1. issued' = [issued EXCEPT ![p] = issued[p] \cup {k}] /\ refuse' = refuse
      BY <2>1 DEF Store
    <3>2. k \in retired \/ rows[k] = "active"
      BY <1>4, <2>1 DEF CallsWritten
    <3> QED
      BY <1>1, <1>2, <3>1, <3>2 DEF AnswersKept, TypeOK
  <2>2. CASE op[o].kind # "create"
    <3>1. refuse' = [refuse EXCEPT ![p] = refuse[p] \cup {k}] /\ issued' = issued
      BY <2>2 DEF Store
    <3>2. k \in retired
      BY <1>4, <2>2 DEF CallsWritten
    <3> QED
      BY <1>1, <1>2, <3>1, <3>2 DEF AnswersKept, TypeOK
  <2> QED
    BY <2>1, <2>2
<1>8. TypeOK'
    BY NextType DEF TypeInv, Next, Work
<1>9. SnapshotSince' /\ RefusesRetired' /\ HonoursIssued'
    BY <1>1, <1>3, <1>6, <1>7, <1>8, FreshView
    DEF SnapshotSince, RefusesRetired, HonoursIssued, Accepts, CallFrame
<1> QED
    BY <1>1, <1>3, <1>7, <1>9, CallLeavesImport DEF Rest

-----------------------------------------------------------------------------
LEMMA NextKeeps == Alone /\ Settled /\ IInv /\ [Next]_vars => IInv'
<1> SUFFICES ASSUME Alone, Settled, IInv, [Next]_vars
             PROVE  Rest'
    BY NextType, IInvParts DEF IInv, TypeInv, Rest
<1>1. ASSUME NEW p \in Procs, Import(p) PROVE Rest'
    BY <1>1, ImportFramed, ImportVisitKeeps, ImportInsertKeeps, ImportMarkKeeps, ImportDoneKeeps
    DEF Import
<1>2. ASSUME NEW o \in Ops, Work(o) PROVE Rest'
    BY <1>2, LockKeeps, WriteKeeps, QueryKeeps, StoreKeeps DEF Work
<1>3. CASE UNCHANGED vars
    BY <1>3 DEF vars, IInv, Rest, MutexHeld, ImportSoFar, ImportOver, RowsKept, CreatesFresh,
       CallsWritten, AnswersKept, SnapshotSince, RefusesRetired, HonoursIssued,
       Importing, Pending, Written, Conflict, View, Exists, Accepts
<1> QED
    BY <1>1, <1>2, <1>3, StartKeeps, CrashKeeps, BeginKeeps DEF Next

LEMMA Invariant == ASSUME Alone, Settled PROVE Spec => []IInv
<1>1. IInv /\ [Next]_vars => IInv'
    BY NextKeeps
<1> QED
    BY <1>1, InitIInv, PTL DEF Spec

(* What a process has answered to be revoked or deleted it never accepts   *)
(* again, through crashes at any statement, restarts and failing reloads.  *)
THEOREM RetiredStaysRefused == ASSUME Alone, Settled PROVE Spec => []RefusesRetired
<1>1. IInv => RefusesRetired
    BY DEF IInv
<1> QED
    BY <1>1, Invariant, PTL

(* No reload, restart or import loses a key that was handed out.           *)
THEOREM IssuedStaysHonoured == ASSUME Alone, Settled PROVE Spec => []HonoursIssued
<1>1. IInv => HonoursIssued
    BY DEF IInv
<1> QED
    BY <1>1, Invariant, PTL

(* The snapshot requests are judged by is the database when no write is    *)
(* under way.                                                              *)
THEOREM SnapshotIsCurrent == ASSUME Alone, Settled PROVE Spec => []SnapshotCurrent
<1>1. IInv => SnapshotCurrent
  <2> SUFFICES ASSUME IInv, ~faulty, NEW p \in Procs, phase[p] = "up", writeMu[p] = NoOne
               PROVE  snapshot[p] = View({})
    BY DEF SnapshotCurrent
  <2>1. \A o \in Ops : ProcOf[o] = p => ~Written(o)
    BY OpsAssumption DEF IInv, MutexHeld, Written
  <2> QED
    BY <2>1 DEF IInv, SnapshotSince
<1> QED
    BY <1>1, Invariant, PTL

(* In the database no retired key comes back, neither by a creation nor by *)
(* the import of the static keys at the next start.                        *)
THEOREM RetiredIsFinal == ASSUME Alone, Settled PROVE Spec => NoResurrection
<1> DEFINE Kept == \A k \in retired : /\ rows[k] = "none" => rows'[k] = "none"
                                      /\ rows[k] = "revoked" => rows'[k] # "active"
<1>1. ASSUME IInv, [Next]_vars PROVE [Kept]_vars
  <2>1. ASSUME NEW p \in Procs, ImportInsert(p) PROVE Kept
    <3> DEFINE k == importing[p].key
    <3>1. /\ k \in static[p] /\ static[p] \in Configs /\ k \notin migrations
      BY <1>1, <2>1 DEF IInv, ImportSoFar, Importing, ImportInsert, ImportAt
    <3>2. k \notin retired
      BY <1>1, <3>1, ConfigKeys DEF IInv, RowsKept
    <3>3. rows' = rows \/ rows' = [rows EXCEPT ![k] = "active"]
      BY <2>1 DEF ImportInsert
    <3> QED
      BY <1>1, <3>2, <3>3 DEF IInv, TypeOK
  <2>2. ASSUME NEW o \in Ops, Write(o) PROVE Kept
    <3>1. OpTyped /\ op[o].pc = "write" /\ op[o].key \in Keys /\ retired \subseteq Keys
      BY <1>1, <2>2, TypeParts DEF IInv, OpTyped, Write, At, TypeOK
    <3>2. CASE op[o].kind = "create" /\ Wrote(o, op[o].key, "active")
      <4>1. op[o].key \notin retired
        BY <1>1, <3>1, <3>2 DEF IInv, CreatesFresh, Pending
      <4> QED
        BY <1>1, <3>1, <3>2, <4>1 DEF IInv, TypeOK, Wrote
    <3>3. ASSUME NEW k \in Keys, Exists(k), Wrote(o, k, "none") \/ Wrote(o, k, "revoked")
          PROVE  Kept
      BY <1>1, <3>1, <3>3 DEF IInv, TypeOK, Wrote, Exists
    <3>4. CASE rows' = rows
      BY <3>4
    <3> QED
      BY <2>2, <3>1, <3>2, <3>3, <3>4, WriteEffect
  <2>3. ASSUME NEW p \in Procs, Import(p), ~ImportInsert(p) PROVE rows' = rows
    BY <2>3 DEF Import, ImportNext, ImportExists, ImportMark, ImportDone
  <2>4. ASSUME NEW o \in Ops, Call(o) \/ (Work(o) /\ ~Write(o)) PROVE rows' = rows
    BY <2>4 DEF Call, BeginCreate, BeginDelete, BeginRevoke, Begin, Work, Lock, Query, Store
  <2>5. ASSUME NEW p \in Procs, Start(p) \/ Crash(p) PROVE rows' = rows
    BY <2>5 DEF Start, Crash
  <2>6. CASE UNCHANGED vars
    BY <2>6
  <2>7. rows' = rows => Kept
    OBVIOUS
  <2> QED
    BY <1>1, <2>1, <2>2, <2>3, <2>4, <2>5, <2>6, <2>7 DEF Next
<1> QED
    BY <1>1, Invariant, PTL DEF Spec, NoResurrection

(* Wherever the last import was interrupted, this one is turned back by    *)
(* nothing it finds in the database.                                       *)
THEOREM ImportNotTurnedBack == ASSUME Alone, Settled PROVE Spec => ImportCompletes
<1> DEFINE Goes == \A p \in Procs : phase[p] = "import" /\ phase'[p] = "failed" => faulty
<1>1. ASSUME IInv, [Next]_vars PROVE [Goes]_vars
  <2>1. SUFFICES ASSUME NEW q \in Procs, phase[q] = "import", phase'[q] = "failed"
                 PROVE  faulty
    OBVIOUS
  <2>2. phase \in [Procs -> {"down", "import", "up", "failed"}] /\ \A p \in Procs : p = q
    BY <1>1 DEF IInv, TypeOK, Alone
  <2>3. ASSUME NEW p \in Procs, Import(p) PROVE faulty
    <3>1. ImportFrame(p) /\ p = q
      BY <1>1, <2>2, <2>3, ImportFramed
    <3> QED
      BY <1>1, <2>1, <2>3, <3>1, ImportVisitKeeps, ImportInsertKeeps, ImportMarkKeeps, ImportDoneKeeps
      DEF Import
  <2>4. ASSUME NEW p \in Procs, Start(p) PROVE FALSE
    BY <2>1, <2>2, <2>4 DEF Start
  <2>5. ASSUME NEW p \in Procs, Crash(p) PROVE FALSE
    BY <2>1, <2>2, <2>5 DEF Crash, Exit
  <2>6. ASSUME NEW o \in Ops, Call(o) \/ Work(o) PROVE phase' = phase
    BY <2>6 DEF Call, BeginCreate, BeginDelete, BeginRevoke, Begin, Work, Lock, Write, Query, Store
  <2>7. CASE UNCHANGED vars
    BY <2>7, <2>1 DEF vars
  <2> QED
    BY <1>1, <2>1, <2>3, <2>4, <2>5, <2>6, <2>7 DEF Next
<1> QED
    BY <1>1, Invariant, PTL DEF Spec, ImportCompletes
=============================================================================
