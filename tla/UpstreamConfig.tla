--------------------------- MODULE UpstreamConfig ---------------------------
(***************************************************************************)
(* The upstream settings, which can be changed while the gateway runs      *)
(* (PUT /admin/runtime): RuntimeStore of internal/config/runtime.go keeps  *)
(* them in a file, Config of internal/config/config.go has the copy that   *)
(* requests read.                                                          *)
(*                                                                         *)
(* Settings (URL, key and mode together) are values; those that Update     *)
(* rejects change nothing and are left out.  One action is one operation   *)
(* on a lock, the file system or the copy.  Only one process writes here:  *)
(* the command's set-upstream on the same file is left out.  The requests  *)
(* that read the copy are in UpstreamClient, composed with this module.    *)
(***************************************************************************)
EXTENDS Integers

CONSTANTS
    Updates,     \* calls of UpdateUpstream that may be under way at once
    Settings,
    Env,         \* the settings of the environment or .env file
    NoFile,      \* no such file
    Partial,     \* a file cut short
    NoOne,       \* the store's mutex is free
    MaxBegun,    \* bound: updates
    MaxStarts    \* bound: starts of the process

ASSUME ValuesAssumption ==
    Env \in Settings /\ NoFile # Partial /\ {NoFile, Partial} \cap Settings = {}
ASSUME NoOneAssumption == NoOne \notin Updates
ASSUME BoundsAssumption == MaxBegun \in Nat /\ MaxStarts \in Nat

VARIABLES
    file,    \* the contents of path
    tmp,     \* the contents of path.tmp
    up,      \* whether the process runs
    store,   \* RuntimeStore.settings
    mu,      \* the update that holds RuntimeStore.mu, or NoOne
    cfg,     \* Config.Upstream...
    pc,      \* where each update is
    arg,     \* the settings it was called with
    got,     \* what its Get returned
    begun, starts

vars == <<file, tmp, up, store, mu, cfg, pc, arg, got, begun, starts>>
disk == <<file, tmp>>

Init ==
    /\ file = NoFile /\ tmp = NoFile
    /\ up = FALSE
    /\ store = Env /\ cfg = Env
    /\ mu = NoOne
    /\ pc = [u \in Updates |-> "idle"]
    /\ arg = [u \in Updates |-> Env]
    /\ got = [u \in Updates |-> Env]
    /\ begun = 0 /\ starts = 0

(* NewRuntimeStore: the file, if there is one, overrides the environment.  *)
(* With a damaged one the process exits.                                   *)
Start ==
    /\ ~up /\ starts < MaxStarts
    /\ starts' = starts + 1
    /\ file # Partial
    /\ up' = TRUE
    /\ store' = IF file = NoFile THEN Env ELSE file
    /\ cfg' = store'
    /\ UNCHANGED <<disk, mu, pc, arg, got, begun>>

At(u, l) == up /\ pc[u] = l
Go(u, l) == pc' = [pc EXCEPT ![u] = l]

Begin(u) ==
    /\ At(u, "idle") /\ begun < MaxBegun
    /\ begun' = begun + 1
    /\ \E s \in Settings : arg' = [arg EXCEPT ![u] = s]
    /\ Go(u, "lock")
    /\ UNCHANGED <<disk, up, store, mu, cfg, got, starts>>

Lock(u) ==
    /\ At(u, "lock") /\ mu = NoOne
    /\ mu' = u
    /\ Go(u, "create")
    /\ UNCHANGED <<disk, up, store, cfg, arg, got, begun, starts>>

(* Mutant: the store has the new settings although they were not saved. *)
IOErrorStored(u) == mu' = NoOne /\ Go(u, "idle") /\ store' = arg[u]

(* Mutant: the mutex is not released. *)
IOErrorLocked(u) == Go(u, "idle") /\ UNCHANGED <<mu, store>>

(* An I/O error ends the update; the deferred unlock runs. *)
IOError(u) == mu' = NoOne /\ Go(u, "idle") /\ UNCHANGED <<store>>

(* Mutant: the file itself is truncated. *)
CreateInPlace(u) ==
    /\ At(u, "create")
    /\ file' = Partial /\ Go(u, "write")
    /\ UNCHANGED <<tmp, up, store, mu, cfg, arg, got, begun, starts>>

(* os.WriteFile truncates the file, then writes it. *)
Create(u) ==
    /\ At(u, "create")
    /\ \/ tmp' = Partial /\ Go(u, "write") /\ UNCHANGED <<mu, store>>
       \/ UNCHANGED tmp /\ IOError(u)
    /\ UNCHANGED <<file, up, cfg, arg, got, begun, starts>>

Write(u) ==
    /\ At(u, "write")
    /\ \/ tmp' = arg[u] /\ Go(u, "rename") /\ UNCHANGED <<mu, store>>
       \/ UNCHANGED tmp /\ IOError(u)
    /\ UNCHANGED <<file, up, cfg, arg, got, begun, starts>>

Rename(u) ==
    /\ At(u, "rename")
    /\ \/ /\ file' = tmp /\ tmp' = NoFile
          /\ Go(u, "set")
          /\ UNCHANGED <<mu, store>>
       \/ UNCHANGED disk /\ IOError(u)
    /\ UNCHANGED <<up, cfg, arg, got, begun, starts>>

(* s.settings = next, and the deferred unlock. *)
SetStore(u) ==
    /\ At(u, "set")
    /\ store' = arg[u]
    /\ mu' = NoOne
    /\ Go(u, "get")
    /\ UNCHANGED <<disk, up, cfg, arg, got, begun, starts>>

(* saved := store.Get(), for which the mutex must not be held by a writer. *)
Get(u) ==
    /\ At(u, "get") /\ mu = NoOne
    /\ got' = [got EXCEPT ![u] = store]
    /\ Go(u, "copy")
    /\ UNCHANGED <<disk, up, store, mu, cfg, arg, begun, starts>>

(* The three fields are assigned under Config's own lock; the call returns. *)
Copy(u) ==
    /\ At(u, "copy")
    /\ cfg' = got[u]
    /\ Go(u, "idle")
    /\ UNCHANGED <<disk, up, store, mu, arg, got, begun, starts>>

(* The process dies at any point; the disk stays. *)
Crash ==
    /\ up
    /\ up' = FALSE
    /\ mu' = NoOne
    /\ pc' = [u \in Updates |-> "idle"]
    /\ UNCHANGED <<disk, store, cfg, arg, got, begun, starts>>

Run(u) == Lock(u) \/ Create(u) \/ Write(u) \/ Rename(u) \/ SetStore(u) \/ Get(u) \/ Copy(u)

Next == Start \/ Crash \/ \E u \in Updates : Begin(u) \/ Run(u)

Spec == Init /\ [][Next]_vars

-----------------------------------------------------------------------------
TypeOK ==
    /\ file \in Settings \cup {NoFile, Partial} /\ tmp \in Settings \cup {NoFile, Partial}
    /\ up \in BOOLEAN
    /\ store \in Settings /\ cfg \in Settings
    /\ mu \in Updates \cup {NoOne}
    /\ pc \in [Updates -> {"idle", "lock", "create", "write", "rename", "set", "get", "copy"}]
    /\ arg \in [Updates -> Settings] /\ got \in [Updates -> Settings]
    /\ begun \in 0..MaxBegun /\ starts \in 0..MaxStarts

(* Whenever the process dies, the next start finds the settings of some    *)
(* update complete, or none at all, never a half-written file.             *)
RestartFindsSettings == file # Partial

(* What the store says while nobody writes is what a restart would load.   *)
StoreIsOnDisk == up /\ mu = NoOne => store = IF file = NoFile THEN Env ELSE file

(* The mutex is held exactly between Lock and SetStore. *)
Holding(u) == pc[u] \in {"create", "write", "rename", "set"}

MutexHeld == \A u \in Updates : Holding(u) <=> mu = u

(* What the holder has written so far. *)
WrittenSoFar ==
    \A u \in Updates : /\ pc[u] = "rename" => tmp = arg[u]
                       /\ pc[u] = "set" => file = arg[u]

StoppedIsIdle == ~up => mu = NoOne

(* The store lags behind the file only between Rename and SetStore. *)
StoreBehindFile ==
    up /\ (\A u \in Updates : pc[u] # "set") => store = IF file = NoFile THEN Env ELSE file

(* The inductive invariant: what the theorems of UpstreamClientProofs rest on. *)
IInv ==
    /\ TypeOK
    /\ MutexHeld
    /\ WrittenSoFar
    /\ StoppedIsIdle
    /\ RestartFindsSettings
    /\ StoreBehindFile

(* "Hot update" (VERIFICATION.txt): when the calls have returned, the      *)
(* settings that requests use are those that were stored last, the same    *)
(* that a restart would load.                                              *)
HotUpdate ==
    up /\ (\A u \in Updates : pc[u] = "idle") => cfg = store

(* Every update returns: the store's mutex is released on every path.      *)
UpdateReturns == \A u \in Updates : []<>(pc[u] = "idle")
=============================================================================
