----------------------------- MODULE SecretFile -----------------------------
(***************************************************************************)
(* The shared key's file (pkg/security/secret.go): LoadSecret by several   *)
(* processes that start together, each allowed to create the file.         *)
(*                                                                         *)
(* A creator writes a key of its own to a temporary file, syncs it and     *)
(* links it under the file's name, which fails if the name exists; winner  *)
(* and loser then read what is there.  A process may be killed between any *)
(* two system calls and started again; the machine may lose power, which   *)
(* takes back whatever was not synced: data written, and the name linked   *)
(* (the directory is not synced, but the system writes it in the end).     *)
(***************************************************************************)
EXTENDS Naturals

CONSTANTS
  Procs,     \* processes that load the secret
  Keys,      \* keys that may be generated
  MaxCrashes \* bound on kills and power failures

AnyKey == CHOOSE k \in Keys : TRUE   \* where there is no key

(* What a path leads to: nothing; a file an operator left that holds no    *)
(* key; a file of which only a part reached the disk; or a key.            *)
Kinds == {"missing", "malformed", "torn", "key"}
File(kind, k) == [kind |-> kind, key |-> k]
Files == [kind : Kinds, key : Keys \cup {AnyKey}]

VARIABLES
  file,      \* what the secret's path leads to
  private,   \* it is no link, and readable by its owner only
  named, flushed,   \* name and data of the file are on the disk
  step,      \* where each process is in LoadSecret
  own,       \* the key it generated
  synced,    \* its temporary file was synced
  data,      \* what it read; the key it runs with once step is "loaded"
  crashes

diskVars == <<file, private, named, flushed>>
procVars == <<step, own, synced, data>>
vars == <<diskVars, procVars, crashes>>

Steps == {"read", "create", "write", "sync", "link", "reread", "check", "loaded", "failed"}

TypeOK ==
  /\ file \in Files
  /\ private \in BOOLEAN /\ named \in BOOLEAN /\ flushed \in BOOLEAN
  /\ step \in [Procs -> Steps]
  /\ own \in [Procs -> Keys \cup {AnyKey}]
  /\ synced \in [Procs -> BOOLEAN]
  /\ data \in [Procs -> Files]
  /\ crashes \in Nat

Init ==
  /\ file \in {File(kind, AnyKey) : kind \in {"missing", "malformed", "key"}}
  /\ private \in BOOLEAN /\ named = TRUE /\ flushed = TRUE
  /\ step = [p \in Procs |-> "read"]
  /\ own = [p \in Procs |-> AnyKey]
  /\ synced = [p \in Procs |-> FALSE]
  /\ data = [p \in Procs |-> File("missing", AnyKey)]
  /\ crashes = 0

-----------------------------------------------------------------------------
Go(p, s) == step' = [step EXCEPT ![p] = s]

(* os.ReadFile, the second time after creating: only the first time does a *)
(* missing file lead to its creation, if the caller allows it.             *)
Read(p) ==
  /\ step[p] \in {"read", "reread"}
  /\ data' = [data EXCEPT ![p] = file]
  /\ IF file.kind # "missing" THEN Go(p, "check")
     ELSE \E s \in IF step[p] = "read" THEN {"create", "failed"} ELSE {"failed"} : Go(p, s)
  /\ UNCHANGED <<diskVars, own, synced, crashes>>

(* A fresh key, and an empty temporary file only the owner can read.       *)
Generate(p) ==
  /\ step[p] = "create"
  /\ \E k \in Keys : own' = [own EXCEPT ![p] = k]
  /\ synced' = [synced EXCEPT ![p] = FALSE]
  /\ Go(p, "write")
  /\ UNCHANGED <<diskVars, data, crashes>>

SyncAfterWriteNot == "link"   \* mutant: links without syncing
SyncAfterWrite == "sync"

Write(p) ==
  /\ step[p] = "write"
  /\ Go(p, SyncAfterWrite)
  /\ UNCHANGED <<diskVars, own, synced, data, crashes>>

Sync(p) ==
  /\ step[p] = "sync"
  /\ synced' = [synced EXCEPT ![p] = TRUE]
  /\ Go(p, "link")
  /\ UNCHANGED <<diskVars, own, data, crashes>>

(* Any of these system calls may fail, and the link for another reason     *)
(* than an existing name; the temporary file is removed.                   *)
Fail(p) ==
  /\ step[p] \in {"create", "write", "sync", "link"}
  /\ own' = [own EXCEPT ![p] = AnyKey]
  /\ Go(p, "failed")
  /\ UNCHANGED <<diskVars, synced, data, crashes>>

RenameOver == TRUE   \* mutant: a rename instead of a link
LinkTakesName == file.kind = "missing"

(* os.Link, and the removal of the temporary name.                         *)
Link(p) ==
  /\ step[p] = "link"
  /\ IF LinkTakesName
       THEN /\ file' = File("key", own[p]) /\ private' = TRUE
            /\ named' = FALSE /\ flushed' = synced[p]
       ELSE UNCHANGED diskVars
  /\ own' = [own EXCEPT ![p] = AnyKey]
  /\ Go(p, "reread")
  /\ UNCHANGED <<synced, data, crashes>>

(* checkSecretPermissions looks at the file as it is by now, the format at *)
(* what was read before.                                                   *)
PermissionsPass == file.kind # "missing" /\ private

Check(p) ==
  /\ step[p] = "check"
  /\ Go(p, IF PermissionsPass /\ data[p].kind = "key"
             THEN "loaded" ELSE "failed")
  /\ UNCHANGED <<diskVars, own, synced, data, crashes>>

-----------------------------------------------------------------------------
(* The process is killed, or ends, and is started again.                   *)
Restart(p) ==
  /\ crashes < MaxCrashes /\ crashes' = crashes + 1
  /\ step' = [step EXCEPT ![p] = "read"]
  /\ own' = [own EXCEPT ![p] = AnyKey]
  /\ UNCHANGED <<diskVars, synced, data>>

Flush ==
  /\ ~(named /\ flushed)
  /\ named' = TRUE /\ flushed' = TRUE
  /\ UNCHANGED <<file, private, procVars, crashes>>

PowerLoss ==
  /\ crashes < MaxCrashes /\ crashes' = crashes + 1
  /\ \E kind \in Kinds :
       /\ \/ kind = file.kind /\ flushed
          \/ kind = "torn" /\ ~flushed
          \/ kind = "missing" /\ ~named
       /\ file' = [file EXCEPT !.kind = kind]
  /\ named' = TRUE /\ flushed' = TRUE
  /\ step' = [p \in Procs |-> "read"]
  /\ own' = [p \in Procs |-> AnyKey]
  /\ UNCHANGED <<private, synced, data>>

Ended == (\A p \in Procs : step[p] \in {"loaded", "failed"}) /\ UNCHANGED vars

LoadSecret(p) ==
  Read(p) \/ Generate(p) \/ Write(p) \/ Sync(p) \/ Fail(p) \/ Link(p) \/ Check(p)

Next ==
  \/ \E p \in Procs : LoadSecret(p) \/ Restart(p)
  \/ Flush \/ PowerLoss \/ Ended

Spec == Init /\ [][Next]_vars

-----------------------------------------------------------------------------
(* However creation, kills and power failures interleave, whoever runs     *)
(* with a key runs with the one in the file (secret.go:39-44, 108-113), so *)
(* that all share it, and no part of a key is ever installed.              *)
OneKey ==
  /\ file.kind # "torn"
  /\ \A p \in Procs : step[p] = "loaded" => file.kind = "key" /\ data[p] = file
=============================================================================
