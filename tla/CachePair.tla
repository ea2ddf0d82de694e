----------------------------- MODULE CachePair -----------------------------
(***************************************************************************)
(* One entry of the provider cache on disk: a body file and its metadata   *)
(* sidecar (internal/server/cache_store.go).  A replacement moves the old  *)
(* pair aside as ".bak", renames the new one in, and drops the backups; a  *)
(* restart that finds backups decides which pair survives.  The model      *)
(* takes one file operation per step, so a crash falls between any two of  *)
(* them, and every rename, removal and directory sync may fail: some of    *)
(* those errors end the operation under way, the others are ignored.       *)
(*                                                                         *)
(* A file holds the number of the version it was written for, 0 when it is *)
(* absent.  The two temporary files are written and synced before the      *)
(* first step and are swept at startup, so they carry no state of their    *)
(* own: "install" stands for the rename of one of them.                    *)
(***************************************************************************)
EXTENDS Integers, Sequences

CONSTANTS MaxVersion,  \* versions told apart at one time
          MaxFaults,   \* bound on its crashes and failures together
          Faults       \* the kinds of fault that happen

Kinds == {"crash", "rename", "remove", "sync"}

ASSUME CachePairAssumption == /\ MaxVersion \in Nat
                              /\ MaxFaults \in Nat
                              /\ Faults \subseteq Kinds

VARIABLES disk,      \* version held by each of the four files
          phase,     \* what the store is doing
          todo,      \* file operations it still has to take
          index,     \* in-memory entry: the indexed version, 0 when absent
          writing,   \* version of the put under way
          accepted,  \* ghost: versions a reader may find, 0 for a miss; a
                     \* success or a restart settles which
          faults     \* ghost: how often each kind of fault has happened

vars == <<disk, phase, todo, index, writing, accepted, faults>>

Files == {"body", "json", "bodyBak", "jsonBak"}
Versions == 0 .. MaxVersion
Phases == {"down", "pass1", "pass2", "load", "idle", "put", "failing", "remove"}

Rename(from, to) == [op |-> "rename", from |-> from, to |-> to]
Install(to) == [op |-> "install", from |-> to, to |-> to]
Remove(file) == [op |-> "remove", from |-> file, to |-> file]
Sync == [op |-> "sync", from |-> "body", to |-> "body"]

\* A rename of a file that is not there fails of itself.
Missing(o) == o.op = "rename" /\ disk[o.from] = 0

\* What a file operation does.
Apply(o) ==
    CASE o.op = "rename" -> IF Missing(o) THEN disk
                            ELSE [disk EXCEPT ![o.to] = disk[o.from], ![o.from] = 0]
      [] o.op = "install" -> [disk EXCEPT ![o.to] = writing]
      [] o.op = "remove" -> [disk EXCEPT ![o.from] = 0]
      [] o.op = "sync" -> disk

-----------------------------------------------------------------------------
(* replaceCachePairAt *)

DropPair == <<Remove("body"), Remove("json")>>

Restore == <<Rename("bodyBak", "body"), Rename("jsonBak", "json")>>

DropBackups == <<Remove("bodyBak"), Remove("jsonBak")>>

\* Mutant: the backups go before the new sidecar is in place.
InstallDropEarly == <<Install("body")>> \o DropBackups \o <<Install("json")>>

InstallPair == <<Install("body"), Install("json")>>

SetAside == <<Rename("body", "bodyBak"), Rename("json", "jsonBak")>>

\* Mutant: the backups stay.
PutOpsKeepBackups(replacing) == (IF replacing THEN DropBackups \o SetAside ELSE <<>>)
                                \o InstallPair \o <<Sync>>

PutOps(replacing) == (IF replacing THEN DropBackups \o SetAside ELSE <<>>)
                     \o InstallPair \o DropBackups \o <<Sync>>

\* What is undone when operation o of a put fails.
Rollback(o, replacing) ==
    CASE o = Rename("body", "bodyBak") -> <<>>
      [] o = Rename("json", "jsonBak") -> <<Rename("bodyBak", "body")>>
      [] o.op = "install" -> DropPair \o (IF replacing THEN Restore ELSE <<>>)
      [] o.op = "sync" -> <<>>

\* Versions that nothing holds or expects: a response not seen before.
Fresh == (1 .. MaxVersion) \ (accepted \union {index} \union {disk[f] : f \in Files})

\* put: a new response for this key.  index is read under the writer lock.
BeginPut == /\ phase = "idle"
            /\ \E v \in Fresh : /\ writing' = v
                               /\ accepted' = accepted \union {v}
            /\ phase' = "put"
            /\ todo' = PutOps(index # 0)
            /\ UNCHANGED <<disk, index, faults>>

EndPut == /\ phase = "put" /\ todo = <<>>
          /\ index' = writing
          /\ accepted' = {writing}
          /\ phase' = "idle"
          /\ UNCHANGED <<disk, todo, writing, faults>>

\* The put returns an error; the index still describes the old pair.
EndFailedPut == /\ phase = "failing" /\ todo = <<>>
                /\ phase' = "idle"
                /\ UNCHANGED <<disk, todo, index, writing, accepted, faults>>

\* updateMetadataLocked: other pins or a later access time.  The sidecar is
\* replaced in one rename; when that fails nothing has changed.
UpdateMetadata == /\ phase = "idle" /\ index # 0
                  /\ disk' = [disk EXCEPT !["json"] = index]
                  /\ UNCHANGED <<phase, todo, index, writing, accepted, faults>>

-----------------------------------------------------------------------------
(* get and removeLocked *)

RemoveOps == <<Remove("body"), Remove("json"), Sync>>

\* Eviction, expiry or DELETE /offline/cache: the entry may go.
BeginRemove == /\ phase = "idle" /\ index # 0
               /\ accepted' = accepted \union {0}
               /\ phase' = "remove"
               /\ todo' = RemoveOps
               /\ UNCHANGED <<disk, index, writing, faults>>

\* get found a body that is not the one the index describes and drops the pair.
GetDropsCorrupt == /\ phase = "idle" /\ index # 0 /\ disk["body"] # index
                   /\ phase' = "remove"
                   /\ todo' = RemoveOps
                   /\ UNCHANGED <<disk, index, writing, accepted, faults>>

EndRemove == /\ phase = "remove" /\ todo = <<>>
             /\ index' = 0
             /\ accepted' = {0}
             /\ phase' = "idle"
             /\ UNCHANGED <<disk, todo, writing, faults>>

-----------------------------------------------------------------------------
(* newCacheStore: recoverBackups and load *)

\* First pass: a body backup whose sidecar was never moved aside goes back.
Pass1Ops == IF disk["bodyBak"] # 0 /\ disk["jsonBak"] = 0
            THEN <<Remove("body"), Rename("bodyBak", "body")>>
            ELSE <<>>

\* validCachePairAt compares length and checksum, hence the version.
ValidPair == disk["json"] # 0 /\ disk["body"] = disk["json"]

\* Second pass: a sidecar backup stands for the old pair, which comes back
\* unless the new pair is complete.
Pass2Ops == IF disk["jsonBak"] = 0 THEN <<>>
            ELSE IF ValidPair THEN DropBackups
                 ELSE DropPair \o Restore

\* loadMetadataAt looks at the size of the body only: versions of equal parity
\* stand for bodies of one size.
SameSize == disk["body"] # 0 /\ disk["body"] % 2 = disk["json"] % 2

\* Mutant: bodies without a sidecar are left behind.
LoadKeepsOrphans == IF disk["json"] # 0 /\ ~SameSize THEN <<Remove("json")>> ELSE <<>>

DropBody == <<Remove("body")>>

\* A sidecar with a body that fits it is indexed.
Usable == IF disk["json"] # 0 /\ SameSize THEN disk["json"] ELSE 0

\* A pair that is not is removed, and then any body that nothing indexes.
LoadOps == IF Usable # 0 THEN <<>>
           ELSE IF disk["json"] # 0 THEN DropPair \o DropBody
           ELSE DropBody

Start == /\ phase = "down"
         /\ phase' = "pass1"
         /\ todo' = Pass1Ops
         /\ UNCHANGED <<disk, index, writing, accepted, faults>>

EndPass1 == /\ phase = "pass1" /\ todo = <<>>
            /\ phase' = "pass2"
            /\ todo' = Pass2Ops
            /\ UNCHANGED <<disk, index, writing, accepted, faults>>

EndPass2 == /\ phase = "pass2" /\ todo = <<>>
            /\ phase' = "load"
            /\ todo' = LoadOps
            /\ index' = Usable
            /\ UNCHANGED <<disk, writing, accepted, faults>>

EndLoad == /\ phase = "load" /\ todo = <<>>
           /\ phase' = "idle"
           /\ accepted' = (IF index \in accepted THEN {index} ELSE accepted)
           /\ UNCHANGED <<disk, todo, index, writing, faults>>

-----------------------------------------------------------------------------
Step == /\ todo # <<>>
        /\ ~(phase = "put" /\ Missing(Head(todo)))
        /\ disk' = Apply(Head(todo))
        /\ todo' = Tail(todo)
        /\ UNCHANGED <<phase, index, writing, accepted, faults>>

TotalFaults == faults["crash"] + faults["rename"] + faults["remove"] + faults["sync"]

\* A fault of kind k happens.
Fault(k) == /\ k \in Faults
            /\ TotalFaults < MaxFaults
            /\ faults' = [faults EXCEPT ![k] = @ + 1]

\* The kind of fault that can befall an operation.
FaultOf(o) == IF o.op = "install" THEN "rename" ELSE o.op

\* A put looks at the errors of its renames and of its sync.
PutFails == /\ phase = "put" /\ todo # <<>>
            /\ Head(todo).op # "remove"
            /\ IF Missing(Head(todo)) THEN UNCHANGED faults ELSE Fault(FaultOf(Head(todo)))
            /\ phase' = "failing"
            /\ todo' = Rollback(Head(todo), index # 0)
            /\ UNCHANGED <<disk, index, writing, accepted>>

\* removeLocked reports every error, and the entry stays indexed.
RemoveFails == /\ phase = "remove" /\ todo # <<>>
               /\ Fault(FaultOf(Head(todo)))
               /\ phase' = "idle"
               /\ todo' = <<>>
               /\ UNCHANGED <<disk, index, writing, accepted>>

\* The code throws the error away: of every removal in a put, and of everything
\* a rollback or a restart does.
Unnoticed == /\ todo # <<>>
             /\ \/ phase \in {"failing", "pass1", "pass2", "load"}
                \/ phase = "put" /\ Head(todo).op = "remove"
             /\ Fault(FaultOf(Head(todo)))
             /\ todo' = Tail(todo)
             /\ UNCHANGED <<disk, phase, index, writing, accepted>>

\* The server is shut down between two operations of this store.
Stop == /\ phase = "idle"
        /\ phase' = "down"
        /\ index' = 0
        /\ UNCHANGED <<disk, todo, writing, accepted, faults>>

Crash == /\ phase # "down"
         /\ Fault("crash")
         /\ phase' = "down"
         /\ todo' = <<>>
         /\ index' = 0
         /\ UNCHANGED <<disk, writing, accepted>>

Init == /\ disk = [f \in Files |-> 0]
        /\ phase = "down"
        /\ todo = <<>>
        /\ index = 0
        /\ writing = 0
        /\ accepted = {0}
        /\ faults = [k \in Kinds |-> 0]

Next == \/ BeginPut \/ EndPut \/ EndFailedPut \/ PutFails \/ UpdateMetadata
        \/ BeginRemove \/ GetDropsCorrupt \/ EndRemove \/ RemoveFails
        \/ Start \/ EndPass1 \/ EndPass2 \/ EndLoad
        \/ Step \/ Unnoticed \/ Stop \/ Crash

Spec == Init /\ [][Next]_vars

-----------------------------------------------------------------------------
TypeOK == /\ disk \in [Files -> Versions]
          /\ phase \in Phases
          /\ \A i \in DOMAIN todo : todo[i].from \in Files /\ todo[i].to \in Files
          /\ phase \in {"idle", "down"} => todo = <<>>
          /\ index \in Versions
          /\ writing \in Versions
          /\ accepted \subseteq Versions
          /\ faults \in [Kinds -> 0 .. MaxFaults]

\* What get() answers: the indexed version when its body is in place.
Lookup == IF index # 0 /\ disk["body"] = index THEN index ELSE 0

\* At most one fault so far, and it was a crash or a failed rename.
OneFault == TotalFaults <= 1 /\ faults["sync"] = 0 /\ faults["remove"] = 0

\* README.md: "viewed resources and trip packs survive a restart".  A reader
\* finds the version last stored, or the one a replacement was storing when it
\* failed or was interrupted, and misses only an entry that something removed.
Durable == phase = "idle" => Lookup \in accepted

\* The promise the protocol of backups keeps: one crash or failed rename
\* anywhere, in a put, a removal or a recovery, costs nothing.
DurableOnce == OneFault => Durable

\* File operations that did not happen: each leaves one file behind.
LostOps == faults["rename"] + faults["remove"]

\* A version that was superseded or removed never comes back, however often the
\* server stops, crashes or cannot sync, and although one rename or removal is
\* lost: half a pair is never put together again.  Two lost removals leave both
\* backups of a replaced pair, and a later removal lets them come back.
NeverResurrects == LostOps <= 1 /\ phase = "idle" /\ Lookup # 0 => Lookup \in accepted

\* "Bodies left without a valid sidecar ... must not consume quota silently":
\* after one fault an idle store keeps no file that the index does not charge.
NothingUncharged == OneFault /\ phase = "idle" =>
                        /\ index = 0 => disk["body"] = 0 /\ disk["json"] = 0
                        /\ disk["bodyBak"] = 0 /\ disk["jsonBak"] = 0

=============================================================================
