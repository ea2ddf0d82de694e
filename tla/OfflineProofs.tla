---------------------------- MODULE OfflineProofs ----------------------------
(***************************************************************************)
(* Theorems about the server's two offline components.                     *)
(*                                                                         *)
(* OfflineMode, for every finite set of fetches and every set of clients:  *)
(* the drain counter is exact, no wake-up is lost, a transfer that is not  *)
(* cancelled runs only online, and the controller implements NetworkGate.  *)
(*                                                                         *)
(* PackPins, for any packs and keys, any number of restarts, failed writes *)
(* and copies of an entry: every pin belongs to somebody or is one that    *)
(* failed to go or came back; what a listed pack counts as its own, and    *)
(* what a complete one asked for, is there and pinned but for the ways of  *)
(* losing it that the invariants name; a removed one leaves no file.       *)
(***************************************************************************)
EXTENDS OfflineMode, PackPins, FiniteSetTheorems, TLAPS

-----------------------------------------------------------------------------
(* The offline mode *)

(* Strengthening: only a live generation has transfers that run, and while
   the mode is auto the generation was not cancelled. *)
RunningUnderLive == (\E f \in Fetches : fetch[f] = "running") => generation = "live"

OnlineNotCancelled == current = "auto" => generation # "cancelled"

ModeInv == /\ ModeTypeOK
           /\ ActiveAgrees
           /\ NoLostWakeup
           /\ OfflineIsCancelled
           /\ RunningUnderLive
           /\ OnlineNotCancelled
           /\ StartupPolicy

(* The transfers in flight are a finite set, and a transfer that starts or
   ends moves its size by one. *)
LEMMA InFlightCount ==
    ASSUME ModeTypeOK
    PROVE  /\ IsFiniteSet(InFlight)
           /\ Cardinality(InFlight) \in Nat
           /\ Cardinality(InFlight) = 0 <=> InFlight = {}
           /\ \A f \in Fetches \ InFlight :
                 Cardinality(InFlight \union {f}) = Cardinality(InFlight) + 1
           /\ \A f \in InFlight :
                 Cardinality(InFlight \ {f}) = Cardinality(InFlight) - 1
<1>1. InFlight \subseteq Fetches
  BY DEF InFlight
<1>2. IsFiniteSet(InFlight)
  BY <1>1, FetchesFinite, FS_Subset
<1>3. Cardinality(InFlight) \in Nat /\ (Cardinality(InFlight) = 0 <=> InFlight = {})
  BY <1>2, FS_CardinalityType, FS_EmptySet
<1>4. \A f \in Fetches \ InFlight :
         Cardinality(InFlight \union {f}) = Cardinality(InFlight) + 1
  BY <1>2, FS_AddElement
<1>5. \A f \in InFlight : Cardinality(InFlight \ {f}) = Cardinality(InFlight) - 1
  BY <1>2, FS_RemoveElement
<1>6. QED
  BY <1>2, <1>3, <1>4, <1>5

(* Cancelling a generation ends no transfer, and leaves none running that the
   generation covered. *)
LEMMA CancelKeepsInFlight ==
    ASSUME ModeTypeOK, RunningUnderLive, NEW g, g = generation
    PROVE  /\ CancelGeneration(g) \in [Fetches -> FetchStates]
           /\ \A f \in Fetches : CancelGeneration(g)[f] # "running"
           /\ \A f \in Fetches : CancelGeneration(g)[f] # "idle" <=> fetch[f] # "idle"
  BY DEF ModeTypeOK, RunningUnderLive, CancelGeneration, FetchStates

LEMMA ModeInitInv == ModeInit => ModeInv
<1> SUFFICES ASSUME ModeInit PROVE ModeInv
  OBVIOUS
<1>1. ModeTypeOK
  BY DEF ModeInit, ModeTypeOK, Modes, Generations, FetchStates, ClientStates
<1>2. InFlight = {}
  BY DEF ModeInit, InFlight
<1>3. ActiveAgrees
  BY <1>2, FS_EmptySet DEF ModeInit, ActiveAgrees
<1>4. NoLostWakeup /\ OfflineIsCancelled /\ RunningUnderLive
  BY DEF ModeInit, NoLostWakeup, OfflineIsCancelled, RunningUnderLive
<1>5. OnlineNotCancelled /\ StartupPolicy
  BY <1>2 DEF ModeInit, OnlineNotCancelled, StartupPolicy, Modes
<1>6. QED
  BY <1>1, <1>3, <1>4, <1>5 DEF ModeInv

(* A step that leaves the transfers' contexts in flight as they are keeps the
   counter exact. *)
LEMMA SameInFlight ==
    ASSUME ModeInv, UNCHANGED active,
           \A f \in Fetches : fetch'[f] # "idle" <=> fetch[f] # "idle"
    PROVE  InFlight' = InFlight /\ ActiveAgrees'
<1>1. InFlight' = InFlight
  BY DEF InFlight
<1>2. QED
  BY <1>1 DEF ModeInv, ActiveAgrees

LEMMA ModeNextInv == ModeInv /\ [ModeNext]_modeVars => ModeInv'
<1> SUFFICES ASSUME ModeInv, [ModeNext]_modeVars PROVE ModeInv'
  OBVIOUS
<1> USE DEF ModeInv
<1> DEFINE SameContexts == \A f \in Fetches : fetch'[f] # "idle" <=> fetch[f] # "idle"
<1>1. ASSUME NEW c \in Clients, Call(c) PROVE ModeInv'
  <2>1. ModeTypeOK'
    BY <1>1 DEF Call, ModeTypeOK, ClientStates
  <2>2. InFlight' = InFlight /\ ActiveAgrees'
    BY <1>1, SameInFlight DEF Call
  <2>3. NoLostWakeup'
    BY <1>1, <2>2 DEF Call, NoLostWakeup, ModeTypeOK
  <2>4. OfflineIsCancelled' /\ RunningUnderLive' /\ OnlineNotCancelled' /\ StartupPolicy'
    BY <1>1, <2>2 DEF Call, OfflineIsCancelled, RunningUnderLive, OnlineNotCancelled, StartupPolicy
  <2>5. QED
    BY <2>1, <2>2, <2>3, <2>4
<1>2. ASSUME NEW c \in Clients, SetRefused(c) \/ SetUnchanged(c) \/ Report(c) PROVE ModeInv'
  <2> USE DEF SetRefused, SetUnchanged, Report, Return
  <2>1. ModeTypeOK'
    BY <1>2 DEF ModeTypeOK, ClientStates
  <2>2. InFlight' = InFlight /\ ActiveAgrees'
    BY <1>2, SameInFlight
  <2>3. NoLostWakeup'
    BY <1>2, <2>2 DEF NoLostWakeup, ModeTypeOK
  <2>4. OfflineIsCancelled' /\ RunningUnderLive' /\ OnlineNotCancelled' /\ StartupPolicy'
    BY <1>2, <2>2 DEF OfflineIsCancelled, RunningUnderLive, OnlineNotCancelled, StartupPolicy
  <2>5. QED
    BY <2>1, <2>2, <2>3, <2>4
<1>3. ASSUME NEW c \in Clients, SetOffline(c) PROVE ModeInv'
  <2>1. /\ fetch' \in [Fetches -> FetchStates]
        /\ \A f \in Fetches : fetch'[f] # "running"
        /\ SameContexts
    BY <1>3, CancelKeepsInFlight DEF SetOffline
  <2>2. ModeTypeOK'
    BY <1>3, <2>1 DEF SetOffline, Return, ModeTypeOK, Modes, Generations, ClientStates
  <2>3. InFlight' = InFlight /\ ActiveAgrees'
    BY <1>3, <2>1, SameInFlight DEF SetOffline
  <2>4. active # 0 => InFlight # {}
    BY InFlightCount DEF ActiveAgrees
  <2>5. NoLostWakeup'
    BY <1>3, <2>3, <2>4 DEF SetOffline, Return, NoLostWakeup, ModeTypeOK
  <2>6. OfflineIsCancelled' /\ RunningUnderLive'
    BY <2>1 DEF OfflineIsCancelled, RunningUnderLive
  <2>7. OnlineNotCancelled' /\ StartupPolicy'
    BY <1>3, <2>3 DEF SetOffline, OnlineNotCancelled, StartupPolicy
  <2>8. QED
    BY <2>2, <2>3, <2>5, <2>6, <2>7
<1>4. ASSUME NEW c \in Clients, SetOnline(c) PROVE ModeInv'
  <2>1. ModeTypeOK'
    BY <1>4 DEF SetOnline, Return, ModeTypeOK, Modes, Generations, ClientStates
  <2>2. InFlight' = InFlight /\ ActiveAgrees'
    BY <1>4, SameInFlight DEF SetOnline
  <2>3. NoLostWakeup'
    BY <1>4, <2>2 DEF SetOnline, Return, NoLostWakeup, ModeTypeOK
  <2>4. OfflineIsCancelled' /\ RunningUnderLive' /\ OnlineNotCancelled'
    BY <1>4 DEF SetOnline, OfflineIsCancelled, RunningUnderLive, OnlineNotCancelled
  <2>5. StartupPolicy'
    BY <1>4, <2>2 DEF SetOnline, Refused, StartupPolicy
  <2>6. QED
    BY <2>1, <2>2, <2>3, <2>4, <2>5
<1>5. ASSUME NEW c \in Clients, ResumeDrain(c) PROVE ModeInv'
  <2>1. ModeTypeOK'
    BY <1>5 DEF ResumeDrain, ModeTypeOK, ClientStates
  <2>2. InFlight' = InFlight /\ ActiveAgrees'
    BY <1>5, SameInFlight DEF ResumeDrain
  <2>3. NoLostWakeup'
    BY <1>5, <2>2, InFlightCount DEF ResumeDrain, Drained, ActiveAgrees, NoLostWakeup
  <2>4. OfflineIsCancelled' /\ RunningUnderLive' /\ OnlineNotCancelled' /\ StartupPolicy'
    BY <1>5, <2>2
    DEF ResumeDrain, OfflineIsCancelled, RunningUnderLive, OnlineNotCancelled, StartupPolicy
  <2>5. QED
    BY <2>1, <2>2, <2>3, <2>4
<1>6. ASSUME NEW c \in Clients, FinishDrain(c) PROVE ModeInv'
  <2>1. ModeTypeOK'
    BY <1>6 DEF FinishDrain, Return, ModeTypeOK, Generations, ClientStates
  <2>2. InFlight' = InFlight /\ ActiveAgrees'
    BY <1>6, SameInFlight DEF FinishDrain
  <2>3. InFlight = {}
    BY <1>6, InFlightCount DEF FinishDrain, Drained, ActiveAgrees
  <2>4. NoLostWakeup'
    BY <1>6, <2>2 DEF FinishDrain, Return, NoLostWakeup, ModeTypeOK
  <2>5. OfflineIsCancelled' /\ RunningUnderLive'
    BY <2>2, <2>3 DEF InFlight, OfflineIsCancelled, RunningUnderLive
  <2>6. OnlineNotCancelled' /\ StartupPolicy'
    BY <1>6, <2>2 DEF FinishDrain, OnlineNotCancelled, StartupPolicy
  <2>7. QED
    BY <2>1, <2>2, <2>4, <2>5, <2>6
<1>7. ASSUME NEW f \in Fetches, NetworkContext(f) PROVE ModeInv'
  <2>1. f \in Fetches \ InFlight
    BY <1>7 DEF NetworkContext, InFlight
  <2>2. InFlight' = InFlight \union {f}
    BY <1>7 DEF NetworkContext, InFlight, ModeTypeOK, FetchStates
  <2>3. ActiveAgrees'
    BY <1>7, <2>1, <2>2, InFlightCount DEF NetworkContext, ActiveAgrees
  <2>4. ModeTypeOK'
    BY <1>7 DEF NetworkContext, ModeTypeOK, FetchStates, clientVars
  <2>5. NoLostWakeup'
    BY <1>7, <2>2 DEF NetworkContext, NoLostWakeup, clientVars
  <2>6. current = "auto" /\ generation = "live"
    BY <1>7 DEF NetworkContext, Admits, ModeTypeOK, Modes, Generations, OnlineNotCancelled
  <2>7. OfflineIsCancelled' /\ RunningUnderLive' /\ OnlineNotCancelled' /\ StartupPolicy'
    BY <1>7, <2>6
    DEF NetworkContext, OfflineIsCancelled, RunningUnderLive, OnlineNotCancelled, StartupPolicy
  <2>8. QED
    BY <2>3, <2>4, <2>5, <2>7
<1>8. ASSUME NEW f \in Fetches, ParentDone(f) PROVE ModeInv'
  <2>1. ModeTypeOK'
    BY <1>8 DEF ParentDone, ModeTypeOK, FetchStates, clientVars
  <2>2. InFlight' = InFlight /\ ActiveAgrees'
    BY <1>8, SameInFlight DEF ParentDone, ModeTypeOK
  <2>3. NoLostWakeup'
    BY <1>8, <2>2 DEF ParentDone, NoLostWakeup, clientVars
  <2>4. OfflineIsCancelled' /\ RunningUnderLive' /\ OnlineNotCancelled' /\ StartupPolicy'
    BY <1>8, <2>2
    DEF ParentDone, ModeTypeOK, OfflineIsCancelled, RunningUnderLive, OnlineNotCancelled, StartupPolicy
  <2>5. QED
    BY <2>1, <2>2, <2>3, <2>4
<1>9. ASSUME NEW f \in Fetches, Release(f) PROVE ModeInv'
  <2>1. f \in InFlight
    BY <1>9 DEF Release, Holds, InFlight
  <2>2. InFlight' = InFlight \ {f}
    BY <1>9 DEF Release, InFlight, ModeTypeOK
  <2>3. active # 0
    BY <2>1, InFlightCount DEF ActiveAgrees
  <2>4. ModeTypeOK'
    BY <1>9, <2>3 DEF Release, Broadcast, ModeTypeOK, FetchStates, ClientStates
  <2>5. ActiveAgrees'
    BY <1>9, <2>1, <2>2, InFlightCount DEF Release, ActiveAgrees
  <2>6. NoLostWakeup'
    BY <1>9 DEF Release, Broadcast, NoLostWakeup
  <2>7. OfflineIsCancelled' /\ RunningUnderLive' /\ OnlineNotCancelled' /\ StartupPolicy'
    BY <1>9, <2>2
    DEF Release, ModeTypeOK, OfflineIsCancelled, RunningUnderLive, OnlineNotCancelled, StartupPolicy
  <2>8. QED
    BY <2>4, <2>5, <2>6, <2>7
<1>10. CASE UNCHANGED modeVars
  BY <1>10 DEF modeVars, ModeTypeOK, ActiveAgrees, InFlight, NoLostWakeup, OfflineIsCancelled,
               RunningUnderLive, OnlineNotCancelled, StartupPolicy
<1>11. QED
  BY <1>1, <1>2, <1>3, <1>4, <1>5, <1>6, <1>7, <1>8, <1>9, <1>10 DEF ModeNext, Set

THEOREM ModeInvariance == ModeSpec => []ModeInv
<1>1. ModeInit => ModeInv
  BY ModeInitInv
<1>2. ModeInv /\ [ModeNext]_modeVars => ModeInv'
  BY ModeNextInv
<1>3. QED
  BY <1>1, <1>2, PTL DEF ModeSpec

(* Type correctness of the controller. *)
THEOREM ModeTypeCorrect == ModeSpec => []ModeTypeOK
  BY ModeInvariance, PTL DEF ModeInv

(* The counter offlineModeController.active is the number of transfers that
   hold a network context, in every reachable state. *)
THEOREM CounterExact == ModeSpec => []ActiveAgrees
  BY ModeInvariance, PTL DEF ModeInv

(* A client parked in cond.Wait always has a release ahead of it. *)
THEOREM WakeupsKept == ModeSpec => []NoLostWakeup
  BY ModeInvariance, PTL DEF ModeInv

(* Offline, every transfer that is left was cancelled. *)
THEOREM OfflineCancels == ModeSpec => []OfflineIsCancelled
  BY ModeInvariance, PTL DEF ModeInv

(* A server started cache-only never opens a transfer. *)
THEOREM StartupHolds == ModeSpec => []StartupPolicy
  BY ModeInvariance, PTL DEF ModeInv

(* A switch to cache-only is answered with success only at an instant with no
   transfer in flight. *)
THEOREM SwitchDrains == ModeSpec => DrainedBeforeReturn
<1> DEFINE Good == \A c \in Clients : SwitchedOff(c) => InFlight = {}
<1>1. ModeInv /\ [ModeNext]_modeVars => [Good]_modeVars
  <2> SUFFICES ASSUME ModeInv, ModeNext, NEW c \in Clients, SwitchedOff(c) PROVE InFlight = {}
    BY DEF SwitchedOff
  <2> USE DEF ModeInv, SwitchedOff
  <2>1. active = 0 => InFlight = {}
    BY InFlightCount DEF ActiveAgrees
  <2>2. ASSUME NEW d \in Clients, Call(d) PROVE FALSE
    BY <2>2 DEF Call, ModeTypeOK
  <2>3. ASSUME NEW d \in Clients, Set(d) PROVE InFlight = {}
    <3>1. d = c
      BY <2>3 DEF Set, SetRefused, SetUnchanged, SetOffline, SetOnline, ResumeDrain,
                  FinishDrain, Return, ModeTypeOK
    <3>2. SetOffline(c) \/ FinishDrain(c)
      BY <2>3, <3>1 DEF Set, SetRefused, SetUnchanged, SetOnline, ResumeDrain, Return, ModeTypeOK
    <3>3. QED
      BY <2>1, <3>2 DEF SetOffline, FinishDrain, Drained, ModeTypeOK
  <2>4. ASSUME NEW d \in Clients, Report(d) PROVE FALSE
    BY <2>4 DEF Report, ModeTypeOK
  <2>5. ASSUME NEW f \in Fetches, NetworkContext(f) \/ ParentDone(f) \/ Release(f) PROVE FALSE
    BY <2>5 DEF NetworkContext, ParentDone, Release, Broadcast, clientVars, ModeTypeOK
  <2>6. QED
    BY <2>2, <2>3, <2>4, <2>5 DEF ModeNext
<1>2. QED
  BY <1>1, ModeInvariance, PTL DEF ModeSpec, DrainedBeforeReturn

(* The controller implements NetworkGate: transfers start only online, and a
   switch is acknowledged only when nothing runs. *)
THEOREM ImplementsGate == ModeSpec => GateSpec
<1> DEFINE Asked == {c \in Clients : pc[c] \in {"waiting", "woken"}}
<1> USE DEF Gate!Next
<1>1. ModeInit => Gate!Init
  <2> SUFFICES ASSUME ModeInit PROVE Gate!Init
    OBVIOUS
  <2>1. InFlight = {} /\ Asked = {}
    BY DEF ModeInit, InFlight
  <2>2. QED
    BY <2>1 DEF ModeInit, Gate!Init, Modes
<1>2. ModeInv /\ [ModeNext]_modeVars => [Gate!Next]_(Gate!gateVars)
  <2> SUFFICES ASSUME ModeInv, [ModeNext]_modeVars PROVE Gate!Next \/ UNCHANGED Gate!gateVars
    OBVIOUS
  <2> USE DEF ModeInv, Gate!gateVars
  <2>1. active = 0 <=> InFlight = {}
    BY InFlightCount DEF ActiveAgrees
  <2>2. ASSUME NEW c \in Clients, Call(c) \/ SetRefused(c) \/ SetUnchanged(c)
                                  \/ ResumeDrain(c) \/ Report(c)
        PROVE  UNCHANGED Gate!gateVars
    <3>1. InFlight' = InFlight /\ current' = current
      BY <2>2 DEF Call, SetRefused, SetUnchanged, ResumeDrain, Report, InFlight
    <3>2. Asked' = Asked
      BY <2>2 DEF Call, SetRefused, SetUnchanged, ResumeDrain, Report, Return, ModeTypeOK
    <3>3. QED
      BY <3>1, <3>2
  <2>3. ASSUME NEW c \in Clients, SetOffline(c) PROVE Gate!GoOffline(c)
    <3>1. InFlight' = InFlight
      BY <2>3, CancelKeepsInFlight DEF SetOffline, InFlight
    <3>2. Asked' = IF InFlight = {} THEN Asked ELSE Asked \union {c}
      BY <2>1, <2>3 DEF SetOffline, Return, ModeTypeOK
    <3>3. QED
      BY <2>3, <3>1, <3>2 DEF SetOffline, Gate!GoOffline
  <2>4. ASSUME NEW c \in Clients, SetOnline(c) PROVE Gate!GoOnline
    <3>1. InFlight' = InFlight /\ Asked' = Asked
      BY <2>4 DEF SetOnline, Return, InFlight, ModeTypeOK
    <3>2. QED
      BY <2>4, <3>1 DEF SetOnline, Gate!GoOnline
  <2>5. ASSUME NEW c \in Clients, FinishDrain(c) PROVE Gate!AcknowledgeOffline(c)
    <3>1. InFlight' = InFlight /\ Asked' = Asked \ {c} /\ c \in Asked
      BY <2>5 DEF FinishDrain, Return, InFlight, ModeTypeOK
    <3>2. QED
      BY <2>1, <2>5, <3>1 DEF FinishDrain, Drained, Gate!AcknowledgeOffline
  <2>6. ASSUME NEW f \in Fetches, NetworkContext(f) PROVE Gate!StartTransfer(f)
    <3>1. InFlight' = InFlight \union {f} /\ Asked' = Asked
      BY <2>6 DEF NetworkContext, InFlight, clientVars, ModeTypeOK, FetchStates
    <3>2. QED
      BY <2>6, <3>1 DEF NetworkContext, Admits, Gate!StartTransfer, ModeTypeOK, Modes
  <2>7. ASSUME NEW f \in Fetches, ParentDone(f) PROVE UNCHANGED Gate!gateVars
    BY <2>7 DEF ParentDone, InFlight, clientVars, ModeTypeOK
  <2>8. ASSUME NEW f \in Fetches, Release(f) PROVE Gate!EndTransfer(f)
    <3>1. InFlight' = InFlight \ {f} /\ Asked' = Asked
      BY <2>8 DEF Release, Broadcast, InFlight, ModeTypeOK
    <3>2. QED
      BY <2>8, <3>1 DEF Release, Gate!EndTransfer
  <2>9. CASE UNCHANGED modeVars
    BY <2>9 DEF modeVars, InFlight
  <2>10. QED
    BY <2>2, <2>3, <2>4, <2>5, <2>6, <2>7, <2>8, <2>9 DEF ModeNext, Set
<1>3. QED
  BY <1>1, <1>2, ModeInvariance, PTL DEF ModeSpec, GateSpec, Gate!Spec

-----------------------------------------------------------------------------
(* The pins of the packs: the strengthening *)

\* A worker between its fetch and its answer has a job that waits for it, and
\* a job that has not begun has no work behind it.
WorkUnderJob ==
    \A p \in Packs, k \in Keys :
        /\ work[p][k] \in {"stored", "pinned", "rejected"} => job[p].at = "running"
        /\ job[p].at = "launched" => work[p][k] = "todo"

NewIsIdle == \A p \in Packs : pack[p].place = "new" => job[p].at = "none"

PinsArePresent == \A k \in Keys : pins[k] # {} => k \in present

\* The pack has the pin, or had it and it was taken.
Held(p, k) == p \in pins[k] \/ lapse[p][k] = "taken"

Kept(p, k) == Held(p, k) \/ lapse[p][k] = "wiped"

KeysKept == \A p \in Listed, k \in Keys : k \in pack[p].keys => Kept(p, k)

\* What a listed pack has just pinned is pinned, and what a live attempt has
\* done is recorded as well.
DoneIsHeld ==
    \A p \in Listed, k \in Keys :
        /\ work[p][k] = "pinned" => Held(p, k)
        /\ job[p].at = "running" /\ ~job[p].done /\ work[p][k] = "done"
           => k \in pack[p].keys /\ Held(p, k)

CompleteHeld == \A p \in Listed : pack[p].state = "complete" =>
                   /\ job[p].at \in {"none", "stopping"}
                   /\ \A k \in Keys : k \in pack[p].keys /\ Held(p, k)

\* A manifest that says complete on disk lists every key.
FileComplete == \A p \in Packs : file[p].state = "complete" => file[p].keys = Keys

GoneHasNoFile == \A p \in Packs : pack[p].place = "gone" => file[p] = NoFile

IInv == /\ TypeOK /\ WorkUnderJob /\ NewIsIdle /\ NoOrphanPins /\ PinsArePresent
        /\ KeysKept /\ DoneIsHeld /\ CompleteHeld /\ FileComplete /\ GoneHasNoFile

-----------------------------------------------------------------------------
(* update: what it leaves behind, written or not *)

Persisted(p, m) ==
    /\ pack' \in [Packs -> Manifests] /\ file' \in [Packs -> Files]
    /\ \A q \in Packs \ {p} : pack'[q] = pack[q] /\ file'[q] = file[q]
    /\ pack'[p].place = pack[p].place
    /\ pack'[p].keys = m.keys
    /\ pack'[p].state \in {m.state, "incomplete"}
    /\ file'[p] \in {file[p], [state |-> m.state, keys |-> m.keys]}
    /\ errors' \in 0 .. MaxErrors

\* A successful update leaves the manifest it was given.
LEMMA UpdatedPersists ==
    ASSUME TypeOK, NEW p \in Packs, NEW m \in Manifests, m.place = pack[p].place, Updated(p, m)
    PROVE Persisted(p, m)
<1>1. [state |-> m.state, keys |-> m.keys] \in Files
  BY DEF Manifests, Files
<1>2. /\ pack \in [Packs -> Manifests] /\ file \in [Packs -> Files]
      /\ errors \in 0 .. MaxErrors
  BY DEF TypeOK
<1>. QED BY <1>1, <1>2 DEF Updated, Memory, Written, Skips, Persisted

\* A failed one leaves it in memory, incomplete.
LEMMA StorageErrorPersists ==
    ASSUME TypeOK, NEW p \in Packs, NEW m \in Manifests, m.place = pack[p].place,
           StorageError(p, m)
    PROVE Persisted(p, m)
<1>1. [m EXCEPT !.state = "incomplete"] \in Manifests
  BY DEF Manifests, States
<1>2. errors' \in 0 .. MaxErrors
  BY PackPinsAssumption DEF TypeOK, StorageError, WriteFails
<1>3. /\ [m EXCEPT !.state = "incomplete"].place = m.place
      /\ [m EXCEPT !.state = "incomplete"].keys = m.keys
      /\ [m EXCEPT !.state = "incomplete"].state = "incomplete"
  BY DEF Manifests
<1>. QED BY <1>1, <1>2, <1>3 DEF TypeOK, StorageError, Memory, Persisted

\* An update that drops no key keeps the lists and what is on disk in order.
LEMMA UpdateKeeps ==
    ASSUME IInv, NEW p \in Packs, p \in Listed, NEW m \in Manifests, m.place = "listed",
           pack[p].keys \subseteq m.keys, m.state = "complete" => m.keys = Keys,
           Persisted(p, m), cleanup' = cleanup
    PROVE /\ Listed' = Listed
          /\ \A q \in Packs : /\ pack'[q].place = pack[q].place
                              /\ pack[q].keys \subseteq pack'[q].keys
          /\ \A q \in Packs : cleanup'[q] # {} => pack'[q].place = "deleted"
          /\ \A q \in Listed' : file'[q] # NoFile
          /\ FileComplete' /\ GoneHasNoFile'
<1>1. \A q \in Packs : /\ pack'[q].place = pack[q].place
                       /\ pack[q].keys \subseteq pack'[q].keys
  BY DEF Persisted
<1>2. Listed' = Listed
  BY <1>1 DEF Listed
<1>3. [state |-> m.state, keys |-> m.keys] # NoFile
  BY DEF Manifests, States, NoFile
<1>4. file'[p] # NoFile
  BY <1>3 DEF IInv, TypeOK, Persisted
<1>5. \A q \in Packs : cleanup'[q] # {} => pack'[q].place = "deleted"
  BY <1>1 DEF IInv, TypeOK
<1>6. \A q \in Listed' : file'[q] # NoFile
  BY <1>2, <1>4 DEF IInv, TypeOK, Persisted, Listed
<1>7. FileComplete'
  BY DEF IInv, FileComplete, Persisted
<1>8. GoneHasNoFile'
  BY <1>1 DEF IInv, GoneHasNoFile, Persisted, Listed
<1>. QED BY <1>1, <1>2, <1>5, <1>6, <1>7, <1>8

\* Pins that stay have the owner they had, when packs keep their place and
\* their keys and workers at most leave their steps that hold no pin.
LEMMA KeptPinsAreOwned ==
    ASSUME IInv, \A k \in Keys : pins'[k] \subseteq pins[k],
           Listed' = Listed, \A q \in Packs : pack[q].keys \subseteq pack'[q].keys,
           \A q \in Packs, k \in Keys : work[q][k] \in {"pinned", "rejected"}
                                       => work'[q][k] = work[q][k],
           UNCHANGED <<cleanup, lapse>>
    PROVE NoOrphanPins'
<1>. SUFFICES ASSUME NEW k \in Keys, NEW q \in pins'[k]
              PROVE \/ q \in Listed' /\ k \in pack'[q].keys
                    \/ work'[q][k] \in {"pinned", "rejected"}
                    \/ k \in cleanup'[q]
                    \/ lapse'[q][k] = "left"
  BY DEF NoOrphanPins
<1>1. q \in pins[k] /\ q \in Packs
  BY DEF IInv, TypeOK
<1>. QED BY <1>1 DEF IInv, NoOrphanPins

\* No new key, no change of pins.
LEMMA KeysStayKept ==
    ASSUME IInv, UNCHANGED <<pins, lapse>>,
           \A q \in Listed' : q \in Listed /\ pack'[q].keys = pack[q].keys
    PROVE KeysKept'
BY DEF IInv, KeysKept, Kept, Held

-----------------------------------------------------------------------------
(* run *)

\* RunBegin changes the state of the pack at most, and the place of its job.
LEMMA RunBeginStep == ASSUME IInv, NEW p \in Packs, RunBegin(p) PROVE IInv'
<1>1. /\ job' \in [Packs -> Jobs]
      /\ \A q \in Packs \ {p} : job'[q] = job[q]
      /\ job'[p].at \in {"running", "stopping"}
      /\ job[p].at = "launched"
  <2>1. job \in [Packs -> Jobs] /\ job[p].at = "launched"
    BY DEF IInv, TypeOK, RunBegin
  <2>2. PICK j \in Jobs : job' = [job EXCEPT ![p] = j] /\ j.at \in {"running", "stopping"}
    <3>1. \A a \in {"running", "stopping"} :
             [job[p] EXCEPT !.at = a] \in Jobs /\ [job[p] EXCEPT !.at = a].at = a
      BY <2>1 DEF Jobs
    <3>2. [at |-> "stopping", done |-> TRUE] \in Jobs
      BY DEF Jobs
    <3>. QED BY <2>1, <3>1, <3>2 DEF RunBegin
  <2>. QED BY <2>1, <2>2
<1>2. UNCHANGED <<present, pins, copied, lapse, work, cleanup, crashes>>
  BY DEF RunBegin, storeVars
<1>3. \A k \in Keys : work[p][k] = "todo"
  BY <1>1 DEF IInv, WorkUnderJob
<1>5. pack[p].place # "new"
  BY <1>1 DEF IInv, NewIsIdle
<1>6. WorkUnderJob'
  BY <1>1, <1>2, <1>3 DEF IInv, WorkUnderJob
<1>7. PinsArePresent'
  BY <1>2 DEF IInv, PinsArePresent
<1>8. CASE p \notin Listed
  <2>1. UNCHANGED <<file, pack, errors>>
    BY <1>8 DEF RunBegin, Updated, StorageError
  <2>2. Listed' = Listed
    BY <2>1 DEF Listed
  <2>3. TypeOK'
    BY <1>1, <1>2, <2>1, <2>2 DEF IInv, TypeOK
  <2>4. NewIsIdle' /\ NoOrphanPins'
    BY <1>1, <1>2, <1>5, <2>1, <2>2 DEF IInv, NewIsIdle, NoOrphanPins
  <2>5. DoneIsHeld' /\ CompleteHeld'
    BY <1>1, <1>2, <1>8, <2>1, <2>2 DEF IInv, DoneIsHeld, CompleteHeld, Listed, Held
  <2>7. KeysKept'
    BY <1>2, <2>1, <2>2, KeysStayKept
  <2>6. FileComplete' /\ GoneHasNoFile'
    BY <2>1 DEF IInv, FileComplete, GoneHasNoFile
  <2>. QED BY <1>6, <1>7, <2>3, <2>4, <2>5, <2>6, <2>7 DEF IInv
<1>9. CASE p \in Listed
  <2>1. pack[p] \in Manifests /\ pack[p].place = "listed" /\ pack[p].state # "complete"
    BY <1>1, <1>9 DEF IInv, TypeOK, Listed, CompleteHeld, Held
  <2>2. Persisted(p, pack[p])
    BY <1>9, <2>1, UpdatedPersists, StorageErrorPersists DEF RunBegin, IInv
  <2>3. /\ Listed' = Listed
        /\ \A q \in Packs : /\ pack'[q].place = pack[q].place
                            /\ pack[q].keys \subseteq pack'[q].keys
        /\ \A q \in Packs : cleanup'[q] # {} => pack'[q].place = "deleted"
        /\ \A q \in Listed' : file'[q] # NoFile
        /\ FileComplete' /\ GoneHasNoFile'
    BY <1>2, <1>9, <2>1, <2>2, UpdateKeeps
  <2>4. TypeOK'
    BY <1>1, <1>2, <2>2, <2>3 DEF IInv, TypeOK, Persisted
  <2>5. NewIsIdle'
    BY <1>1, <1>2, <1>5, <2>3 DEF IInv, NewIsIdle
  <2>6. NoOrphanPins'
    BY <1>2, <2>3, KeptPinsAreOwned DEF IInv
  <2>7. DoneIsHeld'
    BY <1>1, <1>2, <1>3, <2>3 DEF IInv, DoneIsHeld, Listed, Held
  <2>8. CompleteHeld'
    BY <1>1, <1>2, <2>1, <2>2, <2>3 DEF IInv, CompleteHeld, Persisted, Listed, Held
  <2>9. KeysKept'
    <3>1. \A q \in Listed' : q \in Listed /\ pack'[q].keys = pack[q].keys
      BY <2>2, <2>3 DEF Persisted, Listed
    <3>. QED BY <1>2, <3>1, KeysStayKept
  <2>. QED BY <1>6, <1>7, <2>3, <2>4, <2>5, <2>6, <2>7, <2>8, <2>9 DEF IInv
<1>. QED BY <1>8, <1>9

\* A worker that takes a step changes its own entry.
Moves(p, k, w) == work' = [work EXCEPT ![p][k] = w]

LEMMA WorkerMoves ==
    ASSUME TypeOK, NEW p \in Packs, NEW k \in Keys, NEW w \in WorkStates, Moves(p, k, w)
    PROVE /\ work' \in [Packs -> [Keys -> WorkStates]]
          /\ work'[p][k] = w
          /\ \A q \in Packs, l \in Keys : q # p \/ l # k => work'[q][l] = work[q][l]
<1>1. /\ work \in [Packs -> [Keys -> WorkStates]] /\ work[p] \in [Keys -> WorkStates]
  BY DEF TypeOK
<1>2. /\ [work[p] EXCEPT ![k] = w] \in [Keys -> WorkStates]
      /\ [work[p] EXCEPT ![k] = w][k] = w
      /\ \A l \in Keys \ {k} : [work[p] EXCEPT ![k] = w][l] = work[p][l]
  BY <1>1
<1>3. work' = [work EXCEPT ![p] = [work[p] EXCEPT ![k] = w]]
  BY DEF Moves
<1>. QED BY <1>1, <1>2, <1>3

\* CancelWork raises a flag of one job.
LEMMA CancelWorkType ==
    ASSUME TypeOK, NEW p \in Packs, CancelWork(p)
    PROVE /\ job' \in [Packs -> Jobs]
          /\ \A q \in Packs : job'[q].at = job[q].at /\ (job[q].done => job'[q].done)
          /\ job'[p].done
<1>1. job[p] \in Jobs
  BY DEF TypeOK
<1>2. /\ [job[p] EXCEPT !.done = TRUE] \in Jobs
      /\ [job[p] EXCEPT !.done = TRUE].at = job[p].at
      /\ [job[p] EXCEPT !.done = TRUE].done
  BY <1>1 DEF Jobs
<1>. QED BY <1>2 DEF TypeOK, CancelWork

\* A failed fetch leaves the worker with nothing and the pack as it was.
LEMMA UnfetchedStep == ASSUME IInv, NEW p \in Packs, NEW k \in Keys, Unfetched(p, k) PROVE IInv'
<1>1. work[p][k] \in {"todo", "stored"} /\ job[p].at = "running"
  BY DEF IInv, WorkUnderJob, Unfetched
<1>2. PICK w \in WorkStates : /\ Moves(p, k, w)
                              /\ w \in {"failed", "stopped"}
  BY DEF Moves, Unfetched, WorkStates
<1>3. /\ work' \in [Packs -> [Keys -> WorkStates]]
      /\ work'[p][k] = w
      /\ \A q \in Packs, l \in Keys : q # p \/ l # k => work'[q][l] = work[q][l]
  <2>1. TypeOK
    BY DEF IInv
  <2>. QED BY <2>1, <1>2, WorkerMoves
<1>4. /\ job' \in [Packs -> Jobs]
      /\ \A q \in Packs : job'[q].at = job[q].at /\ (job[q].done => job'[q].done)
  BY CancelWorkType DEF IInv, TypeOK, Unfetched
<1>5. UNCHANGED <<present, pins, copied, lapse, cleanup, crashes>>
  BY DEF Unfetched, storeVars
<1>6. WorkUnderJob'
  BY <1>1, <1>3, <1>4 DEF IInv, WorkUnderJob
<1>7. PinsArePresent'
  BY <1>5 DEF IInv, PinsArePresent
<1>8. CASE UNCHANGED <<file, pack, errors>>
  <2>1. Listed' = Listed
    BY <1>8 DEF Listed
  <2>2. TypeOK'
    BY <1>3, <1>4, <1>5, <1>8, <2>1 DEF IInv, TypeOK
  <2>3. NewIsIdle'
    BY <1>4, <1>8 DEF IInv, NewIsIdle
  <2>4. NoOrphanPins'
    BY <1>1, <1>3, <1>5, <1>8, <2>1, KeptPinsAreOwned
  <2>5. DoneIsHeld'
    BY <1>2, <1>3, <1>4, <1>5, <1>8, <2>1 DEF IInv, DoneIsHeld, Listed, Held
  <2>6. CompleteHeld'
    BY <1>4, <1>5, <1>8, <2>1 DEF IInv, CompleteHeld, Listed, Held
  <2>7. FileComplete' /\ GoneHasNoFile'
    BY <1>8 DEF IInv, FileComplete, GoneHasNoFile
  <2>8. KeysKept'
    BY <1>5, <1>8, <2>1, KeysStayKept
  <2>. QED BY <1>6, <1>7, <2>2, <2>3, <2>4, <2>5, <2>6, <2>7, <2>8 DEF IInv
<1>9. CASE p \in Listed /\ (Updated(p, pack[p]) \/ StorageError(p, pack[p]))
  <2>1. pack[p] \in Manifests /\ pack[p].place = "listed" /\ pack[p].state # "complete"
    BY <1>1, <1>9 DEF IInv, TypeOK, Listed, CompleteHeld, Held
  <2>2. Persisted(p, pack[p])
    BY <1>9, <2>1, UpdatedPersists, StorageErrorPersists DEF IInv
  <2>3. /\ Listed' = Listed
        /\ \A q \in Packs : /\ pack'[q].place = pack[q].place
                            /\ pack[q].keys \subseteq pack'[q].keys
        /\ \A q \in Packs : cleanup'[q] # {} => pack'[q].place = "deleted"
        /\ \A q \in Listed' : file'[q] # NoFile
        /\ FileComplete' /\ GoneHasNoFile'
    BY <1>5, <1>9, <2>1, <2>2, UpdateKeeps
  <2>4. TypeOK'
    BY <1>3, <1>4, <1>5, <2>2, <2>3 DEF IInv, TypeOK, Persisted
  <2>5. NewIsIdle'
    BY <1>4, <2>3 DEF IInv, NewIsIdle
  <2>6. NoOrphanPins'
    BY <1>1, <1>3, <1>5, <2>3, KeptPinsAreOwned
  <2>7. DoneIsHeld'
    BY <1>2, <1>3, <1>4, <1>5, <2>3 DEF IInv, DoneIsHeld, Listed, Held
  <2>8. CompleteHeld'
    BY <1>4, <1>5, <2>1, <2>2, <2>3 DEF IInv, CompleteHeld, Persisted, Listed, Held
  <2>9. KeysKept'
    <3>1. \A q \in Listed' : q \in Listed /\ pack'[q].keys = pack[q].keys
      BY <2>2, <2>3 DEF Persisted, Listed
    <3>. QED BY <1>5, <3>1, KeysStayKept
  <2>. QED BY <1>6, <1>7, <2>3, <2>4, <2>5, <2>6, <2>7, <2>8, <2>9 DEF IInv
<1>. QED BY <1>8, <1>9 DEF Unfetched

\* The key is recorded, and the pin has its owner.
LEMMA AddKeyStep == ASSUME IInv, NEW p \in Packs, NEW k \in Keys,
                           AddKey(p, k) \/ AddKeyFails(p, k)
                    PROVE IInv'
<1>1. work[p][k] = "pinned" /\ job[p].at = "running" /\ p \in Listed
  BY DEF IInv, WorkUnderJob, AddKey, AddKeyFails, Works
<1>2. PICK w \in WorkStates : /\ Moves(p, k, w)
                              /\ w \in {"done", "rejected"}
  BY DEF Moves, AddKey, AddKeyFails, Works, WorkStates
<1>3. /\ work' \in [Packs -> [Keys -> WorkStates]]
      /\ work'[p][k] = w
      /\ \A q \in Packs, l \in Keys : q # p \/ l # k => work'[q][l] = work[q][l]
  <2>1. TypeOK
    BY DEF IInv
  <2>. QED BY <2>1, <1>2, WorkerMoves
<1>4. /\ job' \in [Packs -> Jobs]
      /\ \A q \in Packs : job'[q].at = job[q].at /\ (job[q].done => job'[q].done)
  BY CancelWorkType DEF IInv, TypeOK, AddKey, AddKeyFails
<1>5. UNCHANGED <<present, pins, copied, lapse, cleanup, crashes>>
  BY DEF AddKey, AddKeyFails, storeVars
<1>6. WorkUnderJob'
  BY <1>1, <1>3, <1>4 DEF IInv, WorkUnderJob
<1>7. PinsArePresent'
  BY <1>5 DEF IInv, PinsArePresent
<1>8. /\ pack[p] \in Manifests /\ pack[p].place = "listed" /\ pack[p].state # "complete"
      /\ WithKey(p, k) \in Manifests /\ WithKey(p, k).place = "listed"
      /\ WithKey(p, k).state = pack[p].state
      /\ WithKey(p, k).keys = pack[p].keys \union {k}
  <2>1. pack[p] \in Manifests /\ pack[p].place = "listed" /\ pack[p].state # "complete"
    BY <1>1 DEF IInv, TypeOK, Listed, CompleteHeld, Held
  <2>. QED BY <2>1 DEF WithKey, Manifests
<1>9. Persisted(p, WithKey(p, k))
  BY <1>8, UpdatedPersists, StorageErrorPersists DEF IInv, AddKey, AddKeyFails
<1>10. /\ Listed' = Listed
       /\ \A q \in Packs : /\ pack'[q].place = pack[q].place
                           /\ pack[q].keys \subseteq pack'[q].keys
       /\ \A q \in Packs : cleanup'[q] # {} => pack'[q].place = "deleted"
       /\ \A q \in Listed' : file'[q] # NoFile
       /\ FileComplete' /\ GoneHasNoFile'
  BY <1>1, <1>5, <1>8, <1>9, UpdateKeeps
<1>11. k \in pack'[p].keys
  BY <1>8, <1>9 DEF Persisted
<1>12. TypeOK'
  BY <1>3, <1>4, <1>5, <1>9, <1>10 DEF IInv, TypeOK, Persisted
<1>13. NewIsIdle'
  BY <1>4, <1>10 DEF IInv, NewIsIdle
<1>14. NoOrphanPins'
  <2>. SUFFICES ASSUME NEW l \in Keys, NEW q \in pins'[l]
                PROVE \/ q \in Listed' /\ l \in pack'[q].keys
                      \/ work'[q][l] \in {"pinned", "rejected"}
                      \/ l \in cleanup'[q]
                      \/ lapse'[q][l] = "left"
    BY DEF NoOrphanPins
  <2>1. q \in pins[l] /\ q \in Packs
    BY <1>5 DEF IInv, TypeOK
  <2>2. CASE q = p /\ l = k
    BY <1>1, <1>10, <1>11, <2>2
  <2>3. CASE q # p \/ l # k
    BY <1>3, <1>5, <1>10, <2>1, <2>3 DEF IInv, NoOrphanPins
  <2>. QED BY <2>2, <2>3
<1>17. Held(p, k)' /\ \A q \in Packs, l \in Keys : Held(q, l)' = Held(q, l)
  BY <1>1, <1>5 DEF IInv, DoneIsHeld, Held
<1>15. DoneIsHeld'
  <2>. SUFFICES ASSUME NEW q \in Listed', NEW l \in Keys
                PROVE /\ work'[q][l] = "pinned" => Held(q, l)'
                      /\ job'[q].at = "running" /\ ~job'[q].done /\ work'[q][l] = "done"
                         => l \in pack'[q].keys /\ Held(q, l)'
    BY DEF DoneIsHeld, Held
  <2>2. q \in Listed /\ q \in Packs
    BY <1>10 DEF Listed
  <2>3. CASE q = p /\ l = k
    BY <1>3, <1>11, <1>17, <2>3
  <2>4. CASE q # p \/ l # k
    BY <1>3, <1>4, <1>10, <1>17, <2>2, <2>4 DEF IInv, DoneIsHeld, Held
  <2>. QED BY <2>3, <2>4
<1>16. CompleteHeld'
  BY <1>4, <1>5, <1>8, <1>9, <1>10, <1>17 DEF IInv, CompleteHeld, Persisted, Listed, Held
<1>18. KeysKept'
  <2>. SUFFICES ASSUME NEW q \in Listed', NEW l \in Keys, l \in pack'[q].keys
                PROVE Kept(q, l)'
    BY DEF KeysKept
  <2>1. q \in Listed /\ q \in Packs
    BY <1>10 DEF Listed
  <2>2. CASE q = p /\ l = k
    BY <1>17, <2>2 DEF Kept
  <2>3. CASE q # p \/ l # k
    <3>1. l \in pack[q].keys
      BY <1>8, <1>9, <2>1, <2>3 DEF Persisted
    <3>. QED BY <1>5, <2>1, <3>1 DEF IInv, KeysKept, Kept, Held
  <2>. QED BY <2>2, <2>3
<1>. QED BY <1>18, <1>6, <1>7, <1>10, <1>12, <1>13, <1>14, <1>15, <1>16 DEF IInv

\* The outcome is written; only a job that did everything reports complete.
LEMMA RunEndStep == ASSUME IInv, NEW p \in Packs, RunEnd(p) PROVE IInv'
<1>1. job[p].at = "running" /\ Joined(p)
  BY DEF RunEnd
<1>2. \A k \in Keys : work[p][k] \notin {"stored", "pinned", "rejected"}
  BY <1>1 DEF Joined
<1>3. /\ job' \in [Packs -> Jobs]
      /\ job'[p].at = "stopping"
      /\ \A q \in Packs \ {p} : job'[q] = job[q]
  BY DEF IInv, TypeOK, RunEnd, Jobs
<1>4. UNCHANGED <<present, pins, copied, lapse, work, cleanup, crashes>>
  BY DEF RunEnd, storeVars
<1>5. pack[p].place # "new"
  BY <1>1 DEF IInv, NewIsIdle
<1>6. WorkUnderJob'
  BY <1>2, <1>3, <1>4 DEF IInv, WorkUnderJob
<1>7. PinsArePresent'
  BY <1>4 DEF IInv, PinsArePresent
<1>8. CASE p \notin Listed
  <2>1. UNCHANGED <<file, pack, errors>>
    BY <1>8 DEF RunEnd
  <2>2. Listed' = Listed
    BY <2>1 DEF Listed
  <2>3. TypeOK'
    BY <1>3, <1>4, <2>1, <2>2 DEF IInv, TypeOK
  <2>4. NewIsIdle'
    BY <1>3, <1>5, <2>1 DEF IInv, NewIsIdle
  <2>5. NoOrphanPins'
    BY <1>4, <2>1, <2>2, KeptPinsAreOwned
  <2>6. DoneIsHeld' /\ CompleteHeld'
    BY <1>3, <1>4, <1>8, <2>1, <2>2 DEF IInv, DoneIsHeld, CompleteHeld, Listed, Held
  <2>7. FileComplete' /\ GoneHasNoFile'
    BY <2>1 DEF IInv, FileComplete, GoneHasNoFile
  <2>8. KeysKept'
    BY <1>4, <2>1, <2>2, KeysStayKept
  <2>. QED BY <1>6, <1>7, <2>3, <2>4, <2>5, <2>6, <2>7, <2>8 DEF IInv
<1>9. CASE p \in Listed
  <2>. DEFINE m == [pack[p] EXCEPT !.state = Outcome(p)]
  <2>1. /\ m \in Manifests /\ m.place = "listed" /\ pack[p].place = "listed"
        /\ m.keys = pack[p].keys /\ m.state = Outcome(p) /\ pack[p].keys \in SUBSET Keys
    BY <1>9 DEF IInv, TypeOK, Listed, Manifests, Outcome, States
  <2>2. Outcome(p) = "complete" => \A k \in Keys : k \in pack[p].keys /\ Held(p, k)
    BY <1>1, <1>9 DEF Outcome, IInv, DoneIsHeld, Held
  <2>3. m.state = "complete" => m.keys = Keys
    BY <2>1, <2>2
  <2>4. Updated(p, m) \/ StorageError(p, m)
    BY <1>9 DEF RunEnd
  <2>. HIDE DEF m
  <2>5. Persisted(p, m)
    BY <2>1, <2>4, UpdatedPersists, StorageErrorPersists DEF IInv
  <2>6. /\ Listed' = Listed
        /\ \A q \in Packs : /\ pack'[q].place = pack[q].place
                            /\ pack[q].keys \subseteq pack'[q].keys
        /\ \A q \in Packs : cleanup'[q] # {} => pack'[q].place = "deleted"
        /\ \A q \in Listed' : file'[q] # NoFile
        /\ FileComplete' /\ GoneHasNoFile'
    BY <1>4, <1>9, <2>1, <2>3, <2>5, UpdateKeeps
  <2>7. TypeOK'
    BY <1>3, <1>4, <2>5, <2>6 DEF IInv, TypeOK, Persisted
  <2>8. NewIsIdle'
    BY <1>3, <1>5, <2>6 DEF IInv, NewIsIdle
  <2>9. NoOrphanPins'
    BY <1>4, <2>6, KeptPinsAreOwned
  <2>10. DoneIsHeld'
    BY <1>2, <1>3, <1>4, <2>6 DEF IInv, DoneIsHeld, Listed, Held
  <2>11. CompleteHeld'
    BY <1>3, <1>4, <2>1, <2>2, <2>5, <2>6 DEF IInv, CompleteHeld, Persisted, Listed, Held
  <2>12. KeysKept'
    <3>1. \A q \in Listed' : q \in Listed /\ pack'[q].keys = pack[q].keys
      BY <2>1, <2>5, <2>6 DEF Persisted, Listed
    <3>. QED BY <1>4, <3>1, KeysStayKept
  <2>. QED BY <1>6, <1>7, <2>6, <2>7, <2>8, <2>9, <2>10, <2>11, <2>12 DEF IInv
<1>. QED BY <1>8, <1>9

\* The slot is given up, or a running job is told to stop.
LEMMA JobStep == ASSUME IInv, NEW p \in Packs, RunExit(p) \/ Stopped(p) PROVE IInv'
<1>1. UNCHANGED <<present, pins, copied, lapse, file, pack, work, cleanup, crashes, errors>>
  BY DEF RunExit, Stopped, storeVars, boundVars
<1>2. /\ job' \in [Packs -> Jobs]
      /\ \A q \in Packs : /\ \/ job'[q].at = job[q].at
                             \/ q = p /\ job[q].at = "stopping" /\ job'[q].at = "none"
                          /\ job[q].done => job'[q].done
  <2>1. CASE Stopped(p)
    BY <2>1, CancelWorkType DEF IInv, Stopped
  <2>2. CASE RunExit(p)
    <3>1. job[p] \in Jobs /\ job[p].at = "stopping"
      BY <2>2 DEF IInv, TypeOK, RunExit
    <3>2. /\ [job[p] EXCEPT !.at = "none"] \in Jobs
          /\ [job[p] EXCEPT !.at = "none"].at = "none"
          /\ [job[p] EXCEPT !.at = "none"].done = job[p].done
      BY <3>1 DEF Jobs
    <3>. QED BY <2>2, <3>1, <3>2 DEF IInv, TypeOK, RunExit
  <2>. QED BY <2>1, <2>2
<1>3. Listed' = Listed
  BY <1>1 DEF Listed
<1>4. TypeOK'
  BY <1>1, <1>2, <1>3 DEF IInv, TypeOK
<1>5. WorkUnderJob' /\ NewIsIdle'
  BY <1>1, <1>2 DEF IInv, WorkUnderJob, NewIsIdle
<1>6. NoOrphanPins'
  BY <1>1, <1>3, KeptPinsAreOwned
<1>7. PinsArePresent' /\ FileComplete' /\ GoneHasNoFile'
  BY <1>1 DEF IInv, PinsArePresent, FileComplete, GoneHasNoFile
<1>8. DoneIsHeld' /\ CompleteHeld'
  BY <1>1, <1>2, <1>3 DEF IInv, DoneIsHeld, CompleteHeld, Listed, Held
<1>9. KeysKept'
  BY <1>1, <1>3, KeysStayKept
<1>. QED BY <1>4, <1>5, <1>6, <1>7, <1>8, <1>9 DEF IInv

-----------------------------------------------------------------------------
(* The worker's own steps *)

\* A worker that stores, or learns that its pack is gone, holds the same pins.
LEMMA WorkerStep == ASSUME IInv, NEW p \in Packs, NEW k \in Keys,
                           Fetched(p, k) \/ KeyRejected(p, k)
                    PROVE IInv'
<1>1. UNCHANGED <<pins, copied, lapse, file, pack, job, cleanup, crashes, errors>>
  BY DEF Fetched, KeyRejected, storeVars, boundVars
<1>2. present \subseteq present' /\ present' \subseteq Keys
  BY DEF IInv, TypeOK, Fetched, KeyRejected, storeVars
<1>3. job[p].at = "running"
  BY DEF IInv, WorkUnderJob, Fetched, KeyRejected, Works
<1>4. PICK w \in WorkStates :
         /\ Moves(p, k, w)
         /\ \/ w = "stored" /\ work[p][k] = "todo"
            \/ w = "rejected" /\ work[p][k] = "pinned"
  BY DEF Moves, Fetched, KeyRejected, Works, WorkStates
<1>5. /\ work' \in [Packs -> [Keys -> WorkStates]]
      /\ work'[p][k] = w
      /\ \A q \in Packs, l \in Keys : q # p \/ l # k => work'[q][l] = work[q][l]
  <2>1. TypeOK
    BY DEF IInv
  <2>. QED BY <2>1, <1>4, WorkerMoves
<1>6. Listed' = Listed
  BY <1>1 DEF Listed
<1>7. TypeOK'
  BY <1>1, <1>2, <1>5, <1>6 DEF IInv, TypeOK
<1>8. WorkUnderJob' /\ NewIsIdle'
  BY <1>1, <1>3, <1>5 DEF IInv, WorkUnderJob, NewIsIdle
<1>9. NoOrphanPins'
  <2>. SUFFICES ASSUME NEW l \in Keys, NEW q \in pins[l]
                PROVE \/ q \in Listed /\ l \in pack[q].keys
                      \/ work'[q][l] \in {"pinned", "rejected"}
                      \/ l \in cleanup[q]
                      \/ lapse[q][l] = "left"
    BY <1>1, <1>6 DEF NoOrphanPins
  <2>1. q \in Packs
    BY DEF IInv, TypeOK
  <2>. QED BY <1>4, <1>5, <2>1 DEF IInv, NoOrphanPins
<1>10. PinsArePresent' /\ FileComplete' /\ GoneHasNoFile'
  BY <1>1, <1>2 DEF IInv, PinsArePresent, FileComplete, GoneHasNoFile
<1>11. CompleteHeld'
  BY <1>1, <1>6 DEF IInv, CompleteHeld, Held
<1>12. DoneIsHeld'
  BY <1>1, <1>4, <1>5, <1>6 DEF IInv, DoneIsHeld, Listed, Held
<1>13. KeysKept'
  BY <1>1, <1>6, KeysStayKept
<1>. QED BY <1>13, <1>7, <1>8, <1>9, <1>10, <1>11, <1>12 DEF IInv

\* The history of one pin moves.
Lapsed(p, k, w) == lapse' = [lapse EXCEPT ![p][k] = w]

LEMMA LapseMoves ==
    ASSUME TypeOK, NEW p \in Packs, NEW k \in Keys, NEW w \in Lapses,
           Lapsed(p, k, w)
    PROVE /\ lapse' \in [Packs -> [Keys -> Lapses]]
          /\ lapse'[p][k] = w
          /\ \A q \in Packs, l \in Keys : q # p \/ l # k => lapse'[q][l] = lapse[q][l]
<1>1. lapse \in [Packs -> [Keys -> Lapses]] /\ lapse[p] \in [Keys -> Lapses]
  BY DEF TypeOK
<1>2. /\ [lapse[p] EXCEPT ![k] = w] \in [Keys -> Lapses]
      /\ [lapse[p] EXCEPT ![k] = w][k] = w
      /\ \A l \in Keys \ {k} : [lapse[p] EXCEPT ![k] = w][l] = lapse[p][l]
  BY <1>1
<1>3. lapse' = [lapse EXCEPT ![p] = [lapse[p] EXCEPT ![k] = w]]
  BY DEF Lapsed
<1>. QED BY <1>1, <1>2, <1>3

LEMMA PinStep == ASSUME IInv, NEW p \in Packs, NEW k \in Keys, Pin(p, k) PROVE IInv'
<1>1. UNCHANGED <<present, copied, file, pack, job, cleanup, crashes, errors>>
  BY DEF Pin, boundVars
<1>2. k \in present /\ job[p].at = "running"
  BY DEF IInv, WorkUnderJob, Pin, Works
<1>3. "pinned" \in WorkStates /\ Moves(p, k, "pinned")
  BY DEF Moves, Pin, Works, WorkStates
<1>4. /\ work' \in [Packs -> [Keys -> WorkStates]]
      /\ work'[p][k] = "pinned"
      /\ \A q \in Packs, l \in Keys : q # p \/ l # k => work'[q][l] = work[q][l]
  <2>1. TypeOK
    BY DEF IInv
  <2>. QED BY <2>1, <1>3, WorkerMoves
<1>5. /\ pins' \in [Keys -> SUBSET Packs]
      /\ pins'[k] = pins[k] \union {p}
      /\ \A l \in Keys \ {k} : pins'[l] = pins[l]
  BY DEF IInv, TypeOK, Pin
<1>14. /\ lapse' \in [Packs -> [Keys -> Lapses]]
       /\ \A q \in Packs, l \in Keys : q # p \/ l # k => lapse'[q][l] = lapse[q][l]
  <2>1. TypeOK /\ "none" \in Lapses /\ Lapsed(p, k, "none")
    BY DEF IInv, Lapses, Pin, Lapsed
  <2>. QED BY <2>1, LapseMoves
<1>15. Held(p, k)' /\ \A q \in Packs, l \in Keys : q # p \/ l # k => Held(q, l)' = Held(q, l)
  BY <1>5, <1>14 DEF Held
<1>6. Listed' = Listed
  BY <1>1 DEF Listed
<1>7. TypeOK'
  BY <1>1, <1>4, <1>5, <1>6, <1>14 DEF IInv, TypeOK
<1>8. WorkUnderJob' /\ NewIsIdle'
  BY <1>1, <1>2, <1>4 DEF IInv, WorkUnderJob, NewIsIdle
<1>9. NoOrphanPins'
  <2>. SUFFICES ASSUME NEW l \in Keys, NEW q \in pins'[l]
                PROVE \/ q \in Listed /\ l \in pack[q].keys
                      \/ work'[q][l] \in {"pinned", "rejected"}
                      \/ l \in cleanup[q]
                      \/ lapse'[q][l] = "left"
    BY <1>1, <1>6 DEF NoOrphanPins
  <2>1. q \in Packs
    BY <1>5
  <2>2. CASE q = p /\ l = k
    BY <1>4, <2>2
  <2>3. CASE q # p \/ l # k
    BY <1>4, <1>5, <1>14, <2>1, <2>3 DEF IInv, NoOrphanPins
  <2>. QED BY <2>2, <2>3
<1>10. PinsArePresent' /\ FileComplete' /\ GoneHasNoFile'
  BY <1>1, <1>2, <1>5 DEF IInv, PinsArePresent, FileComplete, GoneHasNoFile
<1>11. CompleteHeld'
  BY <1>1, <1>6, <1>15 DEF IInv, CompleteHeld, Listed, Held
<1>12. DoneIsHeld'
  BY <1>1, <1>4, <1>6, <1>15 DEF IInv, DoneIsHeld, Listed, Held
<1>13. KeysKept'
  BY <1>1, <1>6, <1>14, <1>15 DEF IInv, KeysKept, Kept, Listed
<1>. QED BY <1>13, <1>7, <1>8, <1>9, <1>10, <1>11, <1>12 DEF IInv

-----------------------------------------------------------------------------
(* The store *)

\* A step of the store alone: pins go only with a note of it, and come only as
\* pins that outlived their release.
LEMMA StoreKeeps ==
    ASSUME IInv, UNCHANGED <<file, pack, job, work, cleanup, crashes, errors>>,
           present' \subseteq Keys, pins' \in [Keys -> SUBSET Packs],
           copied' \in [Keys -> SUBSET SUBSET Packs], lapse' \in [Packs -> [Keys -> Lapses]],
           \A q \in Listed, l \in Keys : /\ Held(q, l) => Held(q, l)'
                                         /\ Kept(q, l) => Kept(q, l)',
           \A l \in Keys : \A q \in pins'[l] :
              \/ lapse'[q][l] = "left"
              \/ q \in pins[l] /\ lapse'[q][l] = lapse[q][l],
           PinsArePresent'
    PROVE IInv'
<1>1. Listed' = Listed /\ \A q \in Listed : q \in Packs
  BY DEF Listed
<1>2. TypeOK'
  BY <1>1 DEF IInv, TypeOK
<1>3. WorkUnderJob' /\ NewIsIdle' /\ FileComplete' /\ GoneHasNoFile'
  BY DEF IInv, WorkUnderJob, NewIsIdle, FileComplete, GoneHasNoFile
<1>4. NoOrphanPins'
  BY <1>1 DEF IInv, NoOrphanPins
<1>5. KeysKept'
  BY <1>1 DEF IInv, KeysKept
<1>6. DoneIsHeld'
  <2>. SUFFICES ASSUME NEW q \in Listed, NEW l \in Keys
                PROVE /\ work[q][l] = "pinned" => Held(q, l)'
                      /\ job[q].at = "running" /\ ~job[q].done /\ work[q][l] = "done"
                         => l \in pack[q].keys /\ Held(q, l)'
    BY <1>1, Zenon DEF DoneIsHeld, Held
  <2>1. Held(q, l) => Held(q, l)'
    OBVIOUS
  <2>2. /\ work[q][l] = "pinned" => Held(q, l)
        /\ job[q].at = "running" /\ ~job[q].done /\ work[q][l] = "done"
           => l \in pack[q].keys /\ Held(q, l)
    BY Zenon DEF IInv, DoneIsHeld, Held
  <2>. QED BY <2>1, <2>2
<1>7. CompleteHeld'
  <2>. SUFFICES ASSUME NEW q \in Listed, pack[q].state = "complete"
                PROVE /\ job[q].at \in {"none", "stopping"}
                      /\ \A l \in Keys : l \in pack[q].keys /\ Held(q, l)'
    BY <1>1, Zenon DEF CompleteHeld, Held
  <2>1. \A l \in Keys : Held(q, l) => Held(q, l)'
    OBVIOUS
  <2>2. /\ job[q].at \in {"none", "stopping"}
        /\ \A l \in Keys : l \in pack[q].keys /\ Held(q, l)
    BY Zenon DEF IInv, CompleteHeld, Held
  <2>. QED BY <2>1, <2>2
<1>. QED BY <1>2, <1>3, <1>4, <1>5, <1>6, <1>7 DEF IInv

\* The entry of k has the pins S, and the history of its pins follows.
LEMMA PinsBecome ==
    ASSUME IInv, NEW k \in Keys, NEW S \in SUBSET Packs,
           pins' = [pins EXCEPT ![k] = S],
           lapse' = [p \in Packs |-> [lapse[p] EXCEPT ![k] =
                       IF p \in pins[k] \ S THEN Taken(p)
                       ELSE IF p \in S \ pins[k] THEN "left" ELSE @]]
    PROVE /\ pins' \in [Keys -> SUBSET Packs] /\ lapse' \in [Packs -> [Keys -> Lapses]]
          /\ \A q \in Listed, l \in Keys : /\ Held(q, l) => Held(q, l)'
                                           /\ Kept(q, l) => Kept(q, l)'
          /\ \A l \in Keys : \A q \in pins'[l] : \/ lapse'[q][l] = "left"
                                                 \/ q \in pins[l] /\ lapse'[q][l] = lapse[q][l]
<1>. DEFINE L(p) == IF p \in pins[k] \ S THEN Taken(p)
                    ELSE IF p \in S \ pins[k] THEN "left" ELSE lapse[p][k]
<1>1. /\ pins \in [Keys -> SUBSET Packs] /\ lapse \in [Packs -> [Keys -> Lapses]]
  BY DEF IInv, TypeOK
<1>2. /\ pins' \in [Keys -> SUBSET Packs] /\ pins'[k] = S
      /\ \A l \in Keys \ {k} : pins'[l] = pins[l]
  BY <1>1
<1>3. \A p \in Packs : L(p) \in Lapses
  BY <1>1 DEF Taken, Lapses
<1>4. lapse' = [p \in Packs |-> [lapse[p] EXCEPT ![k] = L(p)]]
  OBVIOUS
<1>5. \A p \in Packs : /\ p \in S => L(p) = "left" \/ (L(p) = lapse[p][k] /\ p \in pins[k])
                       /\ p \notin S /\ p \in pins[k] => L(p) = Taken(p)
                       /\ p \notin S /\ p \notin pins[k] => L(p) = lapse[p][k]
  OBVIOUS
<1>. HIDE DEF L
<1>6. \A p \in Packs : lapse'[p] = [lapse[p] EXCEPT ![k] = L(p)]
  BY <1>4
<1>7. /\ lapse' \in [Packs -> [Keys -> Lapses]]
      /\ \A p \in Packs : lapse'[p][k] = L(p)
      /\ \A p \in Packs, l \in Keys \ {k} : lapse'[p][l] = lapse[p][l]
  BY <1>1, <1>3, <1>4
<1>8. \A q \in Listed, l \in Keys : /\ Held(q, l) => Held(q, l)'
                                    /\ Kept(q, l) => Kept(q, l)'
  <2>. SUFFICES ASSUME NEW q \in Listed, NEW l \in Keys
                PROVE /\ Held(q, l) => Held(q, l)'
                      /\ Kept(q, l) => Kept(q, l)'
    OBVIOUS
  <2>1. q \in Packs /\ Taken(q) = "taken"
    BY DEF Listed, Taken
  <2>2. CASE l # k
    BY <1>2, <1>7, <2>1, <2>2 DEF Held, Kept
  <2>3. CASE l = k
    BY <1>2, <1>5, <1>7, <2>1, <2>3 DEF Held, Kept
  <2>. QED BY <2>2, <2>3
<1>9. ASSUME NEW l \in Keys, NEW q \in pins'[l]
      PROVE lapse'[q][l] = "left" \/ (q \in pins[l] /\ lapse'[q][l] = lapse[q][l])
  <2>1. q \in Packs
    BY <1>2
  <2>2. CASE l # k
    BY <1>2, <1>7, <2>1, <2>2
  <2>3. CASE l = k
    BY <1>2, <1>5, <1>7, <2>1, <2>3
  <2>. QED BY <2>2, <2>3
<1>. QED BY <1>2, <1>7, <1>8, <1>9

\* Eviction, removal, copies and what is written back of them.
LEMMA StoreStep == ASSUME IInv, NEW k \in Keys, Store(k) PROVE IInv'
<1>1. UNCHANGED <<file, pack, job, work, cleanup, crashes, errors>>
  BY DEF Store, Evict, Lost, Copy, WriteBack, Drop, boundVars
<1>2. /\ pins \in [Keys -> SUBSET Packs] /\ lapse \in [Packs -> [Keys -> Lapses]]
      /\ copied \in [Keys -> SUBSET SUBSET Packs] /\ present \subseteq Keys
  BY DEF IInv, TypeOK
<1>3. present' \subseteq Keys /\ copied' \in [Keys -> SUBSET SUBSET Packs]
  BY <1>2 DEF Store, Evict, Lost, Copy, WriteBack, Drop, Removed
<1>4. CASE UNCHANGED <<present, pins, lapse>>
  <2>1. PinsArePresent'
    BY <1>4 DEF IInv, PinsArePresent
  <2>2. \A q \in Listed, l \in Keys : /\ Held(q, l) => Held(q, l)'
                                      /\ Kept(q, l) => Kept(q, l)'
    BY <1>4 DEF Held, Kept
  <2>3. \A l \in Keys : \A q \in pins'[l] : q \in pins[l] /\ lapse'[q][l] = lapse[q][l]
    BY <1>4
  <2>. QED BY <1>1, <1>2, <1>3, <1>4, <2>1, <2>2, <2>3, StoreKeeps
<1>5. CASE Evict(k)
  <2>1. pins' = pins /\ lapse' = lapse /\ pins[k] = {} /\ present' = present \ {k}
    BY <1>2, <1>5 DEF Evict, Evictable, Removed
  <2>2. PinsArePresent'
    BY <2>1 DEF IInv, PinsArePresent
  <2>3. \A q \in Listed, l \in Keys : /\ Held(q, l) => Held(q, l)'
                                      /\ Kept(q, l) => Kept(q, l)'
    BY <2>1 DEF Held, Kept
  <2>4. \A l \in Keys : \A q \in pins'[l] : q \in pins[l] /\ lapse'[q][l] = lapse[q][l]
    BY <2>1
  <2>. QED BY <1>1, <1>2, <1>3, <2>1, <2>2, <2>3, <2>4, StoreKeeps
<1>6. CASE Lost(k)
  <2>1. /\ pins' = [pins EXCEPT ![k] = {}] /\ present' = present \ {k}
        /\ lapse' = [p \in Packs |-> [lapse[p] EXCEPT ![k] =
                       IF p \in pins[k] THEN Taken(p) ELSE @]]
    BY <1>6 DEF Lost, Removed
  <2>2. lapse' = [p \in Packs |-> [lapse[p] EXCEPT ![k] =
                       IF p \in pins[k] \ {} THEN Taken(p)
                       ELSE IF p \in {} \ pins[k] THEN "left" ELSE @]]
    BY <2>1
  <2>3. PinsArePresent'
    BY <1>2, <2>1 DEF IInv, PinsArePresent
  <2>4. {} \in SUBSET Packs
    OBVIOUS
  <2>. QED BY <1>1, <1>3, <2>1, <2>2, <2>3, <2>4, PinsBecome, StoreKeeps
<1>7. ASSUME NEW S \in copied[k], WriteBack(k, S), k \in present PROVE IInv'
  <2>1. /\ pins' = [pins EXCEPT ![k] = S] /\ present' = present
        /\ lapse' = [p \in Packs |-> [lapse[p] EXCEPT ![k] =
                       IF p \in pins[k] \ S THEN Taken(p)
                       ELSE IF p \in S \ pins[k] THEN "left" ELSE @]]
    BY <1>7 DEF WriteBack
  <2>2. S \in SUBSET Packs
    BY <1>2
  <2>3. PinsArePresent'
    BY <1>2, <1>7, <2>1 DEF IInv, PinsArePresent
  <2>. QED BY <1>1, <1>3, <2>1, <2>2, <2>3, PinsBecome, StoreKeeps
<1>. QED BY <1>4, <1>5, <1>6, <1>7 DEF Store, Copy, WriteBack, Drop

\* A pin is given up by a pack that nobody counts on, or that has a note of it.
LEMMA UnpinKeeps ==
    ASSUME IInv, NEW p \in Packs, NEW k \in Keys, Unpinned(p, k) \/ UnpinFails(p, k)
    PROVE /\ pins' \in [Keys -> SUBSET Packs] /\ lapse' \in [Packs -> [Keys -> Lapses]]
          /\ errors' \in 0 .. MaxErrors
          /\ \A q \in Packs, l \in Keys : q # p \/ l # k => /\ q \in pins'[l] <=> q \in pins[l]
                                                            /\ lapse'[q][l] = lapse[q][l]
          /\ p \in pins'[k] => p \in pins[k] /\ lapse'[p][k] = "left"
          /\ p \in Listed => Held(p, k)'
<1>1. /\ pins \in [Keys -> SUBSET Packs] /\ lapse \in [Packs -> [Keys -> Lapses]]
      /\ errors \in 0 .. MaxErrors
  BY DEF IInv, TypeOK
<1>2. TypeOK
  BY DEF IInv
<1>3. CASE Unpinned(p, k)
  <2>1. /\ pins' = [pins EXCEPT ![k] = @ \ {p}] /\ errors' = errors
        /\ Lapsed(p, k, Taken(p))
    BY <1>3 DEF Unpinned, Lapsed
  <2>2. Taken(p) \in Lapses /\ (p \in Listed => Taken(p) = "taken")
    BY DEF Taken, Lapses
  <2>3. /\ lapse' \in [Packs -> [Keys -> Lapses]] /\ lapse'[p][k] = Taken(p)
        /\ \A q \in Packs, l \in Keys : q # p \/ l # k => lapse'[q][l] = lapse[q][l]
    BY <1>2, <2>1, <2>2, LapseMoves
  <2>4. /\ pins' \in [Keys -> SUBSET Packs]
        /\ pins'[k] = pins[k] \ {p}
        /\ \A l \in Keys \ {k} : pins'[l] = pins[l]
    BY <1>1, <2>1
  <2>. QED BY <1>1, <2>1, <2>2, <2>3, <2>4 DEF Held
<1>4. CASE UnpinFails(p, k)
  <2>1. /\ pins' = pins /\ p \in pins[k]
        /\ Lapsed(p, k, "left")
    BY <1>4 DEF UnpinFails, Lapsed
  <2>2. "left" \in Lapses
    BY DEF Lapses
  <2>3. /\ lapse' \in [Packs -> [Keys -> Lapses]] /\ lapse'[p][k] = "left"
        /\ \A q \in Packs, l \in Keys : q # p \/ l # k => lapse'[q][l] = lapse[q][l]
    BY <1>2, <2>1, <2>2, LapseMoves
  <2>4. errors' \in 0 .. MaxErrors
    BY <1>1, <1>4, PackPinsAssumption DEF UnpinFails, WriteFails
  <2>. QED BY <1>1, <2>1, <2>3, <2>4 DEF Held
<1>. QED BY <1>3, <1>4

LEMMA ReleaseStep == ASSUME IInv, NEW p \in Packs, NEW k \in Keys, ReleaseRejectedPin(p, k)
                     PROVE IInv'
<1>1. UNCHANGED <<present, copied, file, pack, job, cleanup, crashes>>
  BY DEF ReleaseRejectedPin
<1>2. work[p][k] = "rejected" /\ job[p].at = "running"
  BY DEF IInv, WorkUnderJob, ReleaseRejectedPin, Works
<1>3. "stopped" \in WorkStates /\ Moves(p, k, "stopped")
  BY DEF Moves, ReleaseRejectedPin, Works, WorkStates
<1>4. /\ work' \in [Packs -> [Keys -> WorkStates]]
      /\ work'[p][k] = "stopped"
      /\ \A q \in Packs, l \in Keys : q # p \/ l # k => work'[q][l] = work[q][l]
  <2>1. TypeOK
    BY DEF IInv
  <2>. QED BY <2>1, <1>3, WorkerMoves
<1>5. /\ pins' \in [Keys -> SUBSET Packs] /\ lapse' \in [Packs -> [Keys -> Lapses]]
      /\ errors' \in 0 .. MaxErrors
      /\ \A q \in Packs, l \in Keys : q # p \/ l # k => /\ q \in pins'[l] <=> q \in pins[l]
                                                        /\ lapse'[q][l] = lapse[q][l]
      /\ p \in pins'[k] => p \in pins[k] /\ lapse'[p][k] = "left"
      /\ p \in Listed => Held(p, k)'
  BY UnpinKeeps DEF ReleaseRejectedPin
<1>6. Listed' = Listed /\ \A q \in Listed : q \in Packs
  BY <1>1 DEF Listed
<1>7. TypeOK'
  BY <1>1, <1>4, <1>5, <1>6 DEF IInv, TypeOK
<1>8. WorkUnderJob' /\ NewIsIdle'
  BY <1>1, <1>2, <1>4 DEF IInv, WorkUnderJob, NewIsIdle
<1>9. NoOrphanPins'
  <2>. SUFFICES ASSUME NEW l \in Keys, NEW q \in pins'[l]
                PROVE \/ q \in Listed /\ l \in pack[q].keys
                      \/ work'[q][l] \in {"pinned", "rejected"}
                      \/ l \in cleanup[q]
                      \/ lapse'[q][l] = "left"
    BY <1>1, <1>6 DEF NoOrphanPins
  <2>1. q \in Packs
    BY <1>5
  <2>2. CASE q = p /\ l = k
    BY <1>5, <2>2
  <2>3. CASE q # p \/ l # k
    BY <1>4, <1>5, <2>1, <2>3 DEF IInv, NoOrphanPins
  <2>. QED BY <2>2, <2>3
<1>10. PinsArePresent'
  <2>1. \A l \in Keys : pins'[l] \subseteq pins[l]
    BY <1>5
  <2>. QED BY <1>1, <2>1 DEF IInv, PinsArePresent
<1>11. FileComplete' /\ GoneHasNoFile'
  BY <1>1 DEF IInv, FileComplete, GoneHasNoFile
<1>12. \A q \in Listed, l \in Keys : /\ Held(q, l) => Held(q, l)'
                                     /\ Kept(q, l) => Kept(q, l)'
  <2>. SUFFICES ASSUME NEW q \in Listed, NEW l \in Keys
                PROVE /\ Held(q, l) => Held(q, l)'
                      /\ Kept(q, l) => Kept(q, l)'
    OBVIOUS
  <2>1. CASE q = p /\ l = k
    BY <1>5, <2>1 DEF Kept
  <2>2. CASE q # p \/ l # k
    BY <1>5, <1>6, <2>2 DEF Held, Kept
  <2>. QED BY <2>1, <2>2
<1>13. CompleteHeld' /\ KeysKept'
  BY <1>1, <1>6, <1>12 DEF IInv, CompleteHeld, KeysKept, Held
<1>14. DoneIsHeld'
  <2>. SUFFICES ASSUME NEW q \in Listed, NEW l \in Keys
                PROVE /\ work'[q][l] = "pinned" => Held(q, l)'
                      /\ job[q].at = "running" /\ ~job[q].done /\ work'[q][l] = "done"
                         => l \in pack[q].keys /\ Held(q, l)'
    BY <1>1, <1>6 DEF DoneIsHeld, Held
  <2>1. q \in Packs
    BY <1>6
  <2>2. work'[q][l] \in {"pinned", "done"} => work[q][l] = work'[q][l]
    BY <1>4, <2>1
  <2>3. Held(q, l) => Held(q, l)'
    BY <1>12
  <2>4. /\ work[q][l] = "pinned" => Held(q, l)
        /\ job[q].at = "running" /\ ~job[q].done /\ work[q][l] = "done"
           => l \in pack[q].keys /\ Held(q, l)
    BY DEF IInv, DoneIsHeld, Held
  <2>. QED BY <2>2, <2>3, <2>4
<1>. QED BY <1>7, <1>8, <1>9, <1>10, <1>11, <1>13, <1>14 DEF IInv

\* The cleanup of a deleted pack takes its pin off one key.
LEMMA CleanupKeyStep == ASSUME IInv, NEW p \in Packs, NEW k \in Keys, CleanupKey(p, k)
                        PROVE IInv'
<1>1. UNCHANGED <<present, copied, file, pack, job, work, crashes>>
  BY DEF CleanupKey
<1>2. p \notin Listed
  BY DEF IInv, TypeOK, CleanupKey, Listed
<1>3. /\ pins' \in [Keys -> SUBSET Packs] /\ lapse' \in [Packs -> [Keys -> Lapses]]
      /\ errors' \in 0 .. MaxErrors
      /\ \A q \in Packs, l \in Keys : q # p \/ l # k => /\ q \in pins'[l] <=> q \in pins[l]
                                                        /\ lapse'[q][l] = lapse[q][l]
      /\ p \in pins'[k] => p \in pins[k] /\ lapse'[p][k] = "left"
  BY UnpinKeeps DEF CleanupKey
<1>4. /\ cleanup' \in [Packs -> SUBSET Keys]
      /\ cleanup'[p] = cleanup[p] \ {k}
      /\ \A q \in Packs \ {p} : cleanup'[q] = cleanup[q]
  BY DEF IInv, TypeOK, CleanupKey
<1>5. Listed' = Listed /\ \A q \in Listed : q \in Packs /\ q # p
  BY <1>1, <1>2 DEF Listed
<1>6. TypeOK'
  BY <1>1, <1>3, <1>4, <1>5 DEF IInv, TypeOK
<1>7. WorkUnderJob' /\ NewIsIdle' /\ FileComplete' /\ GoneHasNoFile'
  BY <1>1 DEF IInv, WorkUnderJob, NewIsIdle, FileComplete, GoneHasNoFile
<1>8. NoOrphanPins'
  <2>. SUFFICES ASSUME NEW l \in Keys, NEW q \in pins'[l]
                PROVE \/ q \in Listed /\ l \in pack[q].keys
                      \/ work[q][l] \in {"pinned", "rejected"}
                      \/ l \in cleanup'[q]
                      \/ lapse'[q][l] = "left"
    BY <1>1, <1>5 DEF NoOrphanPins
  <2>1. q \in Packs
    BY <1>3
  <2>2. CASE q = p /\ l = k
    BY <1>3, <2>2
  <2>3. CASE q # p \/ l # k
    BY <1>3, <1>4, <2>1, <2>3 DEF IInv, NoOrphanPins
  <2>. QED BY <2>2, <2>3
<1>9. PinsArePresent'
  <2>1. \A l \in Keys : pins'[l] \subseteq pins[l]
    BY <1>3
  <2>. QED BY <1>1, <2>1 DEF IInv, PinsArePresent
<1>10. \A q \in Listed, l \in Keys : Held(q, l)' = Held(q, l) /\ Kept(q, l)' = Kept(q, l)
  BY <1>3, <1>5 DEF Held, Kept
<1>11. DoneIsHeld' /\ CompleteHeld' /\ KeysKept'
  BY <1>1, <1>5, <1>10 DEF IInv, DoneIsHeld, CompleteHeld, KeysKept, Held
<1>. QED BY <1>6, <1>7, <1>8, <1>9, <1>11 DEF IInv

-----------------------------------------------------------------------------
(* Attempts, deletions, restarts *)

\* A new attempt starts with no work behind it and the keys of the one before.
LEMMA LaunchStep ==
    ASSUME IInv, NEW p \in Packs, NEW m \in Manifests, m.place = "listed",
           m.state = "unfinished", pack[p].place \in {"new", "listed"},
           pack[p].place = "listed" => m.keys = pack[p].keys,
           pack[p].place = "new" => m.keys = {},
           job[p].at = "none", Launch(p, m)
    PROVE IInv'
<1>1. UNCHANGED <<present, pins, copied, lapse, cleanup, crashes, errors>>
  BY DEF Launch, storeVars, boundVars
<1>2. /\ pack' \in [Packs -> Manifests]
      /\ pack'[p] = m
      /\ \A q \in Packs \ {p} : pack'[q] = pack[q]
  BY DEF IInv, TypeOK, Launch, Memory
<1>3. /\ file' \in [Packs -> Files]
      /\ file'[p].state = "unfinished"
      /\ \A q \in Packs \ {p} : file'[q] = file[q]
  <2>1. [state |-> m.state, keys |-> m.keys] \in Files
    BY DEF Manifests, Files
  <2>. QED BY <2>1 DEF IInv, TypeOK, Launch, Written
<1>4. file'[p] # NoFile
  BY <1>3 DEF NoFile
<1>5. /\ job' \in [Packs -> Jobs]
      /\ job'[p].at = "launched"
      /\ \A q \in Packs \ {p} : job'[q] = job[q]
  <2>1. [at |-> "launched", done |-> FALSE] \in Jobs
    BY DEF Jobs
  <2>. QED BY <2>1 DEF IInv, TypeOK, Launch
<1>6. /\ work' \in [Packs -> [Keys -> WorkStates]]
      /\ \A k \in Keys : work'[p][k] = "todo"
      /\ \A q \in Packs \ {p} : work'[q] = work[q]
  <2>1. Idle \in [Keys -> WorkStates] /\ \A k \in Keys : Idle[k] = "todo"
    BY DEF Idle, WorkStates
  <2>. QED BY <2>1 DEF IInv, TypeOK, Launch
<1>7. Listed' = Listed \union {p}
  BY <1>2 DEF Listed
<1>8. cleanup[p] = {}
  BY DEF IInv, TypeOK
<1>9. TypeOK'
  <2>1. \A q \in Packs : cleanup'[q] # {} => pack'[q].place = "deleted"
    BY <1>1, <1>2, <1>8 DEF IInv, TypeOK
  <2>2. \A q \in Listed' : file'[q] # NoFile
    BY <1>3, <1>4, <1>7 DEF IInv, TypeOK, Listed
  <2>. QED BY <1>1, <1>2, <1>3, <1>5, <1>6, <2>1, <2>2 DEF IInv, TypeOK
<1>10. WorkUnderJob' /\ NewIsIdle'
  <2>1. WorkUnderJob'
    BY <1>5, <1>6 DEF IInv, WorkUnderJob
  <2>2. NewIsIdle'
    BY <1>2, <1>5 DEF IInv, NewIsIdle
  <2>. QED BY <2>1, <2>2
<1>11. NoOrphanPins'
  <2>. SUFFICES ASSUME NEW l \in Keys, NEW q \in pins[l]
                PROVE \/ q \in Listed' /\ l \in pack'[q].keys
                      \/ work'[q][l] \in {"pinned", "rejected"}
                      \/ l \in cleanup[q]
                      \/ lapse[q][l] = "left"
    BY <1>1 DEF NoOrphanPins
  <2>1. q \in Packs
    BY DEF IInv, TypeOK
  <2>2. CASE q = p
    <3>1. work[p][l] \notin {"pinned", "rejected"}
      BY DEF IInv, WorkUnderJob
    <3>2. (p \in Listed /\ l \in pack[p].keys) \/ lapse[p][l] = "left"
      BY <1>8, <2>2, <3>1 DEF IInv, NoOrphanPins
    <3>. QED BY <1>2, <1>7, <2>2, <3>2 DEF Listed
  <2>3. CASE q # p
    BY <1>2, <1>6, <1>7, <2>1, <2>3 DEF IInv, NoOrphanPins
  <2>. QED BY <2>2, <2>3
<1>12. PinsArePresent'
  BY <1>1 DEF IInv, PinsArePresent
<1>13. FileComplete' /\ GoneHasNoFile'
  BY <1>2, <1>3 DEF IInv, FileComplete, GoneHasNoFile
<1>14. DoneIsHeld'
  BY <1>1, <1>2, <1>5, <1>6, <1>7 DEF IInv, DoneIsHeld, Listed, Held
<1>15. CompleteHeld'
  BY <1>1, <1>2, <1>5, <1>7 DEF IInv, CompleteHeld, Listed, Held
<1>16. KeysKept'
  BY <1>1, <1>2, <1>7 DEF IInv, KeysKept, Kept, Held, Listed
<1>. QED BY <1>16, <1>9, <1>10, <1>11, <1>12, <1>13, <1>14, <1>15 DEF IInv

LEMMA AttemptStep == ASSUME IInv, NEW p \in Packs, Start(p) \/ Retry(p) PROVE IInv'
<1>1. CASE Start(p)
  <2>. DEFINE m == [place |-> "listed", state |-> "unfinished", keys |-> {}]
  <2>1. m \in Manifests /\ m.place = "listed" /\ m.state = "unfinished" /\ m.keys = {}
    BY DEF Manifests, Places, States
  <2>2. pack[p].place = "new" /\ job[p].at = "none" /\ Launch(p, m)
    BY <1>1 DEF Start, IInv, NewIsIdle
  <2>. HIDE DEF m
  <2>. QED BY <2>1, <2>2, LaunchStep
<1>2. CASE Retry(p)
  <2>. DEFINE m == [pack[p] EXCEPT !.state = "unfinished"]
  <2>1. pack[p].place = "listed" /\ pack[p] \in Manifests
    BY <1>2 DEF Retry, Listed, IInv, TypeOK
  <2>2. /\ m \in Manifests /\ m.place = "listed" /\ m.state = "unfinished"
        /\ m.keys = pack[p].keys
    BY <2>1 DEF Manifests, States
  <2>3. job[p].at = "none" /\ Launch(p, m)
    BY <1>2 DEF Retry
  <2>. HIDE DEF m
  <2>. QED BY <2>1, <2>2, <2>3, LaunchStep
<1>. QED BY <1>1, <1>2

\* What the deleted pack has pinned so far goes to the cleanup, or is still in
\* the hands of a worker.
LEMMA DeleteStep == ASSUME IInv, NEW p \in Packs, Delete(p) PROVE IInv'
<1>1. UNCHANGED <<present, pins, copied, lapse, file, work, crashes, errors>> /\ pack[p].place = "listed"
  BY DEF Delete, storeVars, boundVars, Listed
<1>2. /\ job' \in [Packs -> Jobs]
      /\ \A q \in Packs : job'[q].at = job[q].at /\ (job[q].done => job'[q].done)
  BY CancelWorkType DEF IInv, Delete
<1>3. /\ pack' \in [Packs -> Manifests]
      /\ pack'[p].place = "deleted"
      /\ \A q \in Packs \ {p} : pack'[q] = pack[q]
  <2>1. pack \in [Packs -> Manifests] /\ pack[p] \in Manifests
    BY DEF IInv, TypeOK
  <2>2. /\ [pack[p] EXCEPT !.place = "deleted"] \in Manifests
        /\ [pack[p] EXCEPT !.place = "deleted"].place = "deleted"
    BY <2>1 DEF Manifests, Places
  <2>. QED BY <2>1, <2>2 DEF Delete, Memory
<1>4. /\ cleanup' \in [Packs -> SUBSET Keys]
      /\ cleanup'[p] = pack[p].keys
      /\ \A q \in Packs \ {p} : cleanup'[q] = cleanup[q]
  BY DEF IInv, TypeOK, Delete, Manifests
<1>5. Listed' = Listed \ {p}
  BY <1>3 DEF Listed
<1>6. TypeOK'
  BY <1>1, <1>2, <1>3, <1>4, <1>5 DEF IInv, TypeOK
<1>7. WorkUnderJob' /\ NewIsIdle'
  BY <1>1, <1>2, <1>3 DEF IInv, WorkUnderJob, NewIsIdle
<1>8. NoOrphanPins'
  <2>. SUFFICES ASSUME NEW l \in Keys, NEW q \in pins[l]
                PROVE \/ q \in Listed' /\ l \in pack'[q].keys
                      \/ work[q][l] \in {"pinned", "rejected"}
                      \/ l \in cleanup'[q]
                      \/ lapse[q][l] = "left"
    BY <1>1 DEF NoOrphanPins
  <2>1. q \in Packs
    BY DEF IInv, TypeOK
  <2>2. CASE q = p
    <3>1. cleanup[p] = {}
      BY <1>1 DEF IInv, TypeOK
    <3>. QED BY <1>4, <2>2, <3>1 DEF IInv, NoOrphanPins
  <2>3. CASE q # p
    BY <1>3, <1>4, <1>5, <2>1, <2>3 DEF IInv, NoOrphanPins
  <2>. QED BY <2>2, <2>3
<1>9. PinsArePresent' /\ FileComplete'
  BY <1>1 DEF IInv, PinsArePresent, FileComplete
<1>10. GoneHasNoFile'
  BY <1>1, <1>3 DEF IInv, GoneHasNoFile
<1>11. DoneIsHeld' /\ CompleteHeld'
  BY <1>1, <1>2, <1>3, <1>5 DEF IInv, DoneIsHeld, CompleteHeld, Listed, Held
<1>12. KeysKept'
  <2>1. \A q \in Listed' : q \in Listed /\ pack'[q].keys = pack[q].keys
    BY <1>3, <1>5 DEF Listed
  <2>. QED BY <1>1, <2>1, KeysStayKept
<1>. QED BY <1>12, <1>6, <1>7, <1>8, <1>9, <1>10, <1>11 DEF IInv

LEMMA CleanupFileStep == ASSUME IInv, NEW p \in Packs, CleanupFile(p) PROVE IInv'
<1>1. /\ UNCHANGED <<present, pins, copied, lapse, job, work, cleanup, crashes, errors>>
      /\ pack[p].place = "deleted" /\ cleanup[p] = {}
  BY DEF CleanupFile, storeVars, boundVars
<1>2. /\ pack' \in [Packs -> Manifests]
      /\ pack'[p].place = "gone"
      /\ \A q \in Packs \ {p} : pack'[q] = pack[q]
  <2>1. pack \in [Packs -> Manifests] /\ pack[p] \in Manifests
    BY DEF IInv, TypeOK
  <2>2. /\ [pack[p] EXCEPT !.place = "gone"] \in Manifests
        /\ [pack[p] EXCEPT !.place = "gone"].place = "gone"
    BY <2>1 DEF Manifests, Places
  <2>. QED BY <2>1, <2>2 DEF CleanupFile, Memory
<1>3. /\ file' \in [Packs -> Files]
      /\ file'[p] = NoFile
      /\ \A q \in Packs \ {p} : file'[q] = file[q]
  <2>1. NoFile \in Files
    BY DEF NoFile, Files, States
  <2>. QED BY <2>1 DEF IInv, TypeOK, CleanupFile
<1>4. Listed' = Listed /\ p \notin Listed
  BY <1>1, <1>2 DEF Listed
<1>5. TypeOK'
  <2>1. \A q \in Packs : cleanup'[q] # {} => pack'[q].place = "deleted"
    BY <1>1, <1>2 DEF IInv, TypeOK
  <2>2. \A q \in Listed' : file'[q] # NoFile
    BY <1>3, <1>4 DEF IInv, TypeOK, Listed
  <2>. QED BY <1>1, <1>2, <1>3, <2>1, <2>2 DEF IInv, TypeOK
<1>6. WorkUnderJob' /\ NewIsIdle' /\ PinsArePresent'
  BY <1>1, <1>2 DEF IInv, WorkUnderJob, NewIsIdle, PinsArePresent
<1>7. FileComplete'
  BY <1>3 DEF IInv, FileComplete, NoFile
<1>8. GoneHasNoFile'
  BY <1>2, <1>3 DEF IInv, GoneHasNoFile
<1>9. NoOrphanPins' /\ DoneIsHeld' /\ CompleteHeld' /\ KeysKept'
  <2>1. \A q \in Listed : q \in Packs \ {p}
    BY <1>4 DEF Listed
  <2>2. NoOrphanPins'
    BY <1>1, <1>2, <1>4, <2>1 DEF IInv, NoOrphanPins
  <2>3. DoneIsHeld' /\ CompleteHeld'
    BY <1>1, <1>2, <1>4, <2>1 DEF IInv, DoneIsHeld, CompleteHeld, Held
  <2>4. KeysKept'
    BY <1>1, <1>2, <1>4, <2>1, KeysStayKept
  <2>. QED BY <2>2, <2>3, <2>4
<1>. QED BY <1>5, <1>6, <1>7, <1>8, <1>9 DEF IInv

\* After a restart the manifests on disk say who pins what.
LEMMA RestartStep ==
    ASSUME IInv, NEW S \in SUBSET Keys, RestartWith(S)
    PROVE IInv'
<1>1. /\ present' = S /\ errors' = errors
      /\ crashes' \in 0 .. MaxCrashes
  BY PackPinsAssumption DEF IInv, TypeOK, RestartWith
<1>2. \A p \in OnDisk : /\ Recovered(p, S) \in {"complete", "incomplete"}
                        /\ Recovered(p, S) = "complete" => /\ file[p].state = "complete"
                                                           /\ file[p].keys \subseteq S
  BY DEF Recovered
<1>3. /\ file' \in [Packs -> Files]
      /\ \A p \in Packs \ OnDisk : file'[p] = NoFile
      /\ \A p \in OnDisk : file'[p].state = Recovered(p, S) /\ file'[p].keys = file[p].keys
  <2>. DEFINE F(p) == IF p \in OnDisk THEN [file[p] EXCEPT !.state = Recovered(p, S)]
                      ELSE NoFile
  <2>1. \A p \in OnDisk : /\ F(p) \in Files
                          /\ F(p).state = Recovered(p, S)
                          /\ F(p).keys = file[p].keys
    BY <1>2 DEF IInv, TypeOK, OnDisk, Files, States
  <2>2. NoFile \in Files /\ \A p \in Packs \ OnDisk : F(p) = NoFile
    BY DEF NoFile, Files
  <2>3. file' = [p \in Packs |-> F(p)] /\ OnDisk \subseteq Packs
    BY DEF RestartWith, OnDisk
  <2>. HIDE DEF F
  <2>. QED BY <2>1, <2>2, <2>3
<1>4. \A p \in OnDisk : file'[p] # NoFile
  BY <1>2, <1>3 DEF NoFile
<1>5. /\ pack' \in [Packs -> Manifests]
      /\ \A p \in OnDisk : /\ pack'[p].place = "listed"
                           /\ pack'[p].state = Recovered(p, S)
                           /\ pack'[p].keys = file[p].keys
      /\ \A p \in Packs \ OnDisk : pack'[p].place \in {"new", "gone"}
  <2>. DEFINE F(p) == IF p \in OnDisk
                      THEN [place |-> "listed", state |-> Recovered(p, S), keys |-> file[p].keys]
                      ELSE IF pack[p].place = "new" THEN pack[p]
                           ELSE [pack[p] EXCEPT !.place = "gone"]
  <2>1. \A p \in OnDisk : /\ F(p) \in Manifests
                          /\ F(p).place = "listed"
                          /\ F(p).state = Recovered(p, S)
                          /\ F(p).keys = file[p].keys
    BY <1>2 DEF IInv, TypeOK, OnDisk, Files, Manifests, Places, States
  <2>2. \A p \in Packs \ OnDisk : F(p) \in Manifests /\ F(p).place \in {"new", "gone"}
    <3>. SUFFICES ASSUME NEW p \in Packs, p \notin OnDisk
                  PROVE F(p) \in Manifests /\ F(p).place \in {"new", "gone"}
      OBVIOUS
    <3>1. pack[p] \in Manifests
      BY DEF IInv, TypeOK
    <3>2. CASE pack[p].place = "new"
      BY <3>1, <3>2
    <3>3. CASE pack[p].place # "new"
      BY <3>1, <3>3 DEF Manifests, Places
    <3>. QED BY <3>2, <3>3
  <2>3. pack' = [p \in Packs |-> F(p)] /\ OnDisk \subseteq Packs
    BY DEF RestartWith, OnDisk
  <2>. HIDE DEF F
  <2>. QED BY <2>1, <2>2, <2>3
<1>6. /\ job' \in [Packs -> Jobs]
      /\ \A p \in Packs : job'[p].at = "none"
  BY DEF RestartWith, Jobs
<1>7. /\ work' \in [Packs -> [Keys -> WorkStates]]
      /\ \A p \in Packs, k \in Keys : work'[p][k] = "todo"
  BY DEF RestartWith, Idle, WorkStates
<1>8. /\ cleanup' \in [Packs -> SUBSET Keys]
      /\ \A p \in Packs : cleanup'[p] = {}
  BY DEF RestartWith
<1>9. /\ pins' \in [Keys -> SUBSET Packs]
      /\ \A k \in Keys, p \in Packs : p \in pins'[k] <=> k \in S /\ p \in OnDisk /\ k \in file[p].keys
  BY DEF RestartWith, Reconciled, OnDisk
<1>10. Listed' = OnDisk
  BY <1>5 DEF Listed, OnDisk
<1>19. /\ copied' \in [Keys -> SUBSET SUBSET Packs]
       /\ lapse' \in [Packs -> [Keys -> Lapses]]
       /\ \A p \in Packs, k \in Keys :
            p \in OnDisk /\ k \in file[p].keys \ S => lapse'[p][k] = "wiped"
  BY DEF RestartWith, Lapses
<1>11. TypeOK'
  BY <1>19, <1>1, <1>3, <1>4, <1>5, <1>6, <1>7, <1>8, <1>9, <1>10 DEF IInv, TypeOK
<1>12. WorkUnderJob' /\ NewIsIdle'
  BY <1>6, <1>7 DEF WorkUnderJob, NewIsIdle
<1>13. NoOrphanPins'
  BY <1>5, <1>9, <1>10 DEF NoOrphanPins
<1>14. PinsArePresent'
  BY <1>1, <1>9 DEF PinsArePresent
<1>15. DoneIsHeld'
  <2>1. \A p \in OnDisk : p \in Packs
    BY DEF OnDisk
  <2>. QED BY <1>6, <1>7, <1>10, <2>1 DEF DoneIsHeld, Held
<1>16. CompleteHeld'
  <2>. SUFFICES ASSUME NEW p \in OnDisk, pack'[p].state = "complete"
                PROVE /\ job'[p].at \in {"none", "stopping"}
                      /\ \A k \in Keys : k \in pack'[p].keys /\ Held(p, k)'
    BY <1>10 DEF CompleteHeld, Held
  <2>1. p \in Packs /\ file[p].keys = Keys /\ file[p].keys \subseteq S
    BY <1>2, <1>5 DEF OnDisk, IInv, FileComplete
  <2>. QED BY <1>5, <1>6, <1>9, <2>1 DEF Held
<1>17. FileComplete'
  <2>. SUFFICES ASSUME NEW p \in Packs, file'[p].state = "complete"
                PROVE file'[p].keys = Keys
    BY DEF FileComplete
  <2>1. p \in OnDisk
    BY <1>3 DEF NoFile
  <2>. QED BY <1>2, <1>3, <2>1 DEF IInv, FileComplete
<1>18. GoneHasNoFile'
  BY <1>3, <1>5 DEF GoneHasNoFile
<1>20. KeysKept'
  <2>1. \A p \in OnDisk : p \in Packs
    BY DEF OnDisk
  <2>. QED BY <1>5, <1>9, <1>10, <1>19, <2>1 DEF KeysKept, Kept, Held
<1>. QED BY <1>20, <1>11, <1>12, <1>13, <1>14, <1>15, <1>16, <1>17, <1>18 DEF IInv

-----------------------------------------------------------------------------
(* The invariant *)

LEMMA InitIInv == ASSUME Init PROVE IInv
<1>1. /\ \A p \in Packs : pack[p] = [place |-> "new", state |-> "unfinished", keys |-> {}]
      /\ \A p \in Packs : job[p] = [at |-> "none", done |-> FALSE]
      /\ \A p \in Packs, k \in Keys : work[p][k] = "todo"
      /\ \A k \in Keys : pins[k] = {}
      /\ \A p \in Packs : file[p] = NoFile /\ cleanup[p] = {}
      /\ copied \in [Keys -> SUBSET SUBSET Packs] /\ lapse \in [Packs -> [Keys -> Lapses]]
  BY DEF Init, Idle, Lapses
<1>2. Listed = {}
  BY <1>1 DEF Listed
<1>3. TypeOK
  <2>1. /\ [place |-> "new", state |-> "unfinished", keys |-> {}] \in Manifests
        /\ [at |-> "none", done |-> FALSE] \in Jobs
        /\ NoFile \in Files
        /\ Idle \in [Keys -> WorkStates]
    BY DEF Manifests, Places, States, Jobs, NoFile, Files, Idle, WorkStates
  <2>2. /\ present \subseteq Keys /\ pins \in [Keys -> SUBSET Packs]
        /\ cleanup \in [Packs -> SUBSET Keys]
        /\ crashes \in 0 .. MaxCrashes /\ errors \in 0 .. MaxErrors
    BY PackPinsAssumption DEF Init
  <2>3. /\ file \in [Packs -> Files] /\ pack \in [Packs -> Manifests]
        /\ job \in [Packs -> Jobs] /\ work \in [Packs -> [Keys -> WorkStates]]
    BY <2>1 DEF Init
  <2>. QED BY <1>1, <1>2, <2>2, <2>3 DEF TypeOK
<1>4. WorkUnderJob /\ NewIsIdle /\ NoOrphanPins /\ PinsArePresent
  BY <1>1 DEF WorkUnderJob, NewIsIdle, NoOrphanPins, PinsArePresent
<1>5. DoneIsHeld /\ CompleteHeld /\ KeysKept
  BY <1>2 DEF DoneIsHeld, CompleteHeld, KeysKept, Held
<1>6. FileComplete /\ GoneHasNoFile
  BY <1>1 DEF FileComplete, GoneHasNoFile, NoFile
<1>. QED BY <1>3, <1>4, <1>5, <1>6 DEF IInv

LEMMA NextIInv == ASSUME IInv, [Next]_vars PROVE IInv'
<1>1. CASE UNCHANGED vars
  BY <1>1 DEF vars, IInv, TypeOK, WorkUnderJob, NewIsIdle, NoOrphanPins, PinsArePresent,
              KeysKept, DoneIsHeld, CompleteHeld, FileComplete, GoneHasNoFile, Listed,
              Kept, Held
<1>2. CASE \E p \in Packs : Start(p) \/ Retry(p)
  BY <1>2, AttemptStep
<1>3. CASE \E p \in Packs : Run(p)
  BY <1>3, RunBeginStep, RunEndStep, JobStep DEF Run
<1>4. CASE \E p \in Packs : Stopped(p)
  BY <1>4, JobStep
<1>5. CASE \E p \in Packs : Delete(p)
  BY <1>5, DeleteStep
<1>6. CASE \E p \in Packs : Cleanup(p)
  BY <1>6, CleanupFileStep, CleanupKeyStep DEF Cleanup
<1>7. CASE \E p \in Packs, k \in Keys : Worker(p, k)
  BY <1>7, WorkerStep, UnfetchedStep, PinStep, AddKeyStep, ReleaseStep DEF Worker
<1>8. CASE \E k \in Keys : Store(k)
  BY <1>8, StoreStep
<1>9. CASE Restart
  <2>1. PICK S \in SUBSET Keys : RestartWith(S)
    BY <1>9 DEF Restart, IInv, TypeOK
  <2>. QED BY <2>1, RestartStep
<1>. QED BY <1>1, <1>2, <1>3, <1>4, <1>5, <1>6, <1>7, <1>8, <1>9 DEF Next

\* The inductive invariant holds in every reachable state.
THEOREM Invariance == Spec => []IInv
<1>. QED BY InitIInv, NextIInv, PTL DEF Spec

\* Every variable keeps to its type, and a listed pack has a manifest on disk.
THEOREM TypeCorrect == Spec => []TypeOK
<1>1. IInv => TypeOK
  BY DEF IInv
<1>. QED BY <1>1, Invariance, PTL

\* A pin always has a pack, a worker or a deletion that knows of it, or is one
\* whose release failed, or that a revalidation brought back.
THEOREM PinsOwned == Spec => []NoOrphanPins
<1>1. IInv => NoOrphanPins
  BY DEF IInv
<1>. QED BY <1>1, Invariance, PTL

\* A pack reported complete has every object it asked for, pinned, but for those
\* whose entry was removed or whose pin was overwritten since.
THEOREM CompleteKept == Spec => []CompleteIsWhole
<1>1. ASSUME IInv PROVE CompleteIsWhole
  <2>. SUFFICES ASSUME NEW p \in Listed, pack[p].state = "complete", NEW k \in Keys
                PROVE \/ k \in present /\ p \in pins[k]
                      \/ lapse[p][k] = "taken"
    BY DEF CompleteIsWhole
  <2>1. Held(p, k)
    BY <1>1 DEF IInv, CompleteHeld, Held
  <2>. QED BY <1>1, <2>1 DEF IInv, PinsArePresent, Held
<1>. QED BY <1>1, Invariance, PTL

\* A removed pack has no manifest a restart would bring back, and no pin but
\* one its last worker is about to release, one whose release failed, or one
\* that a revalidation brought back.
THEOREM RemovalFinal == Spec => []RemovedForGood
<1>1. ASSUME IInv PROVE RemovedForGood
  <2>. SUFFICES ASSUME NEW p \in Packs, pack[p].place = "gone"
                PROVE /\ file[p] = NoFile
                      /\ \A k \in Keys : p \in pins[k] =>
                            \/ work[p][k] \in {"pinned", "rejected"}
                            \/ lapse[p][k] = "left"
    BY DEF RemovedForGood
  <2>1. file[p] = NoFile
    BY <1>1 DEF IInv, GoneHasNoFile
  <2>2. p \notin Listed /\ cleanup[p] = {}
    BY <1>1 DEF IInv, TypeOK, Listed
  <2>. QED BY <1>1, <2>1, <2>2 DEF IInv, NoOrphanPins
<1>. QED BY <1>1, Invariance, PTL

\* packs.go, "A retry must never open a window in which its cached tiles can be
\* evicted": every object that a listed pack counts as its own is in the store
\* and pinned, but for the losses PinsHeld names.
THEOREM CountedIsHeld == Spec => []PinsHeld
<1>1. ASSUME IInv PROVE PinsHeld
  <2>. SUFFICES ASSUME NEW p \in Listed, NEW k \in pack[p].keys
                PROVE \/ k \in present /\ p \in pins[k]
                      \/ lapse[p][k] \in {"taken", "wiped"}
    BY DEF PinsHeld
  <2>1. k \in Keys
    BY <1>1 DEF IInv, TypeOK, Listed, Manifests
  <2>2. Kept(p, k)
    BY <1>1, <2>1 DEF IInv, KeysKept
  <2>. QED BY <1>1, <2>1, <2>2 DEF IInv, PinsArePresent, Kept, Held
<1>. QED BY <1>1, Invariance, PTL
=============================================================================
