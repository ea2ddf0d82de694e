---------------------------- MODULE OfflineMode ----------------------------
(***************************************************************************)
(* The offlineModeController of internal/server/provider.go and its HTTP   *)
(* handler in internal/server/offline.go.  Client goroutines toggle the    *)
(* mode through POST /offline/mode; fetch goroutines take a network        *)
(* context for the time of one transfer.  Every action is one critical     *)
(* section of the controller's mutex; cond.Wait gives the mutex up, so a   *)
(* drain is several critical sections with anything in between.            *)
(*                                                                         *)
(* A network generation is a cancellable context.  It has no identity      *)
(* here: one is replaced only after it was cancelled, so the transfers     *)
(* that belong to the live one are exactly those in state "running".       *)
(***************************************************************************)
EXTENDS Integers, FiniteSets

CONSTANTS Clients,  \* management requests that may be in flight together
          Fetches   \* goroutines that may hold a network context together

ASSUME FetchesFinite == IsFiniteSet(Fetches)

VARIABLES configured,  \* OFFLINE_MODE at startup
          current,     \* what mode() answers
          generation,  \* "none" stands for a nil context
          active,      \* the counter the drain waits on
          fetch,       \* per fetch: "idle", "running", "cancelled"
          pc,          \* per client: where its request is
          request,     \* per client: the mode it asks for
          changed      \* per client: what set() returned

modeVars == <<configured, current, generation, active, fetch, pc, request, changed>>
clientVars == <<pc, request, changed>>

Modes == {"auto", "cache-only"}
Generations == {"none", "live", "cancelled"}
FetchStates == {"idle", "running", "cancelled"}
ClientStates == {"idle", "called", "waiting", "woken", "report"}

\* Transfers that hold a network context, cancelled or not.
InFlight == {f \in Fetches : fetch[f] # "idle"}

ModeInit == /\ configured \in Modes
            /\ current = configured
            /\ generation = (IF configured = "auto" THEN "live" ELSE "none")
            /\ active = 0
            /\ fetch = [f \in Fetches |-> "idle"]
            /\ pc = [c \in Clients |-> "idle"]
            /\ request = [c \in Clients |-> "auto"]
            /\ changed = [c \in Clients |-> FALSE]

-----------------------------------------------------------------------------
(* The management request *)

\* handleOfflineMode decodes a body that names one of the two modes.
Call(c) == /\ pc[c] = "idle"
           /\ \E m \in Modes : request' = [request EXCEPT ![c] = m]
           /\ pc' = [pc EXCEPT ![c] = "called"]
           /\ UNCHANGED <<configured, current, generation, active, fetch, changed>>

Return(c, isChanged) == /\ pc' = [pc EXCEPT ![c] = "report"]
                        /\ changed' = [changed EXCEPT ![c] = isChanged]

Refused(c) == request[c] = "auto" /\ configured = "cache-only"

\* The startup mode wins: 409 Conflict, no state touched.
SetRefused(c) == /\ pc[c] = "called"
                 /\ Refused(c)
                 /\ pc' = [pc EXCEPT ![c] = "idle"]
                 /\ UNCHANGED <<configured, current, generation, active, fetch,
                                request, changed>>

SetUnchanged(c) == /\ pc[c] = "called"
                   /\ ~Refused(c)
                   /\ current = request[c]
                   /\ Return(c, FALSE)
                   /\ UNCHANGED <<configured, current, generation, active,
                                  fetch, request>>

\* cancel() reaches every transfer derived from the generation.
CancelGeneration(g) == IF g = "none" THEN fetch
                       ELSE [f \in Fetches |-> IF fetch[f] = "running"
                                               THEN "cancelled" ELSE fetch[f]]

\* Up to the first look at c.active: either nothing is in flight and set()
\* returns, or the goroutine parks in cond.Wait.
SetOffline(c) ==
    /\ pc[c] = "called"
    /\ request[c] = "cache-only"
    /\ current = "auto"
    /\ current' = "cache-only"
    /\ fetch' = CancelGeneration(generation)
    /\ IF active = 0
       THEN /\ generation' = "none"
            /\ Return(c, TRUE)
       ELSE /\ generation' = (IF generation = "none" THEN "none" ELSE "cancelled")
            /\ pc' = [pc EXCEPT ![c] = "waiting"]
            /\ UNCHANGED changed
    /\ UNCHANGED <<configured, active, request>>

\* Mutant: "if" for "for" around cond.Wait.
DrainedOnce == TRUE

\* cond.Wait returned: the loop looks at c.active again.
Drained == active = 0

ResumeDrain(c) == /\ pc[c] = "woken"
                  /\ ~Drained
                  /\ pc' = [pc EXCEPT ![c] = "waiting"]
                  /\ UNCHANGED <<configured, current, generation, active, fetch,
                                 request, changed>>

FinishDrain(c) == /\ pc[c] = "woken"
                  /\ Drained
                  /\ generation' = "none"
                  /\ Return(c, TRUE)
                  /\ UNCHANGED <<configured, current, active, fetch, request>>

SetOnline(c) == /\ pc[c] = "called"
                /\ request[c] = "auto"
                /\ ~Refused(c)
                /\ current = "cache-only"
                /\ generation' = "live"
                /\ current' = "auto"
                /\ Return(c, TRUE)
                /\ UNCHANGED <<configured, active, fetch, request>>

\* The response is written.
Report(c) == /\ pc[c] = "report"
             /\ pc' = [pc EXCEPT ![c] = "idle"]
             /\ UNCHANGED <<configured, current, generation, active, fetch,
                            request, changed>>

-----------------------------------------------------------------------------
(* The transfers *)

\* Mutant: only the generation is tested, which a drain leaves in place.
AdmitsDraining == generation # "none"

Admits == current # "cache-only" /\ generation # "none"

\* networkContext: the parent may be cancelled already, which cancels the new
\* context but counts it all the same.
NetworkContext(f) == /\ fetch[f] = "idle"
                     /\ Admits
                     /\ \E s \in {"running", "cancelled"} :
                            fetch' = [fetch EXCEPT ![f] = s]
                     /\ active' = active + 1
                     /\ UNCHANGED <<configured, current, generation, clientVars>>

\* context.AfterFunc(parent, cancel): the caller went away or timed out.
ParentDone(f) == /\ fetch[f] = "running"
                 /\ fetch' = [fetch EXCEPT ![f] = "cancelled"]
                 /\ UNCHANGED <<configured, current, generation, active, clientVars>>

\* Mutant: cond.Signal() for cond.Broadcast().
BroadcastToOne == LET waiting == {c \in Clients : pc[c] = "waiting"} IN
                  IF waiting = {} THEN pc
                  ELSE [pc EXCEPT ![CHOOSE c \in waiting : TRUE] = "woken"]

\* cond.Broadcast() wakes every parked client.
Broadcast == [c \in Clients |-> IF pc[c] = "waiting" THEN "woken" ELSE pc[c]]

\* once.Do: the second call of a release does nothing.
Holds(f) == fetch[f] # "idle"

Release(f) == /\ Holds(f)
              /\ fetch' = [fetch EXCEPT ![f] = "idle"]
              /\ active' = active - 1
              /\ pc' = Broadcast
              /\ UNCHANGED <<configured, current, generation, request, changed>>

-----------------------------------------------------------------------------
Set(c) == \/ SetRefused(c) \/ SetUnchanged(c) \/ SetOffline(c) \/ SetOnline(c)
          \/ ResumeDrain(c) \/ FinishDrain(c)

ModeNext == \/ \E c \in Clients : Call(c) \/ Set(c) \/ Report(c)
            \/ \E f \in Fetches : NetworkContext(f) \/ ParentDone(f) \/ Release(f)

ModeSpec == ModeInit /\ [][ModeNext]_modeVars

\* A scheduled goroutine inside set() runs on, and a transfer always ends: it
\* watches its context and every policy has a fetch timeout.
Fairness == /\ \A c \in Clients : WF_modeVars(Set(c))
            /\ \A f \in Fetches : WF_modeVars(Release(f))

FairSpec == ModeSpec /\ Fairness

-----------------------------------------------------------------------------
ModeTypeOK == /\ configured \in Modes
              /\ current \in Modes
              /\ generation \in Generations
              /\ active \in Nat
              /\ fetch \in [Fetches -> FetchStates]
              /\ pc \in [Clients -> ClientStates]
              /\ request \in [Clients -> Modes]
              /\ changed \in [Clients -> BOOLEAN]

\* The counter a drain waits on counts the transfers that hold a context, so
\* a drain neither ends early nor waits for a transfer that is gone.
ActiveAgrees == active = Cardinality(InFlight)

\* No wake-up is lost: a parked client has a transfer whose release will
\* broadcast to it (provider.go tests c.active and parks under one lock).
NoLostWakeup == (\E c \in Clients : pc[c] = "waiting") => InFlight # {}

\* Offline, nothing but cancelled transfers are left on the network, however
\* many clients toggled the mode before (ARCHITECTURE.md, offline mode).
OfflineIsCancelled == current = "cache-only" => \A f \in Fetches : fetch[f] # "running"

\* A step in which a client's own switch to cache-only is answered.
SwitchedOff(c) == /\ pc[c] # "report" /\ pc'[c] = "report"
                  /\ request[c] = "cache-only" /\ changed'[c]

\* set("cache-only") returns success only at an instant with no transfer in
\* flight: its own, or one begun after somebody else went online again.
DrainedBeforeReturn == [][\A c \in Clients : SwitchedOff(c) => InFlight = {}]_modeVars

\* A server started with OFFLINE_MODE=cache-only never opens a transfer,
\* whatever its clients ask for.
StartupPolicy == configured = "cache-only" => current = "cache-only" /\ InFlight = {}

\* docs/OFFLINE.md: "Go online creates a new network generation".  Whenever the
\* mode reads auto there is a live generation for transfers to start under.
OnlineHasGeneration == current = "auto" => generation = "live"

\* Switching offline ends: once nobody goes online any more, every parked client
\* is answered, whoever toggled the mode before.
SwitchTerminates == <>[](current = "cache-only") =>
                        \A c \in Clients : pc[c] = "waiting" ~> pc[c] = "report"

\* The refinement of the promise.
Gate == INSTANCE NetworkGate WITH
            mode <- current,
            running <- InFlight,
            asked <- {c \in Clients : pc[c] \in {"waiting", "woken"}}

\* The controller implements NetworkGate.
GateSpec == Gate!Spec

=============================================================================
