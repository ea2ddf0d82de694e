---------------------------- MODULE NetworkGate ----------------------------
(***************************************************************************)
(* What the runtime offline switch promises to its users, with nothing of  *)
(* how internal/server/provider.go keeps the promise:                      *)
(*   - a transfer starts only while the mode is "auto";                    *)
(*   - a switch to "cache-only" that changed the mode is acknowledged only *)
(*     at an instant at which no transfer is running.                      *)
(* Transfers end by themselves at any time, and the mode may change at any *)
(* time, also while another switch is unacknowledged.                      *)
(***************************************************************************)
CONSTANTS Clients, Fetches

VARIABLES mode,     \* what the gate lets through
          running,  \* transfers that hold a network context
          asked     \* clients whose switch to "cache-only" is unacknowledged

gateVars == <<mode, running, asked>>

Init == /\ mode \in {"auto", "cache-only"}
        /\ running = {}
        /\ asked = {}

StartTransfer(f) == /\ mode = "auto"
                    /\ running' = running \union {f}
                    /\ UNCHANGED <<mode, asked>>

EndTransfer(f) == /\ running' = running \ {f}
                  /\ UNCHANGED <<mode, asked>>

GoOffline(c) == /\ mode = "auto"
                /\ mode' = "cache-only"
                /\ asked' = IF running = {} THEN asked ELSE asked \union {c}
                /\ UNCHANGED running

AcknowledgeOffline(c) == /\ c \in asked
                         /\ running = {}
                         /\ asked' = asked \ {c}
                         /\ UNCHANGED <<mode, running>>

GoOnline == /\ mode' = "auto"
            /\ UNCHANGED <<running, asked>>

Next == \/ \E f \in Fetches : StartTransfer(f) \/ EndTransfer(f)
        \/ \E c \in Clients : GoOffline(c) \/ AcknowledgeOffline(c)
        \/ GoOnline

Spec == Init /\ [][Next]_gateVars
=============================================================================
