--------------------------- MODULE RegionDownloads ---------------------------
(* Following a region's download in the page: useRegionDownloads.ts (the web   *)
(* manager), downloads.ts (the mobile app) and the start they share            *)
(* (startRegionDownload, prepareRegionRouting).                                *)
(*                                                                             *)
(* The server keeps one pack per area part; a retry keeps the pack's id, so a  *)
(* row here carries the attempt it reports.  The page polls the whole list:    *)
(* the server reads it when it is asked, the reply travels for any time, and   *)
(* replies are applied in any order.  A reply of the polling effect is dropped *)
(* once the effect was cleaned up; the plain refreshes of `start` and `run`    *)
(* never are.  A row is "active", "failed" (or incomplete), or "quiet": done,  *)
(* or stopped by the user, which is not news to them.                          *)
EXTENDS Naturals, Functions, SequencesExt

CONSTANTS
    Packs,          \* packs the area's parts map to
    MaxTries,       \* bound: attempts per pack
    Slots,          \* bound: list requests in flight (1 .. n)
    MaxStarts,      \* bound: downloads the user starts
    MaxToggles,     \* bound: times the manager is opened or closed
    MaxFaults       \* bound: refused starts and failed requests

VARIABLES
    hook,           \* "web" or "mobile": which of the two hooks runs
    watching,       \* the web manager is open
    server,         \* the server's packs, last updated first
    list,           \* packs: the page's copy
    net,            \* requests of the list by slot
    target,         \* packs of the download the page follows
    notified,       \* packs whose failure was reported, with the attempt that failed
    late,           \* history: packs the page was told an earlier attempt of
    step,           \* where startRegionDownload is: "idle" when it is not running
    todo,           \* parts not posted yet
    started,        \* packs the posts returned
    starts, toggles, faults     \* bounded counters

vars == <<hook, watching, server, list, net, target, notified, late, step, todo,
          started, starts, toggles, faults>>
startVars == <<step, todo, started, starts>>

Free == [busy |-> FALSE, poll |-> FALSE, rows |-> <<>>]
Ask(poll, rows) == [busy |-> TRUE, poll |-> poll, rows |-> rows]
Ids(rows) == {rows[i].id : i \in DOMAIN rows}
Row(rows, p) == CHOOSE r \in Range(rows) : r.id = p
Drop(rows, ids) == SelectSeq(rows, LAMBDA r : r.id \notin ids)
Saved(row) == <<row>> \o Drop(server, {row.id})
Active(rows) == {r \in Range(rows) : r.status = "active"}

(* The mobile hook polls as long as the app runs.                              *)
Polling(rows, open) == hook = "mobile" \/ open \/ Active(rows) # {}

(* As Followed, had the effect kept to the latest row.                         *)
FollowedLatest(rows, tgt) == {rows[i].id : i \in DOMAIN rows \cap {1}}

(* Packs whose failure the effect reports: every pack of the web's target, one *)
(* pack of the mobile's, the latest while a start is being resolved.           *)
Followed(rows, tgt) ==
    IF hook = "web" THEN Range(tgt)
    ELSE IF tgt # <<>> THEN {tgt[1]}
    ELSE {rows[i].id : i \in DOMAIN rows \cap {1}}

(* One commit of the component: the copies it sets, the polling effect when    *)
(* `polling` changed (abort, then ask at once), and the reporting effect.      *)
Commit(rows, open, tgt, noted, requests) ==
    LET news == {r \in Range(rows) : r.id \in Followed(rows, tgt) /\ r.status = "failed"
                                     /\ \A n \in noted : n.id # r.id}
        kept == [s \in Slots |-> IF requests[s].poll THEN Free ELSE requests[s]]
        slot == CHOOSE s \in Slots : ~kept[s].busy
    IN /\ list' = rows /\ watching' = open /\ target' = tgt
       /\ notified' = noted \cup {[id |-> r.id, try |-> r.try] : r \in news}
       /\ net' = IF Polling(rows, open) = Polling(list, watching) THEN requests
                 ELSE [kept EXCEPT ![slot] = Ask(TRUE, server)]

(* A plain refresh leaves one slot to the polling effect.                      *)
Asked(poll, rows) ==
    LET free == {s \in Slots : ~net[s].busy}
    IN IF free = {} \/ (~poll /\ \E s \in Slots : net[s].busy /\ ~net[s].poll) THEN net
       ELSE [net EXCEPT ![CHOOSE s \in free : TRUE] = Ask(poll, rows)]

Init ==
    /\ hook \in {"web", "mobile"}
    /\ \E known \in SUBSET Packs :
          server = SetToSeq({[id |-> p, try |-> 1, status |-> "failed"] : p \in known})
    /\ watching = (hook = "mobile")
    /\ list = <<>> /\ target = <<>> /\ notified = {} /\ late = {}
    /\ net = [s \in Slots |-> IF s = 1 THEN [busy |-> TRUE, poll |-> TRUE, rows |-> server] ELSE Free]
    /\ step = "idle" /\ todo = <<>> /\ started = <<>> /\ starts = 0
    /\ toggles = 0 /\ faults = 0

-----------------------------------------------------------------------------
(* The list requests.                                                          *)
(* As Tick, had the timer looked at the packs and not at the manager.          *)
TickWhileActive ==
    /\ Active(list) # {}
    /\ Asked(TRUE, server) # net
    /\ net' = Asked(TRUE, server)
    /\ UNCHANGED <<hook, watching, server, list, target, notified, late, startVars, toggles, faults>>

Tick ==
    /\ Polling(list, watching)
    /\ Asked(TRUE, server) # net
    /\ net' = Asked(TRUE, server)
    /\ UNCHANGED <<hook, watching, server, list, target, notified, late, startVars, toggles, faults>>

(* Packs the page knows a later attempt of.                                    *)
Outdated(rows) == {r.id : r \in {q \in Range(rows) :
                              \E l \in Range(list) : l.id = q.id /\ l.try > q.try}}

Deliver(s) ==
    /\ net[s].busy
    /\ Commit(net[s].rows, watching, target, notified, [net EXCEPT ![s] = Free])
    /\ late' = late \cup Outdated(net[s].rows)
    /\ UNCHANGED <<hook, server, startVars, toggles, faults>>

RequestFails(s) ==
    /\ net[s].busy /\ faults < MaxFaults
    /\ net' = [net EXCEPT ![s] = Free]
    /\ faults' = faults + 1
    /\ UNCHANGED <<hook, watching, server, list, target, notified, late, startVars, toggles>>

Toggle ==
    /\ hook = "web" /\ toggles < MaxToggles
    /\ toggles' = toggles + 1
    /\ Commit(list, ~watching, target, notified, net)
    /\ UNCHANGED <<hook, server, late, startVars, faults>>

-----------------------------------------------------------------------------
(* start: resolve the region, plan the parts, prepare routing, post each part. *)
Start(parts) ==
    /\ step = "idle" /\ starts < MaxStarts
    /\ \A p \in parts \cap Ids(server) : Row(server, p).try < MaxTries
    /\ step' = "resolving" /\ todo' = SetToSeq(parts) /\ started' = <<>>
    /\ starts' = starts + 1
    /\ Commit(list, watching, <<>>, notified, net)
    /\ UNCHANGED <<hook, server, late, toggles, faults>>

(* The catch: the error is shown, and only the web's and the mobile's finally  *)
(* (a refresh of the routing status by the caller) follows.                    *)
StartFails ==
    /\ step' = "idle" /\ todo' = <<>> /\ started' = <<>>
    /\ UNCHANGED <<watching, server, list, net, target, notified, late, starts>>

(* Resolving the region and planning the parts ask the backend; either may     *)
(* refuse.  hooks.resolved clears the packs of the target as `start` did.      *)
Refused ==
    /\ step = "resolving" /\ faults < MaxFaults
    /\ StartFails /\ faults' = faults + 1
    /\ UNCHANGED <<hook, toggles>>

Planned ==
    /\ step = "resolving" /\ step' \in {"routing", "posting"}
    /\ UNCHANGED <<hook, watching, server, list, net, target, notified, late, todo, started, starts, toggles, faults>>

(* The server refuses a preparation while another runs: one of the same region *)
(* is shared, one of another region ends the start.                            *)
PrepareRegionRouting ==
    /\ step = "routing"
    /\ \E running \in {"none", "same region", "other region"} :
          IF running = "other region" THEN StartFails
          ELSE /\ step' = "posting"
               /\ UNCHANGED <<watching, server, list, net, target, notified, late, todo, started, starts>>
    /\ UNCHANGED <<hook, toggles, faults>>

Post ==
    /\ step = "posting" /\ todo # <<>>
    /\ LET p == Head(todo)
           row == [id |-> p, status |-> "active",
                   try |-> IF p \in Ids(server) THEN Row(server, p).try + 1 ELSE 1]
       IN \/ server' = Saved(row) /\ started' = Append(started, row) /\ UNCHANGED faults
          \/ faults < MaxFaults /\ faults' = faults + 1 /\ UNCHANGED <<server, started>>
    /\ todo' = Tail(todo)
    /\ UNCHANGED <<hook, watching, list, net, target, notified, late, step, starts, toggles>>

(* The returned packs replace their old rows, and may be reported again.       *)
Begun ==
    /\ step = "posting" /\ todo = <<>>
    /\ IF started = <<>> THEN StartFails
       ELSE LET ids == Ids(started)
                following == IF hook = "web" THEN started ELSE <<started[1]>>
            IN /\ Commit(following \o Drop(list, Ids(following)), watching,
                         [i \in DOMAIN started |-> started[i].id],
                         {n \in notified : n.id \notin Ids(following)}, Asked(FALSE, server))
               /\ late' = late \ Ids(started)
               /\ step' = "idle" /\ todo' = <<>> /\ started' = <<>>
               /\ UNCHANGED <<server, starts>>
    /\ UNCHANGED <<hook, toggles, faults>>

-----------------------------------------------------------------------------
(* run: one pack is stopped or removed, or all are stopped; whatever came of   *)
(* it the web reads the list again, the mobile app waits for its timer.        *)
Ran == net' = IF hook = "web" THEN Asked(FALSE, server') ELSE net

StopPack(p) ==
    /\ \E r \in Active(list) : r.id = p
    /\ \E r \in Active(server) : r.id = p
    /\ server' = Saved([Row(server, p) EXCEPT !.status = "quiet"])
    /\ Ran
    /\ UNCHANGED <<hook, watching, list, target, notified, late, startVars, toggles, faults>>

StopAll ==
    /\ Active(list) # {}
    /\ LET asked == {r.id : r \in Active(list)}
       IN server' = [i \in DOMAIN server |->
             IF server[i].id \in asked /\ server[i].status = "active"
             THEN [server[i] EXCEPT !.status = "quiet"] ELSE server[i]]
    /\ Ran
    /\ UNCHANGED <<hook, watching, list, target, notified, late, startVars, toggles, faults>>

RemovePack(p) ==
    /\ hook = "web" /\ p \in Ids(list) \cap Ids(server)
    /\ Row(server, p).try = MaxTries        \* bound: a removed pack is not started anew
    /\ server' = Drop(server, {p})
    /\ Ran
    /\ UNCHANGED <<hook, watching, list, target, notified, late, startVars, toggles, faults>>

-----------------------------------------------------------------------------
(* The server works on.                                                        *)
PackEnds(p, status) ==
    /\ \E r \in Active(server) : r.id = p
    /\ server' = Saved([Row(server, p) EXCEPT !.status = status])
    /\ UNCHANGED <<hook, watching, list, net, target, notified, late, startVars, toggles, faults>>

Next ==
    \/ Tick \/ Toggle \/ Refused \/ Planned \/ PrepareRegionRouting \/ Post \/ Begun
    \/ StopAll
    \/ \E s \in Slots : Deliver(s) \/ RequestFails(s)
    \/ \E parts \in SUBSET Packs \ {{}} : Start(parts)
    \/ \E p \in Packs : StopPack(p) \/ RemovePack(p)
    \/ \E p \in Packs, status \in {"quiet", "failed"} : PackEnds(p, status)

(* The timer keeps firing, the server answers, and replies are applied.        *)
Fairness ==
    /\ WF_vars(Tick)
    /\ \A s \in Slots : WF_vars(Deliver(s))
    /\ WF_vars(Planned) /\ WF_vars(PrepareRegionRouting)
    /\ WF_vars(Post) /\ WF_vars(Begun)

Spec == Init /\ [][Next]_vars /\ Fairness

-----------------------------------------------------------------------------
(* A manager that goes on polling ends up with the server's list, whatever     *)
(* replies came late, failed or were overtaken by another answer.              *)
Converges == <>[]Polling(list, watching) => <>[](list = server)

(* The failure of the attempt that this download started is reported: what was *)
(* reported of the pack before does not count for it.  Left out is a pack the  *)
(* page was told an earlier attempt of, by a list that was read before the     *)
(* start and applied after it: the old failure is then reported a second time  *)
(* and the new one is not.                                                     *)
FailureHeard ==
    \A p \in Packs :
        <>[](/\ IF hook = "web" THEN p \in Range(target)
                ELSE target # <<>> /\ target[1] = p
             /\ Polling(list, watching)
             /\ p \in Ids(server) /\ Row(server, p).status = "failed"
             /\ p \notin late)
        => <>[](/\ p \in Ids(server)
                /\ [id |-> p, try |-> Row(server, p).try] \in notified)

=============================================================================
