------------------------------ MODULE McpBridge ------------------------------
(***************************************************************************)
(* The broker between agents and the open page (internal/mcp/bridge.go)    *)
(* and the page's side of it (src/useMcpBridge.ts).  An agent's call is    *)
(* queued for a view, streamed to the page of that view, applied, the      *)
(* page's new state is published, and the result is posted back.           *)
(*                                                                         *)
(* Every broker action is one critical section of Bridge.mu together with  *)
(* the wake-up that follows it.  Which of several fresh views a call goes  *)
(* to is left open.  Calls are numbered in the order they are queued, and  *)
(* a snapshot is the number of commands the page had applied.              *)
(***************************************************************************)
EXTENDS Integers, FiniteSets, SequencesExt

CONSTANTS Views,       \* pages; each draws a view ID of its own
          Streams,     \* event stream handlers: maxCommandStreams of them
          MaxQueued,   \* maxQueuedCommands
          MaxViews,    \* maxBrowserViews
          MaxTracked,  \* MAX_TRACKED_COMMANDS
          Throttled,   \* a page may stay silent for longer than viewStaleAfter
          MaxCalls, MaxBeats, MaxBreaks, MaxLosses  \* bounds on what happens

ASSUME McpBridgeAssumption == /\ IsFiniteSet(Streams)
                              /\ MaxQueued \in Nat \ {0} /\ MaxViews \in Nat \ {0}
                              /\ MaxTracked \in Nat \ {0} /\ Throttled \in BOOLEAN
                              /\ {MaxCalls, MaxBeats, MaxBreaks, MaxLosses} \subseteq Nat

VARIABLES view,    \* per page: NoView or the broker's browserView
          token,   \* per page: view.notify holds a wake-up
          status,  \* per call: "new", "pending", "answered", "ended"
          target,  \* per call: the view it was queued for
          stream,  \* per handler of GET /events
          page,    \* per page: what the hook holds
          net,     \* per page: publishes on their way
          unseen,  \* ghost: calls answered for without a publish
          beats, breaks, losses, closed

brokerVars == <<view, token, status, target>>
boundVars == <<beats, breaks, losses>>
vars == <<brokerVars, stream, page, net, unseen, boundVars, closed>>

Calls == 1 .. MaxCalls

NoView == [seq |-> 0, snap |-> 0, queue |-> <<>>, fresh |-> FALSE]
NoStream(v) == [at |-> "closed", view |-> v, own |-> FALSE, head |-> 0,
                delivered |-> 0, alive |-> FALSE]

Known(v) == view[v] # NoView
Pending(v) == {c \in Calls : status[c] = "pending" /\ target[c] = v}

\* pruneViewsLocked: silent for too long, and nobody waits for its answer.
Prunable(v) == Known(v) /\ ~view[v].fresh /\ Pending(v) = {}

\* What is left after it.  A handler keeps the browserView it began with, and
\* with it a notify channel that nobody wakes any more.
Pruned == [v \in Views |-> IF Prunable(v) THEN NoView ELSE view[v]]
PrunedTokens == [v \in Views |-> token[v] /\ ~Prunable(v)]
Detached == [s \in Streams |-> [stream[s] EXCEPT !.own = @ /\ ~Prunable(stream[s].view)]]

-----------------------------------------------------------------------------
(* Call, ActiveSnapshot, removePending, Close *)

NextID == 1 + Cardinality({c \in Calls : status[c] # "new"})

HasRoom(v) == Len(view[v].queue) < MaxQueued

Call(c, v) == /\ ~closed
              /\ c = NextID
              /\ view[v].fresh
              /\ HasRoom(v)
              /\ status' = [status EXCEPT ![c] = "pending"]
              /\ target' = [target EXCEPT ![c] = v]
              /\ view' = [Pruned EXCEPT ![v].queue = Append(@, c)]
              /\ token' = [PrunedTokens EXCEPT ![v] = TRUE]
              /\ stream' = Detached
              /\ UNCHANGED <<page, net, unseen, boundVars, closed>>

\* A look at the views that queues nothing: ActiveSnapshot, or a refused Call.
Look == /\ ~closed
        /\ \E v \in Views : Prunable(v)
        /\ view' = Pruned
        /\ token' = PrunedTokens
        /\ stream' = Detached
        /\ UNCHANGED <<status, target, page, net, unseen, boundVars, closed>>

\* The queue without the first place of a command.
Without(q, c) == IF c \in ToSet(q) THEN RemoveAt(q, CHOOSE i \in DOMAIN q : q[i] = c /\ \A j \in 1 .. i - 1 : q[j] # c)
                 ELSE q

\* Mutant: what is behind the command is not announced.
LeavesSilently(c) == /\ view' = [view EXCEPT ![target[c]].queue = Without(@, c)]
                     /\ UNCHANGED token

\* The command leaves its view's queue, and the stream is woken for the next.
Leaves(c) == /\ view' = [view EXCEPT ![target[c]].queue = Without(@, c)]
             /\ token' = [token EXCEPT ![target[c]] = TRUE]

\* The agent's request is cancelled or times out.
Abandon(c) == /\ status[c] = "pending"
              /\ status' = [status EXCEPT ![c] = "ended"]
              /\ Leaves(c)
              /\ UNCHANGED <<target, stream, page, net, unseen, boundVars, closed>>

Close == /\ ~closed
         /\ closed' = TRUE
         /\ view' = [v \in Views |-> NoView]
         /\ token' = [v \in Views |-> FALSE]
         /\ status' = [c \in Calls |-> IF status[c] = "pending" THEN "ended" ELSE status[c]]
         /\ stream' = [s \in Streams |-> [stream[s] EXCEPT !.own = FALSE]]
         /\ UNCHANGED <<target, page, net, unseen, boundVars>>

-----------------------------------------------------------------------------
(* publishView and handleView *)

\* The page's state goes out under the next sequence number.
Published(v, p) == LET n == page[v].seq + 1 IN
                   /\ page' = [page EXCEPT ![v] = [p EXCEPT !.seq = n]]
                   /\ net' = [net EXCEPT ![v] = @ \union {[seq |-> n, snap |-> Len(p.log)]}]

\* The heartbeat, or a change of focus.
Heartbeat(v) == /\ beats < MaxBeats
                /\ beats' = beats + 1
                /\ Published(v, page[v])
                /\ UNCHANGED <<brokerVars, stream, unseen, breaks, losses, closed>>

\* Mutant: publishes are taken in the order they arrive.
NewerAlways(v, m) == TRUE

\* "update.Sequence <= view.sequence" is answered like a success.
Newer(v, m) == m.seq > view[v].seq

Refuses(v) == Pruned[v] = NoView /\ Cardinality({w \in Views : Pruned[w] # NoView}) >= MaxViews

\* The publish that the page waits for has been answered.
PublishAnswered(v, m) ==
    IF page[v].at = "publishing" /\ page[v].await = m.seq
    THEN [page EXCEPT ![v].at = "submitting"] ELSE page

HandleView(v, m) ==
    /\ ~closed
    /\ m \in net[v]
    /\ net' = [net EXCEPT ![v] = @ \ {m}]
    /\ token' = PrunedTokens
    /\ stream' = Detached
    /\ \/ /\ Refuses(v)
          /\ view' = Pruned
          /\ UNCHANGED page
       \/ /\ ~Refuses(v)
          /\ view' = IF Pruned[v] = NoView \/ Newer(v, m)
                     THEN [Pruned EXCEPT ![v] = [seq |-> m.seq, snap |-> m.snap,
                                                 queue |-> @.queue, fresh |-> TRUE]]
                     ELSE Pruned
          /\ page' = PublishAnswered(v, m)
    /\ UNCHANGED <<status, target, unseen, boundVars, closed>>

\* viewStaleAfter passes without a publish.
GoesStale(v) == /\ Throttled
                /\ view[v].fresh
                /\ view' = [view EXCEPT ![v].fresh = FALSE]
                /\ UNCHANGED <<token, status, target, stream, page, net, unseen, boundVars, closed>>

-----------------------------------------------------------------------------
(* handleEvents *)

Attached(v) == \E s \in Streams : stream[s].view = v /\ stream[s].alive

\* EventSource connects, or connects again.
Open(s, v) == /\ ~closed
              /\ stream[s].at = "closed"
              /\ Known(v)
              /\ ~Attached(v)
              /\ stream' = [stream EXCEPT ![s] = [NoStream(v) EXCEPT !.at = "reading",
                                                         !.own = TRUE, !.alive = TRUE]]
              /\ UNCHANGED <<brokerVars, page, net, unseen, boundVars, closed>>

StreamStep(s, r) == /\ stream' = [stream EXCEPT ![s] = r]
                    /\ UNCHANGED <<brokerVars, net, unseen, boundVars, closed>>

\* headCommand: what the stream is to do next.
Peek(s) ==
    /\ stream[s].at = "reading"
    /\ LET v == stream[s].view
           q == view[v].queue
       IN  StreamStep(s, IF ~Known(v) THEN NoStream(v)
                         ELSE IF q # <<>> /\ Head(q) # stream[s].delivered
                              THEN [stream[s] EXCEPT !.at = "writing", !.head = Head(q)]
                              ELSE [stream[s] EXCEPT !.at = "waiting"])
    /\ UNCHANGED page

\* The command is written; on a connection that is gone it is lost.
Write(s) ==
    /\ stream[s].at = "writing"
    /\ StreamStep(s, [stream[s] EXCEPT !.at = "waiting", !.delivered = stream[s].head])
    /\ page' = IF stream[s].alive
               THEN [page EXCEPT ![stream[s].view].inbox = Append(@, stream[s].head)]
               ELSE page

Wake(s) == /\ stream[s].at = "waiting"
           /\ stream[s].own /\ token[stream[s].view]
           /\ stream' = [stream EXCEPT ![s].at = "reading"]
           /\ token' = [token EXCEPT ![stream[s].view] = FALSE]
           /\ UNCHANGED <<view, status, target, page, net, unseen, boundVars, closed>>

\* Mutant: the keep-alive is written and nothing else.
TickOnly(s) == /\ stream[s].at = "waiting"
               /\ StreamStep(s, stream[s])
               /\ UNCHANGED page

\* The keep-alive timer: the stream looks at the queue again as well.
Tick(s) == /\ stream[s].at = "waiting"
           /\ StreamStep(s, [stream[s] EXCEPT !.at = "reading"])
           /\ UNCHANGED page

\* The handler notices that its client or the bridge is gone.
Gone(s) == /\ stream[s].at \in {"waiting", "writing"}
           /\ ~stream[s].alive \/ closed
           /\ StreamStep(s, NoStream(stream[s].view))
           /\ UNCHANGED page

\* The connection breaks on the page's side.
Break(s) == /\ stream[s].alive
            /\ breaks < MaxBreaks
            /\ breaks' = breaks + 1
            /\ stream' = [stream EXCEPT ![s].alive = FALSE]
            /\ UNCHANGED <<brokerVars, page, net, unseen, beats, losses, closed>>

-----------------------------------------------------------------------------
(* handle, publishSnapshot, submitResult and handleResult *)

Loses == losses < MaxLosses /\ losses' = losses + 1 /\ UNCHANGED <<beats, breaks>>

\* Mutant: a command that arrives again is run again.
IsRedeliveryNever(v) == FALSE

\* Commands are taken one at a time from the promise queue.
IsRedelivery(v) == Head(page[v].inbox) \in ToSet(page[v].tracked)

HasNext(v) == page[v].at = "idle" /\ page[v].inbox # <<>>

\* deliveries is bounded: the oldest is forgotten.
Tracked(seq, c) == IF Len(seq) < MaxTracked THEN Append(seq, c) ELSE Append(Tail(seq), c)

\* A command runs.  Done, the page publishes before it answers; failed, it
\* answers at once.
Applied(v, at) == LET c == Head(page[v].inbox) IN
    [page[v] EXCEPT !.at = at, !.cur = c, !.await = page[v].seq + 1,
                    !.inbox = Tail(@), !.log = Append(@, c),
                    !.tracked = Tracked(@, c), !.unsent = @ \union {c}]

Apply(v) == /\ HasNext(v) /\ ~IsRedelivery(v)
            /\ Published(v, Applied(v, "publishing"))
            /\ UNCHANGED <<brokerVars, stream, unseen, boundVars, closed>>

ApplyFails(v) == /\ HasNext(v) /\ ~IsRedelivery(v)
                 /\ page' = [page EXCEPT ![v] = Applied(v, "submitting")]
                 /\ unseen' = unseen \union {Head(page[v].inbox)}
                 /\ UNCHANGED <<brokerVars, stream, net, boundVars, closed>>

\* Of a command seen before only the result is sent again, if it never arrived.
Replay(v) == /\ HasNext(v) /\ IsRedelivery(v)
             /\ LET c == Head(page[v].inbox) IN
                page' = [page EXCEPT ![v].inbox = Tail(@),
                                     ![v].at = IF c \in page[v].unsent THEN "submitting" ELSE @,
                                     ![v].cur = c]
             /\ UNCHANGED <<brokerVars, stream, net, unseen, boundVars, closed>>

Unanswered(v) == \A m \in net[v] : m.seq # page[v].await

\* The publish failed or takes too long: once more, or not at all.
PublishAgain(v) == /\ page[v].at = "publishing"
                   /\ Loses
                   /\ Published(v, [page[v] EXCEPT !.await = page[v].seq + 1])
                   /\ UNCHANGED <<brokerVars, stream, unseen, closed>>

PublishGivesUp(v) == /\ page[v].at = "publishing"
                     /\ (Unanswered(v) /\ UNCHANGED boundVars) \/ Loses
                     /\ page' = [page EXCEPT ![v].at = "submitting"]
                     /\ unseen' = unseen \union {page[v].cur}
                     /\ UNCHANGED <<brokerVars, stream, net, closed>>

\* handleResult: only for the view the command was queued for, and only once.
HandleResult(v) == LET c == page[v].cur IN
    IF c \in Pending(v)
    THEN /\ status' = [status EXCEPT ![c] = "answered"]
         /\ Leaves(c)
         /\ UNCHANGED target
    ELSE UNCHANGED brokerVars

Submit(v) == /\ ~closed
             /\ page[v].at = "submitting"
             /\ HandleResult(v)
             /\ page' = [page EXCEPT ![v].at = "idle", ![v].unsent = @ \ {page[v].cur}]
             /\ UNCHANGED <<stream, net, unseen, boundVars, closed>>

\* The broker took the result and its answer is lost: it is posted again.
SubmitUnanswered(v) == /\ ~closed
                       /\ page[v].at = "submitting"
                       /\ Loses
                       /\ HandleResult(v)
                       /\ UNCHANGED <<stream, page, net, unseen, closed>>

\* MAX_RESULT_ATTEMPTS failed: the result waits for a redelivery.
SubmitGivesUp(v) == /\ page[v].at = "submitting"
                    /\ (closed /\ UNCHANGED boundVars) \/ Loses
                    /\ page' = [page EXCEPT ![v].at = "idle"]
                    /\ UNCHANGED <<brokerVars, stream, net, unseen, closed>>

-----------------------------------------------------------------------------
Init == /\ view = [v \in Views |-> NoView]
        /\ token = [v \in Views |-> FALSE]
        /\ status = [c \in Calls |-> "new"]
        /\ target \in {[c \in Calls |-> v] : v \in Views}
        /\ stream \in {[s \in Streams |-> NoStream(v)] : v \in Views}
        /\ page = [v \in Views |-> [at |-> "idle", cur |-> 0, seq |-> 0, await |-> 0,
                                    inbox |-> <<>>, log |-> <<>>, tracked |-> <<>>,
                                    unsent |-> {}]]
        /\ net = [v \in Views |-> {}]
        /\ unseen = {}
        /\ beats = 0 /\ breaks = 0 /\ losses = 0
        /\ closed = FALSE

\* The steps of the hook, and those of a handler that are taken by themselves.
Hook(v) == \/ Apply(v) \/ ApplyFails(v) \/ Replay(v) \/ Submit(v) \/ SubmitGivesUp(v)
           \/ PublishGivesUp(v)

Handler(s) == Peek(s) \/ Write(s) \/ Wake(s) \/ Gone(s)

Next == \/ \E c \in Calls : Abandon(c) \/ \E v \in Views : Call(c, v)
        \/ Look \/ Close
        \/ \E v \in Views : \/ Heartbeat(v) \/ GoesStale(v) \/ Hook(v)
                            \/ PublishAgain(v) \/ SubmitUnanswered(v)
                            \/ \E m \in net[v] : HandleView(v, m)
                            \/ \E s \in Streams : Open(s, v)
        \/ \E s \in Streams : Handler(s) \/ Tick(s) \/ Break(s)

Spec == Init /\ [][Next]_vars

\* The page and the handlers run on, requests arrive, the keep-alive ticks,
\* EventSource connects again, and a select takes a channel that stays ready:
\* the done channel of a request whose client is gone.
Fairness ==
    /\ \A v \in Views : /\ WF_vars(Hook(v))
                        /\ WF_vars(\E m \in net[v] : HandleView(v, m))
                        /\ WF_vars(\E s \in Streams : Open(s, v))
    /\ \A s \in Streams : WF_vars(Handler(s)) /\ WF_vars(Tick(s)) /\ SF_vars(Gone(s))

FairSpec == Spec /\ Fairness

-----------------------------------------------------------------------------
\* Types, and the bounds on what the broker keeps for a page.
TypeOK == /\ \A v \in Views : /\ view[v].queue \in Seq(Calls)
                              /\ Len(view[v].queue) <= MaxQueued
                              /\ view[v].snap <= Len(page[v].log)
                              /\ view[v].seq <= page[v].seq
                              /\ Len(page[v].tracked) <= MaxTracked
                              /\ page[v].at \in {"idle", "publishing", "submitting"}
                              /\ ~Known(v) => ~token[v]
          /\ status \in [Calls -> {"new", "pending", "answered", "ended"}]
          /\ target \in [Calls -> Views]
          /\ \A s \in Streams : stream[s].at \in {"closed", "reading", "writing", "waiting"}
          /\ Cardinality({v \in Views : Known(v)}) <= MaxViews

\* docs/MCP.md: "An unacknowledged command is redelivered when the stream
\* reconnects, and the page replays the stored result instead of applying the
\* edit twice."  Commands are applied at most once, in the order of the calls.
AppliedInOrder == \A v \in Views : \A i, j \in DOMAIN page[v].log :
                     i < j => page[v].log[i] < page[v].log[j]

\* Who waits is served: the command of a waiting call is in the queue of a view
\* that exists, once, and the queue holds nothing else.
WaitingIsQueued == \A v \in Views : /\ IsInjective(view[v].queue)
                                    /\ ToSet(view[v].queue) = Pending(v)

\* useMcpBridge.ts: "an agent that reads straight after a tool call has to see
\* the state that call produced".  When a call is answered, the snapshot of its
\* view has the effect, unless the page gave up publishing.
Position(c) == CHOOSE i \in DOMAIN page[target[c]].log : page[target[c]].log[i] = c

ReadsOwnWrite ==
    [][\A c \in Calls : status[c] = "pending" /\ status'[c] = "answered" /\ c \notin unseen
                        => Position(c) <= view[target[c]].snap]_vars

\* A command waits for the keep-alive tick only if the page has it already: a
\* connected stream that sleeps and has yet to deliver the head of its queue
\* has a wake-up on the way.
Delivering(s) ==
    LET v == stream[s].view IN
    /\ stream[s].at = "waiting" /\ stream[s].alive
    /\ view[v].queue # <<>> /\ Head(view[v].queue) # stream[s].delivered
    => stream[s].own /\ token[v]

WakeReachesStream == \A s \in Streams : Delivering(s)

\* ... as long as the handler still waits on the channel of a view that exists,
\* and nobody else listens to it.
WakeReachesOwnStream ==
    Cardinality(Streams) = 1 => \A s \in Streams : stream[s].own => Delivering(s)

\* Every call ends: with a stream that breaks and views that go stale, a queued
\* command is delivered, applied and answered in the end, unless an answer was
\* lost: a result that the page gave up on waits for the next reconnect.
Served == \A c \in Calls : status[c] = "pending" ~> (status[c] # "pending" \/ losses > 0)
=============================================================================
