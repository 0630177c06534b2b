-------------------------------- MODULE Events --------------------------------
(***************************************************************************)
(* The table analytics_events and the process that fills it: POST          *)
(* /api/events of routes/events.ts under withDbRetry of db/connection.ts,  *)
(* pruneOldEvents of services/analyticsService.ts, the readiness probe of  *)
(* routes/health.ts and the shutdown of index.ts.                          *)
(*                                                                         *)
(* Time is a clock for what is written and compared (the time of an event, *)
(* the retention) and a timer that fires at some time for what is waited   *)
(* for (the backoff, the throttle of the pruning, the time-outs of the     *)
(* probe and of the shutdown).  A statement may be executed and its answer *)
(* lost, fail, or never be answered at all.                                *)
(***************************************************************************)
EXTENDS Integers, FiniteSets, KeyValue

CONSTANTS
    Events,      \* the ids the clients generate
    ClientAts,   \* the times a client sends with an event, by a clock of its own
    NoTime,      \* or it sends none
    MaxBackdate, \* MAX_BACKDATE_MS
    Retention,   \* ANALYTICS_RETENTION_DAYS
    Deps,        \* what the readiness probe checks
    Slots,       \* flushes that may be in progress at once
    Retries,     \* of withDbRetry
    MaxTime,     \* bound: the clock stops here
    MaxFails,    \* bound: statements that fail, or are not answered
    MaxStops     \* bound: signals and crashes

ASSUME TimesAssumption ==
    /\ ClientAts \subseteq Int /\ NoTime \notin Int
    /\ MaxBackdate \in Nat /\ Retention \in Nat /\ MaxBackdate <= Retention
    /\ MaxTime \in Nat
ASSUME LimitsAssumption == Retries \in Nat /\ MaxFails \in Nat /\ MaxStops \in Nat

VARIABLES
    now,
    stored,    \* analytics_events: at by id
    server,    \* "up", "closing" after a signal, "down"
    req,       \* the flushes
    probe,     \* the readiness probe in progress
    throttled, \* lastPruneAt is less than PRUNE_INTERVAL_MS ago
    pruning,   \* a DELETE is on its way
    fails, stops,
    hung,      \* the flushes whose statement is never answered
    \* Observer variable: no action reads it in a guard.
    accepted   \* the events whose client was told that they were accepted

vars == <<now, stored, server, req, probe, throttled, pruning, fails, stops, hung, accepted>>

IdleReq == [pc |-> "idle"]
IdleProbe == [pc |-> "idle"]

\* Every variable holds a value of its type.
TypeOK ==
    /\ now \in 0..MaxTime
    /\ IsStore(stored, Events, Int)
    /\ server \in {"up", "closing", "down"}
    /\ \A s \in Slots :
          \/ req[s] = IdleReq
          \/ /\ req[s].pc \in {"insert", "wait"}
             /\ IsStore(req[s].rows, Events, Int)
             /\ req[s].received \in 0..now /\ req[s].attempt \in 0..Retries
    /\ probe = IdleProbe \/ (probe.pc = "ready" /\ probe.checks \subseteq Deps)
    /\ throttled \in BOOLEAN /\ pruning \in BOOLEAN
    /\ fails \in 0..MaxFails /\ stops \in 0..MaxStops
    /\ hung \subseteq Slots /\ accepted \subseteq Events

Init ==
    /\ now = 0
    /\ stored = Empty
    /\ server = "up"
    /\ req = [s \in Slots |-> IdleReq]
    /\ probe = IdleProbe
    /\ throttled = FALSE /\ pruning = FALSE
    /\ fails = 0 /\ stops = 0
    /\ hung = {} /\ accepted = {}

Tick ==
    /\ now < MaxTime
    /\ now' = now + 1
    /\ UNCHANGED <<stored, server, req, probe, throttled, pruning, fails, stops, hung, accepted>>

-------------------------------------------------------------------------------
(* POST /api/events.                                                       *)

ResolveAt(t) ==
    IF t = NoTime THEN now
    ELSE IF t > now THEN now
    ELSE IF t < now - MaxBackdate THEN now - MaxBackdate
    ELSE t

\* A flush, sent for the first time or again, with any of the events: 1 to MAX_BATCH
\* of them, everything else is a 400.  A process that is closing still answers on the
\* connections it has.
Receive(s, batch, t) ==
    /\ server # "down"
    /\ req[s].pc = "idle"
    /\ req' = [req EXCEPT ![s] = [pc |-> "insert", attempt |-> 0, received |-> now,
                                  rows |-> [e \in batch |-> ResolveAt(t)]]]
    /\ UNCHANGED <<now, stored, server, probe, throttled, pruning, fails, stops, hung, accepted>>

\* Mutant: INSERT ... ON CONFLICT DO UPDATE.
Inserted_Updates(store, rows) ==
    [e \in DOMAIN store \cup DOMAIN rows |-> IF e \in DOMAIN rows THEN rows[e] ELSE store[e]]

\* INSERT ... ON CONFLICT DO NOTHING: one statement for the batch.
Inserted(store, rows) ==
    [e \in DOMAIN store \cup DOMAIN rows |-> IF e \in DOMAIN store THEN store[e] ELSE rows[e]]

InsertDone(s) ==
    /\ req[s].pc = "insert" /\ s \notin hung
    /\ stored' = Inserted(stored, req[s].rows)
    /\ accepted' = accepted \cup DOMAIN req[s].rows
    /\ req' = [req EXCEPT ![s] = IdleReq]
    /\ UNCHANGED <<now, server, probe, throttled, pruning, fails, stops, hung>>

\* The statement fails: executed, if its answer was lost.  A transient error is
\* retried after the backoff, else the client gets 202 with accepted: 0.
InsertFails(s, executed, transient) ==
    /\ req[s].pc = "insert" /\ s \notin hung
    /\ fails < MaxFails /\ fails' = fails + 1
    /\ executed => transient
    /\ stored' = IF executed THEN Inserted(stored, req[s].rows) ELSE stored
    /\ req' = [req EXCEPT ![s] = IF transient /\ req[s].attempt < Retries
                                 THEN [@ EXCEPT !.pc = "wait"] ELSE IdleReq]
    /\ UNCHANGED <<now, server, probe, throttled, pruning, stops, hung, accepted>>

Backoff(s) ==
    /\ req[s].pc = "wait"
    /\ req' = [req EXCEPT ![s].pc = "insert", ![s].attempt = @ + 1]
    /\ UNCHANGED <<now, stored, server, probe, throttled, pruning, fails, stops, hung, accepted>>

\* No time-out is set on a statement.
Hang(s) ==
    /\ req[s].pc = "insert" /\ s \notin hung
    /\ fails < MaxFails /\ fails' = fails + 1
    /\ hung' = hung \cup {s}
    /\ UNCHANGED <<now, stored, server, req, probe, throttled, pruning, stops, accepted>>

-------------------------------------------------------------------------------
(* pruneOldEvents, called by every dashboard summary and not awaited.      *)

\* lastPruneAt is set before the DELETE is sent.
Look ==
    /\ server # "down" /\ ~throttled
    /\ throttled' = TRUE /\ pruning' = TRUE
    /\ UNCHANGED <<now, stored, server, req, probe, fails, stops, hung, accepted>>

\* Mutant: a row is kept a day longer.
Recent_OneMore(t) == t >= now - Retention - 1

Recent(t) == t >= now - Retention

PruneDone ==
    /\ pruning
    /\ stored' = Drop(stored, {e \in DOMAIN stored : ~Recent(stored[e])})
    /\ pruning' = FALSE
    /\ UNCHANGED <<now, server, req, probe, throttled, fails, stops, hung, accepted>>

\* The error is logged; the throttle stays.
PruneFails ==
    /\ pruning
    /\ fails < MaxFails /\ fails' = fails + 1
    /\ pruning' = FALSE
    /\ UNCHANGED <<now, stored, server, req, probe, throttled, stops, hung, accepted>>

ThrottleEnds ==
    /\ throttled
    /\ throttled' = FALSE
    /\ UNCHANGED <<now, stored, server, req, probe, pruning, fails, stops, hung, accepted>>

-------------------------------------------------------------------------------
(* GET /health/ready.                                                      *)

ProbeStart ==
    /\ server # "down" /\ probe = IdleProbe
    /\ probe' = [pc |-> "ready", checks |-> Deps]
    /\ UNCHANGED <<now, stored, server, req, throttled, pruning, fails, stops, hung, accepted>>

\* A check is over: the dependency has answered, or failed.
Checked(d) ==
    /\ probe.pc = "ready" /\ d \in probe.checks
    /\ probe' = [probe EXCEPT !.checks = @ \ {d}]
    /\ UNCHANGED <<now, stored, server, req, throttled, pruning, fails, stops, hung, accepted>>

\* withTimeout rejects; an answer that comes later is ignored.
CheckTimeout(d) == Checked(d)

\* Both checks are over: 200, or 503 if one failed.
ProbeReply ==
    /\ probe.pc = "ready" /\ probe.checks = {}
    /\ probe' = IdleProbe
    /\ UNCHANGED <<now, stored, server, req, throttled, pruning, fails, stops, hung, accepted>>

-------------------------------------------------------------------------------
(* The process.                                                            *)

\* SIGINT or SIGTERM; a second one sets a second timer.
Signal ==
    /\ server # "down"
    /\ stops < MaxStops /\ stops' = stops + 1
    /\ server' = "closing"
    /\ UNCHANGED <<now, stored, req, probe, throttled, pruning, fails, hung, accepted>>

\* The process is gone, with all it had in hand.
Exit ==
    /\ server' = "down"
    /\ req' = [s \in Slots |-> IdleReq] /\ hung' = {}
    /\ probe' = IdleProbe
    /\ throttled' = FALSE /\ pruning' = FALSE
    /\ UNCHANGED <<now, stored, fails, accepted>>

\* server.close calls back when nothing is in flight: exit(0).
Drained ==
    /\ server = "closing"
    /\ \A s \in Slots : req[s].pc = "idle"
    /\ probe = IdleProbe
    /\ Exit /\ UNCHANGED stops

\* Mutant: the timer waits for the requests in flight too.
ShutdownTimeout_Waits == Drained

\* The timer of ten seconds: exit(1).
ShutdownTimeout ==
    /\ server = "closing"
    /\ Exit /\ UNCHANGED stops

Crash ==
    /\ server # "down"
    /\ stops < MaxStops /\ stops' = stops + 1
    /\ Exit

\* The platform starts the process again.
Start ==
    /\ server = "down"
    /\ server' = "up"
    /\ UNCHANGED <<now, stored, req, probe, throttled, pruning, fails, stops, hung, accepted>>

-------------------------------------------------------------------------------
Flush(s) == InsertDone(s) \/ Backoff(s)

Next ==
    \/ Tick
    \/ \E s \in Slots :
         \/ \E batch \in SUBSET Events \ {{}}, t \in ClientAts \cup {NoTime} : Receive(s, batch, t)
         \/ Flush(s)
         \/ \E executed, transient \in BOOLEAN : InsertFails(s, executed, transient)
         \/ Hang(s)
    \/ Look \/ PruneDone \/ PruneFails \/ ThrottleEnds
    \/ ProbeStart \/ ProbeReply
    \/ \E d \in Deps : Checked(d) \/ CheckTimeout(d)
    \/ Signal \/ Drained \/ ShutdownTimeout \/ Crash \/ Start

\* Timers fire, a statement that does not hang is answered, the platform restarts
\* the process, and the operator looks at the dashboard again and again.
Fairness ==
    /\ \A s \in Slots : WF_vars(Flush(s))
    /\ WF_vars(ProbeReply \/ \E d \in Deps : CheckTimeout(d))
    /\ WF_vars(ShutdownTimeout \/ Start)
    /\ WF_vars(Look \/ ThrottleEnds) /\ WF_vars(PruneDone)

Spec == Init /\ [][Next]_vars /\ Fairness

-------------------------------------------------------------------------------
\* What the table says of events, whatever fails, is retried, sent again or
\* restarted: an accepted event is there until it is older than the retention; a
\* flush that is sent again, or executed twice by the retry, leaves an event at the
\* time it was counted at first, though its time is resolved anew; and whatever the
\* clock of a client says, a new row is neither after its flush nor past the
\* retention when the flush arrived.
RowsKept ==
    [][/\ \A e \in accepted' \ accepted : e \in DOMAIN stored'
       /\ \A e \in DOMAIN stored \ DOMAIN stored' : stored[e] < now - Retention
       /\ \A e \in DOMAIN stored \cap DOMAIN stored' : stored'[e] = stored[e]
       /\ \A e \in DOMAIN stored' \ DOMAIN stored :
             \E s \in Slots :
                /\ req[s].pc = "insert"
                /\ stored'[e] \in (req[s].received - Retention)..req[s].received]_vars

\* Every flush is answered, unless a statement is never answered; a readiness probe
\* is answered and a shutdown ends even then.
RequestsEnd ==
    /\ \A s \in Slots : req[s].pc # "idle" ~> req[s].pc = "idle" \/ s \in hung
    /\ probe.pc = "ready" ~> probe.pc = "idle"
    /\ server = "closing" ~> server = "down"

\* A row past the retention is deleted, though a DELETE that fails is not tried
\* again before the throttle ends.
OldRowsGo ==
    \A e \in Events :
        (e \in DOMAIN stored /\ stored[e] < now - Retention)
            ~> (e \notin DOMAIN stored \/ stored[e] >= now - Retention)
===============================================================================
