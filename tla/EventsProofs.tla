------------------------------ MODULE EventsProofs ------------------------------
(***************************************************************************)
(* For every set of events, clocks of clients, retention and number of     *)
(* flushes, and whatever fails, hangs, is retried or restarts: what the    *)
(* table says of an event stays true until the event is too old, and a     *)
(* flush is retried no more often than withDbRetry says.                   *)
(*                                                                         *)
(* RowsKept needs what a flush carries from its arrival to its INSERT: the *)
(* times it resolved lie within the retention before its arrival, however  *)
(* long the backoff takes, and its attempts are within the retries.        *)
(***************************************************************************)
EXTENDS Events, TLAPS

\* A flush that waits for its INSERT or for its backoff.
Flushing(q) ==
    /\ q = [pc |-> q.pc, attempt |-> q.attempt, received |-> q.received, rows |-> q.rows]
    /\ q.pc \in {"insert", "wait"}
    /\ q.received \in 0..now
    /\ DOMAIN q.rows \subseteq Events
    /\ q.rows \in [DOMAIN q.rows -> (q.received - Retention)..q.received]
    /\ q.attempt \in 0..Retries /\ (q.pc = "wait" => q.attempt < Retries)

\* What holds beside the flushes.
RestOK ==
    /\ now \in 0..MaxTime
    /\ IsStore(stored, Events, Int)
    /\ server \in {"up", "closing", "down"}
    /\ probe = IdleProbe \/ (probe = [pc |-> "ready", checks |-> probe.checks] /\ probe.checks \subseteq Deps)
    /\ throttled \in BOOLEAN /\ pruning \in BOOLEAN
    /\ fails \in 0..MaxFails /\ stops \in 0..MaxStops
    /\ hung \subseteq Slots /\ accepted \subseteq Events

FlushesOK ==
    /\ req = [s \in Slots |-> req[s]]
    /\ \A s \in Slots : req[s] = IdleReq \/ Flushing(req[s])

IInv == RestOK /\ FlushesOK

\* The time an event is counted at is neither after its arrival nor past the
\* retention, whatever the clock of the client says.
LEMMA ResolvedRecent ==
    ASSUME NEW t \in ClientAts \cup {NoTime}, now \in Nat
    PROVE  ResolveAt(t) \in (now - Retention)..now
BY TimesAssumption DEF ResolveAt

\* INSERT ... ON CONFLICT DO NOTHING leaves the table one of times by id.
LEMMA InsertedStore ==
    ASSUME IsStore(stored, Events, Int), NEW s \in Slots, Flushing(req[s]), now \in Nat
    PROVE  IsStore(Inserted(stored, req[s].rows), Events, Int)
<1>1. \A e \in DOMAIN req[s].rows : req[s].rows[e] \in Int /\ e \in Events
  BY TimesAssumption DEF Flushing
<1>2. \A e \in DOMAIN stored : stored[e] \in Int /\ e \in Events
  BY DEF IsStore
<1> QED BY <1>1, <1>2 DEF IsStore, Inserted

LEMMA InitInv == Init => IInv
<1> SUFFICES ASSUME Init PROVE IInv
  OBVIOUS
<1>1. IsStore(stored, Events, Int)
  BY DEF Init, IsStore, Empty
<1>2. FlushesOK
  BY DEF Init, FlushesOK
<1>3. now \in 0..MaxTime /\ fails \in 0..MaxFails /\ stops \in 0..MaxStops
  BY TimesAssumption, LimitsAssumption DEF Init
<1> QED BY <1>1, <1>2, <1>3 DEF Init, IInv, RestOK

\* Each step keeps what is not a flush within its type.
LEMMA RestKept == ASSUME IInv, [Next]_vars PROVE RestOK'
<1> USE DEF IInv, RestOK
<1>1. CASE UNCHANGED vars
  BY <1>1 DEF vars
<1>2. CASE Tick
  BY <1>2, TimesAssumption DEF Tick
<1>3. ASSUME NEW s \in Slots, NEW batch \in SUBSET Events \ {{}}, NEW t \in ClientAts \cup {NoTime},
             Receive(s, batch, t)
      PROVE RestOK'
  BY <1>3 DEF Receive
<1>4. ASSUME NEW s \in Slots, Flush(s) PROVE RestOK'
  <2>1. CASE InsertDone(s)
    <3>1. req[s].pc = "insert"
      BY <2>1 DEF InsertDone
    <3>2. Flushing(req[s])
      BY <3>1 DEF FlushesOK, IdleReq
    <3>3. IsStore(stored', Events, Int)
      BY <2>1, <3>2, InsertedStore DEF InsertDone
    <3>4. accepted' \subseteq Events
      BY <2>1, <3>2 DEF InsertDone, Flushing
    <3> QED BY <2>1, <3>3, <3>4 DEF InsertDone
  <2>2. CASE Backoff(s)
    BY <2>2 DEF Backoff
  <2> QED BY <1>4, <2>1, <2>2 DEF Flush
<1>5. ASSUME NEW s \in Slots, NEW executed \in BOOLEAN, NEW transient \in BOOLEAN,
             InsertFails(s, executed, transient)
      PROVE RestOK'
  <2>1. Flushing(req[s])
    BY <1>5 DEF InsertFails, FlushesOK, IdleReq
  <2>2. IsStore(stored', Events, Int)
    BY <1>5, <2>1, InsertedStore DEF InsertFails
  <2> QED BY <1>5, <2>2, LimitsAssumption DEF InsertFails
<1>6. ASSUME NEW s \in Slots, Hang(s) PROVE RestOK'
  BY <1>6, LimitsAssumption DEF Hang
<1>7. CASE Look \/ PruneFails \/ ThrottleEnds
  <2>1. CASE Look
    BY <2>1 DEF Look
  <2>2. CASE PruneFails
    <3>1. fails' \in 0..MaxFails
      BY <2>2, LimitsAssumption DEF PruneFails
    <3> QED BY <2>2, <3>1 DEF PruneFails
  <2>3. CASE ThrottleEnds
    BY <2>3 DEF ThrottleEnds
  <2> QED BY <1>7, <2>1, <2>2, <2>3
<1>8. CASE PruneDone
  <2>1. IsStore(stored', Events, Int)
    BY <1>8 DEF PruneDone, IsStore, Drop, Restrict
  <2> QED BY <1>8, <2>1 DEF PruneDone
<1>9. CASE ProbeStart \/ ProbeReply
  BY <1>9 DEF ProbeStart, ProbeReply
<1>10. ASSUME NEW d \in Deps, Checked(d) \/ CheckTimeout(d) PROVE RestOK'
  BY <1>10 DEF Checked, CheckTimeout, IdleProbe
<1>11. CASE Signal \/ Start
  <2>1. CASE Signal
    BY <2>1, LimitsAssumption DEF Signal
  <2>2. CASE Start
    BY <2>2 DEF Start
  <2> QED BY <1>11, <2>1, <2>2
<1>12. CASE Drained \/ ShutdownTimeout \/ Crash
  <2>1. Exit /\ stops' \in 0..MaxStops
    BY <1>12, LimitsAssumption DEF Drained, ShutdownTimeout, Crash
  <2> QED BY <2>1 DEF Exit
<1> QED BY <1>1, <1>2, <1>3, <1>4, <1>5, <1>6, <1>7, <1>8, <1>9, <1>10, <1>11, <1>12 DEF Next

\* A flush carries the times it resolved until its INSERT, and its attempts are
\* counted.
LEMMA FlushesKept == ASSUME IInv, [Next]_vars PROVE FlushesOK'
<1> USE DEF IInv, RestOK
<1>s. req = [s \in Slots |-> req[s]] /\ \A s \in Slots : req[s] = IdleReq \/ Flushing(req[s])
  BY DEF FlushesOK
<1>1. ASSUME req' = req, now \in Int /\ now' \in Int /\ now <= now' PROVE FlushesOK'
  BY <1>1 DEF FlushesOK, Flushing
\* One flush moves on.
<1>2. ASSUME NEW s \in Slots, now' = now, req' = [req EXCEPT ![s] = req'[s]],
             req'[s] = IdleReq \/ Flushing(req'[s])
      PROVE FlushesOK'
  BY <1>s, <1>2 DEF FlushesOK, Flushing
<1>3. CASE UNCHANGED vars
  BY <1>1, <1>3 DEF vars
<1>4. CASE Tick
  BY <1>1, <1>4 DEF Tick
<1>5. ASSUME NEW s \in Slots, NEW batch \in SUBSET Events \ {{}}, NEW t \in ClientAts \cup {NoTime},
             Receive(s, batch, t)
      PROVE FlushesOK'
  <2> DEFINE q == [pc |-> "insert", attempt |-> 0, received |-> now,
                   rows |-> [e \in batch |-> ResolveAt(t)]]
  <2>1. Flushing(q)
    BY ResolvedRecent, LimitsAssumption DEF Flushing
  <2>2. req' = [req EXCEPT ![s] = q] /\ now' = now
    BY <1>5 DEF Receive
  <2> HIDE DEF q
  <2> QED BY <1>s, <1>2, <2>1, <2>2
<1>6. ASSUME NEW s \in Slots, InsertDone(s) PROVE FlushesOK'
  BY <1>s, <1>2, <1>6 DEF InsertDone
<1>7. ASSUME NEW s \in Slots, Backoff(s) PROVE FlushesOK'
  <2>1. Flushing(req[s]) /\ req[s].pc = "wait"
    BY <1>s, <1>7 DEF Backoff, IdleReq
  <2> DEFINE q == [pc |-> "insert", attempt |-> req[s].attempt + 1, received |-> req[s].received,
                   rows |-> req[s].rows]
  <2>2. Flushing(q)
    BY <2>1, LimitsAssumption DEF Flushing
  <2>3. req' = [req EXCEPT ![s] = q] /\ now' = now
    <3> DEFINE moved == [req EXCEPT ![s].pc = "insert"]
    <3>1. req' = [moved EXCEPT ![s].attempt = @ + 1] /\ now' = now
      BY <1>7 DEF Backoff
    <3>2. moved[s] = [req[s] EXCEPT !.pc = "insert"]
      BY <1>s
    <3>3. moved = [t \in Slots |-> moved[t]] /\ \A t \in Slots \ {s} : moved[t] = req[t]
      BY <1>s
    <3> HIDE DEF moved
    <3>4. moved[s] = [pc |-> "insert", attempt |-> req[s].attempt, received |-> req[s].received,
                      rows |-> req[s].rows]
      BY <2>1, <3>2 DEF Flushing
    <3>5. req'[s] = [moved[s] EXCEPT !.attempt = @ + 1] /\ \A t \in Slots \ {s} : req'[t] = req[t]
      BY <3>1, <3>3
    <3>6. req'[s] = q
      BY <3>4, <3>5
    <3>7. req' = [t \in Slots |-> req'[t]]
      BY <3>1, <3>3
    <3> HIDE DEF q
    <3> QED BY <1>s, <3>1, <3>5, <3>6, <3>7
  <2> HIDE DEF q
  <2> QED BY <1>s, <1>2, <2>2, <2>3
<1>8. ASSUME NEW s \in Slots, NEW executed \in BOOLEAN, NEW transient \in BOOLEAN,
             InsertFails(s, executed, transient)
      PROVE FlushesOK'
  <2>1. Flushing(req[s]) /\ now' = now
    BY <1>s, <1>8 DEF InsertFails, IdleReq
  <2>2. CASE transient /\ req[s].attempt < Retries
    <3> DEFINE q == [req[s] EXCEPT !.pc = "wait"]
    <3>1. req' = [req EXCEPT ![s] = q]
      BY <1>8, <2>2 DEF InsertFails
    <3>2. q = [pc |-> "wait", attempt |-> req[s].attempt, received |-> req[s].received,
               rows |-> req[s].rows]
      BY <2>1 DEF Flushing
    <3> HIDE DEF q
    <3>3. Flushing(q)
      BY <2>1, <2>2, <3>2 DEF Flushing
    <3> QED BY <1>s, <1>2, <2>1, <3>1, <3>3
  <2>3. CASE ~(transient /\ req[s].attempt < Retries)
    BY <1>s, <1>2, <1>8, <2>1, <2>3 DEF InsertFails
  <2> QED BY <2>2, <2>3
<1>9. ASSUME NEW s \in Slots, Hang(s) PROVE FlushesOK'
  BY <1>1, <1>9 DEF Hang
<1>10. CASE \/ Look \/ PruneDone \/ PruneFails \/ ThrottleEnds \/ ProbeStart \/ ProbeReply
            \/ \E d \in Deps : Checked(d) \/ CheckTimeout(d)
  BY <1>1, <1>10 DEF Look, PruneDone, PruneFails, ThrottleEnds, ProbeStart, ProbeReply, Checked,
     CheckTimeout
<1>11. CASE Signal \/ Start
  BY <1>1, <1>11 DEF Signal, Start
<1>12. CASE Drained \/ ShutdownTimeout \/ Crash
  BY <1>12 DEF Drained, ShutdownTimeout, Crash, Exit, FlushesOK
<1> QED BY <1>3, <1>4, <1>5, <1>6, <1>7, <1>8, <1>9, <1>10, <1>11, <1>12 DEF Next, Flush

\* The invariant behind the theorems below is inductive.
THEOREM Invariant == Spec => []IInv
<1>1. IInv /\ [Next]_vars => IInv'
  BY RestKept, FlushesKept DEF IInv
<1> QED BY <1>1, InitInv, PTL DEF Spec

\* Every variable keeps its type; in particular a flush is tried once and then at
\* most Retries times again, as withDbRetry counts.
THEOREM TypeCorrect == Spec => []TypeOK
<1>1. IInv => TypeOK
  <2> SUFFICES ASSUME IInv PROVE TypeOK
    OBVIOUS
  <2>1. ASSUME NEW s \in Slots, Flushing(req[s]) PROVE IsStore(req[s].rows, Events, Int)
    BY <2>1, TimesAssumption DEF IInv, RestOK, Flushing, IsStore
  <2>2. \A s \in Slots :
          \/ req[s] = IdleReq
          \/ /\ req[s].pc \in {"insert", "wait"}
             /\ IsStore(req[s].rows, Events, Int)
             /\ req[s].received \in 0..now /\ req[s].attempt \in 0..Retries
    BY <2>1 DEF IInv, FlushesOK, Flushing
  <2> QED BY <2>2 DEF IInv, RestOK, TypeOK
<1> QED BY <1>1, Invariant, PTL

\* What a step does to the table: only the INSERT of a flush adds rows, and only
\* the DELETE of old ones removes any.
LEMMA TableSteps ==
    ASSUME IInv, [Next]_vars
    PROVE  \/ stored' = stored /\ accepted' = accepted
           \/ \E s \in Slots : /\ req[s].pc = "insert"
                               /\ stored' = Inserted(stored, req[s].rows)
                               /\ accepted' \subseteq accepted \cup DOMAIN req[s].rows
           \/ stored' = Drop(stored, {e \in DOMAIN stored : ~Recent(stored[e])}) /\ accepted' = accepted
<1>1. ASSUME NEW s \in Slots, InsertDone(s)
      PROVE  /\ req[s].pc = "insert"
             /\ stored' = Inserted(stored, req[s].rows)
             /\ accepted' \subseteq accepted \cup DOMAIN req[s].rows
  BY <1>1 DEF InsertDone
<1>2. ASSUME NEW s \in Slots, NEW executed \in BOOLEAN, NEW transient \in BOOLEAN,
             InsertFails(s, executed, transient)
      PROVE  /\ req[s].pc = "insert"
             /\ stored' \in {stored, Inserted(stored, req[s].rows)}
             /\ accepted' = accepted
  BY <1>2 DEF InsertFails
<1>3. CASE PruneDone
  BY <1>3 DEF PruneDone
<1>4. CASE UNCHANGED vars
  BY <1>4 DEF vars
<1>5. ASSUME NEW s \in Slots,
             \/ \E batch \in SUBSET Events \ {{}}, t \in ClientAts \cup {NoTime} : Receive(s, batch, t)
             \/ Backoff(s) \/ Hang(s)
      PROVE stored' = stored /\ accepted' = accepted
  BY <1>5 DEF Receive, Backoff, Hang
<1>6. CASE \/ Tick \/ Look \/ PruneFails \/ ThrottleEnds \/ ProbeStart \/ ProbeReply
           \/ (\E d \in Deps : Checked(d) \/ CheckTimeout(d))
           \/ Signal \/ Drained \/ ShutdownTimeout \/ Crash \/ Start
  BY <1>6 DEF Tick, Look, PruneFails, ThrottleEnds, ProbeStart, ProbeReply, Checked, CheckTimeout,
     Signal, Drained, ShutdownTimeout, Crash, Start, Exit
<1> QED BY <1>1, <1>2, <1>3, <1>4, <1>5, <1>6 DEF Next, Flush

\* An accepted event is there until it is older than the retention, at the time it
\* was counted at first, however often its flush is retried or sent again, and no
\* client's clock puts a row after its flush or past the retention.
THEOREM RowsStay == Spec => RowsKept
<1> DEFINE Kept ==
      /\ \A e \in accepted' \ accepted : e \in DOMAIN stored'
      /\ \A e \in DOMAIN stored \ DOMAIN stored' : stored[e] < now - Retention
      /\ \A e \in DOMAIN stored \cap DOMAIN stored' : stored'[e] = stored[e]
      /\ \A e \in DOMAIN stored' \ DOMAIN stored :
            \E s \in Slots :
               /\ req[s].pc = "insert"
               /\ stored'[e] \in (req[s].received - Retention)..req[s].received
<1>1. IInv /\ [Next]_vars => Kept
  <2> SUFFICES ASSUME IInv, [Next]_vars PROVE Kept
    OBVIOUS
  <2>1. CASE stored' = stored /\ accepted' = accepted
    BY <2>1
  <2>2. ASSUME NEW s \in Slots, req[s].pc = "insert",
               stored' = Inserted(stored, req[s].rows),
               accepted' \subseteq accepted \cup DOMAIN req[s].rows
        PROVE  Kept
    <3>1. Flushing(req[s])
      BY <2>2 DEF IInv, FlushesOK, IdleReq
    <3>2. /\ DOMAIN stored' = DOMAIN stored \cup DOMAIN req[s].rows
          /\ \A e \in DOMAIN stored : stored'[e] = stored[e]
          /\ \A e \in DOMAIN req[s].rows \ DOMAIN stored : stored'[e] = req[s].rows[e]
      BY <2>2 DEF Inserted
    <3>3. \A e \in DOMAIN req[s].rows :
              req[s].rows[e] \in (req[s].received - Retention)..req[s].received
      BY <3>1 DEF Flushing
    <3> QED BY <2>2, <3>2, <3>3
  <2>3. CASE /\ stored' = Drop(stored, {e \in DOMAIN stored : ~Recent(stored[e])})
             /\ accepted' = accepted
    <3>1. /\ DOMAIN stored' = {e \in DOMAIN stored : Recent(stored[e])}
          /\ \A e \in DOMAIN stored' : stored'[e] = stored[e]
      BY <2>3 DEF Drop, Restrict
    <3>2. \A e \in DOMAIN stored : stored[e] \in Int
      BY DEF IInv, RestOK, IsStore
    <3>3. now \in Int /\ Retention \in Int
      BY TimesAssumption DEF IInv, RestOK
    <3>4. \A e \in DOMAIN stored \ DOMAIN stored' : stored[e] < now - Retention
      BY <3>1, <3>2, <3>3 DEF Recent
    <3> QED BY <2>3, <3>1, <3>4
  <2> QED BY <2>1, <2>2, <2>3, TableSteps
<1>2. IInv /\ [Next]_vars => [Kept]_vars
  BY <1>1
<1> QED BY <1>2, Invariant, PTL DEF Spec, RowsKept
===============================================================================
