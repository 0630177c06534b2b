-------------------------------- MODULE Handoff --------------------------------
(***************************************************************************)
(* services/handoffService.ts and routes/handoff.ts: short-lived tokens    *)
(* that carry a session from one device to another.                        *)
(*                                                                         *)
(* A handoff stands for the data stored under its token: the user, the     *)
(* snapshot, the time of creation.  A client resolves the token of the     *)
(* handoff it was given.  Each Redis command executes in a step of its     *)
(* own, so other requests run between a GET and the DEL that follows it.   *)
(***************************************************************************)
EXTENDS Naturals, KeyValue

CONSTANTS
    Handoffs,    \* bound: the handoffs created in a behaviour
    Tokens,
    NoToken,
    Slots,       \* requests that may be in progress at once
    RedisFails,  \* Redis commands may throw, executed or not
    DbFails,     \* getUserProgress may throw
    Crashes      \* the process may be killed and restarted

ASSUME NamesAssumption == NoToken \notin Tokens
ASSUME FailuresAssumption == {RedisFails, DbFails, Crashes} \subseteq BOOLEAN

VARIABLES
    stored,    \* Redis: handoff:{token}
    token,     \* the token generated for each handoff
    req,       \* the request each slot runs
    \* Observer variables: no action reads them in a guard.
    resolved,  \* the handoffs some client got an answer for
    again,     \* those answered a second time
    lost       \* those that expired or whose resolution failed after the GET

observerVars == <<resolved, again, lost>>
vars == <<stored, token, req, observerVars>>

-------------------------------------------------------------------------------
\* Where a request stands: create has SETEX to send; resolve has GET, then DEL to
\* send, then the progress to read.  before (an observer) is what clients had
\* been answered when the request arrived.
Idle == [pc |-> "idle"]
Request ==
    {Idle}
    \cup [pc : {"setex"}, h : Handoffs]
    \cup [pc : {"get"}, h : Handoffs, before : SUBSET Handoffs]
    \cup [pc : {"del", "progress"}, h : Handoffs, before : SUBSET Handoffs, data : Handoffs]

\* Every variable holds a value of its type.
TypeOK ==
    /\ IsStore(stored, Tokens, Handoffs)
    /\ token \in [Handoffs -> Tokens \cup {NoToken}]
    /\ req \in [Slots -> Request]
    /\ resolved \subseteq Handoffs /\ again \subseteq Handoffs /\ lost \subseteq Handoffs

Init ==
    /\ stored = Empty
    /\ token = [h \in Handoffs |-> NoToken]
    /\ req = [s \in Slots |-> Idle]
    /\ resolved = {} /\ again = {} /\ lost = {}

At(s, p) == req[s].pc = p
Continue(s, r) == req' = [req EXCEPT ![s] = r]

-------------------------------------------------------------------------------
\* POST /create: the token is 32 random bits.  Nothing keeps it unlike another's.
CreateStart(s, h, t) ==
    /\ At(s, "idle")
    /\ token[h] = NoToken
    /\ token' = [token EXCEPT ![h] = t]
    /\ Continue(s, [pc |-> "setex", h |-> h])
    /\ UNCHANGED <<stored, observerVars>>

\* Mutant: the response does not wait for the SETEX, which is lost.
CreateStore_NotSent(s) ==
    /\ At(s, "setex")
    /\ Continue(s, Idle)
    /\ UNCHANGED <<stored, token, observerVars>>

\* SETEX, over whatever the token holds, and the response that gives the client
\* its token.
CreateStore(s) ==
    /\ At(s, "setex")
    /\ stored' = Put(stored, token[req[s].h], req[s].h)
    /\ Continue(s, Idle)
    /\ UNCHANGED <<token, observerVars>>

\* SETEX threw: a 500.
CreateFails(s) ==
    /\ RedisFails
    /\ At(s, "setex")
    /\ stored' \in {stored, Put(stored, token[req[s].h], req[s].h)}
    /\ lost' = lost \cup {req[s].h}
    /\ Continue(s, Idle)
    /\ UNCHANGED <<token, resolved, again>>

\* A handoff whose token a client may have been given.
Given(h) == token[h] # NoToken /\ \A s \in Slots : ~(At(s, "setex") /\ req[s].h = h)

\* POST /resolve: the client may send its token any number of times.
ResolveStart(s, h) ==
    /\ At(s, "idle")
    /\ Given(h)
    /\ Continue(s, [pc |-> "get", h |-> h, before |-> resolved])
    /\ UNCHANGED <<stored, token, observerVars>>

ResolveFound(s) ==
    /\ At(s, "get")
    /\ token[req[s].h] \in DOMAIN stored
    /\ Continue(s, [pc |-> "del", h |-> req[s].h, before |-> req[s].before,
                    data |-> stored[token[req[s].h]]])
    /\ UNCHANGED <<stored, token, observerVars>>

\* A 404; or, if the GET threw, a 500.
ResolveAbsent(s) ==
    /\ At(s, "get")
    /\ token[req[s].h] \notin DOMAIN stored \/ RedisFails
    /\ Continue(s, Idle)
    /\ UNCHANGED <<stored, token, observerVars>>

\* Mutant: the response does not wait for the DEL, which is lost.
ResolveDel_NotSent(s) ==
    /\ At(s, "del")
    /\ Continue(s, [req[s] EXCEPT !.pc = "progress"])
    /\ UNCHANGED <<stored, token, observerVars>>

ResolveDel(s) ==
    /\ At(s, "del")
    /\ stored' = Drop(stored, {token[req[s].h]})
    /\ Continue(s, [req[s] EXCEPT !.pc = "progress"])
    /\ UNCHANGED <<token, observerVars>>

\* The DEL threw, executed or not: a 500.
ResolveDelFails(s) ==
    /\ RedisFails
    /\ At(s, "del")
    /\ stored' \in {stored, Drop(stored, {token[req[s].h]})}
    /\ lost' = lost \cup {req[s].data}
    /\ Continue(s, Idle)
    /\ UNCHANGED <<token, resolved, again>>

\* The progress was read: the client gets the user and the snapshot.
ResolveAnswer(s) ==
    /\ At(s, "progress")
    /\ again' = again \cup ({req[s].data} \cap resolved)
    /\ resolved' = resolved \cup {req[s].data}
    /\ Continue(s, Idle)
    /\ UNCHANGED <<stored, token, lost>>

\* Reading the progress threw: a 500, and the token is gone.
ResolveFails(s) ==
    /\ DbFails
    /\ At(s, "progress")
    /\ lost' = lost \cup {req[s].data}
    /\ Continue(s, Idle)
    /\ UNCHANGED <<stored, token, resolved, again>>

Expires(t) ==
    /\ t \in DOMAIN stored
    /\ stored' = Drop(stored, {t})
    /\ lost' = lost \cup {stored[t]}
    /\ UNCHANGED <<token, req, resolved, again>>

\* The process is killed: no request in progress is answered; the command each
\* has sent may have executed, which CreateFails and ResolveDelFails cover.
Crash ==
    /\ Crashes
    /\ lost' = lost \cup {req[s].h : s \in {q \in Slots : At(q, "setex")}}
                    \cup {req[s].data : s \in {q \in Slots : At(q, "del") \/ At(q, "progress")}}
    /\ req' = [s \in Slots |-> Idle]
    /\ UNCHANGED <<stored, token, resolved, again>>

Step(s) ==
    \/ CreateStore(s) \/ CreateFails(s)
    \/ ResolveFound(s) \/ ResolveAbsent(s) \/ ResolveDel(s) \/ ResolveDelFails(s)
    \/ ResolveAnswer(s) \/ ResolveFails(s)

Next ==
    \/ \E s \in Slots :
         \/ \E h \in Handoffs, t \in Tokens : CreateStart(s, h, t)
         \/ \E h \in Handoffs : ResolveStart(s, h)
         \/ Step(s)
    \/ \E t \in Tokens : Expires(t)
    \/ Crash

Spec == Init /\ [][Next]_vars

-------------------------------------------------------------------------------
\* Once a client has had an answer, a request that arrives later does not get it
\* again, whatever was stored under the same token since: an answer is given
\* twice only to requests that overlap.
LaterUseFails ==
    \A s \in Slots : req[s].pc \in {"del", "progress"} => req[s].data \notin req[s].before

\* What the service says of a token and does not keep when two requests overlap:
\* a handoff is answered at most once.
SingleUse == again = {}

\* No other handoff has drawn the same token: a SETEX would overwrite this one's
\* data, and the DEL of a resolution that read the one would delete the other.
Alone(h) == \A g \in Handoffs \ {h} : token[g] # token[h]

\* A handoff a client was given, alone on its token, and that nobody resolves
\* stays in Redis until it is resolved, expires or a request on it fails.
Available ==
    \A h \in Handoffs :
        Given(h) /\ Alone(h) /\ h \notin resolved \cup lost
        /\ (\A s \in Slots : At(s, "progress") => req[s].data # h)
            => token[h] \in DOMAIN stored /\ stored[token[h]] = h

-------------------------------------------------------------------------------
(* The inductive invariant.                                                *)

\* A handoff is stored under the token it drew.
OwnTokens == \A t \in DOMAIN stored : token[stored[t]] = t

Stored(h) == \E t \in DOMAIN stored : stored[t] = h

\* What a client was answered is no longer stored.
Spent == \A h \in resolved : token[h] # NoToken /\ ~Stored(h)

\* A handoff being stored is known to no other request and stored nowhere yet.
StoresAlone(s) ==
    At(s, "setex") =>
        /\ token[req[s].h] # NoToken
        /\ req[s].h \notin resolved /\ ~Stored(req[s].h)
        /\ \A q \in Slots \ {s} :
              /\ ~At(q, "idle") => req[q].h # req[s].h
              /\ req[q].pc \in {"del", "progress"} => req[q].data # req[s].h

\* A request that resolves works for a client that has a token; what it found was
\* under that token and not yet answered when it arrived; once its DEL is done
\* that is stored no more.
Resolving(s) ==
    /\ ~At(s, "idle") => token[req[s].h] # NoToken
    /\ At(s, "get") => req[s].before \subseteq resolved
    /\ req[s].pc \in {"del", "progress"} =>
          token[req[s].data] = token[req[s].h] /\ req[s].data \notin req[s].before
    /\ At(s, "progress") => ~Stored(req[s].data)

IInv ==
    /\ TypeOK
    /\ OwnTokens
    /\ Spent
    /\ \A s \in Slots : StoresAlone(s) /\ Resolving(s)
===============================================================================
