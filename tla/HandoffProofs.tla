----------------------------- MODULE HandoffProofs -----------------------------
(***************************************************************************)
(* For every number of handoffs, tokens and requests, whatever fails and   *)
(* whichever tokens are drawn twice: an answer is given twice only to      *)
(* requests that overlap, and a handoff alone on its token is there until  *)
(* it has been resolved, has expired or was lost.                          *)
(***************************************************************************)
EXTENDS Handoff, TLAPS

LEMMA InitInv == Init => IInv
<1> SUFFICES ASSUME Init PROVE IInv
  OBVIOUS
<1>1. IsStore(stored, Tokens, Handoffs) /\ DOMAIN stored = {}
  BY DEF Init, IsStore, Empty
<1>2. \A s \in Slots : req[s].pc = "idle"
  BY DEF Init, Idle
<1>3. TypeOK
  BY <1>1 DEF Init, TypeOK, Request, Idle
<1>4. OwnTokens /\ Spent
  BY <1>1, NamesAssumption DEF Init, OwnTokens, Spent, Stored
<1> QED BY <1>2, <1>3, <1>4 DEF IInv, StoresAlone, Resolving, At

\* A request that moves on, and of what is stored at most takes some away.
LEMMA MovesOn ==
    ASSUME IInv, NEW s \in Slots, NEW r \in Request, req' = [req EXCEPT ![s] = r], token' = token,
           IsStore(stored', Tokens, Handoffs),
           \A t \in DOMAIN stored' : t \in DOMAIN stored /\ stored'[t] = stored[t],
           r.pc \in {"idle", "del", "progress"},
           r.pc # "idle" => /\ req[s].pc \in {"get", "del"} /\ r.h = req[s].h
                            /\ token[r.data] = token[r.h] /\ r.data \notin r.before
                            /\ \A q \in Slots : req[q].pc = "setex" => req[q].h # r.data,
           r.pc = "progress" => \A t \in DOMAIN stored' : stored'[t] # r.data,
           resolved \subseteq resolved', resolved' \subseteq Handoffs, again' \subseteq Handoffs, lost' \subseteq Handoffs,
           \A h \in resolved' \ resolved : /\ token[h] # NoToken /\ ~Stored(h)
                                           /\ \A q \in Slots : req[q].pc = "setex" => req[q].h # h
    PROVE  IInv'
<1> USE DEF At
<1>1. req \in [Slots -> Request] /\ \A x \in Slots : req'[x] = IF x = s THEN r ELSE req[x]
  BY DEF IInv, TypeOK
<1>2. TypeOK'
  BY DEF IInv, TypeOK
<1>3. \A h : Stored(h)' => Stored(h)
  BY DEF Stored
<1>4. OwnTokens' /\ Spent'
  <2>1. OwnTokens'
    BY DEF IInv, OwnTokens
  <2> QED BY <1>3, <2>1 DEF IInv, Spent
<1>5. ASSUME NEW q \in Slots PROVE StoresAlone(q)' /\ Resolving(q)'
  <2>1. CASE q = s
    BY <1>1, <2>1 DEF IInv, StoresAlone, Resolving, Stored
  <2>2. CASE q # s
    <3>1. req'[q] = req[q] /\ StoresAlone(q) /\ Resolving(q)
      BY <1>1, <2>2 DEF IInv
    <3>2. ASSUME req[q].pc = "setex" PROVE StoresAlone(q)'
      <4>1. /\ token[req[q].h] # NoToken /\ req[q].h \notin resolved /\ ~Stored(req[q].h)
            /\ \A x \in Slots \ {q} : /\ req[x].pc # "idle" => req[x].h # req[q].h
                                      /\ req[x].pc \in {"del", "progress"} => req[x].data # req[q].h
        BY <3>1, <3>2 DEF StoresAlone
      <4>2. req[q].h \notin resolved'
        BY <3>2, <4>1
      <4>3. \A x \in Slots \ {q} : /\ req'[x].pc # "idle" => req'[x].h # req[q].h
                                   /\ req'[x].pc \in {"del", "progress"} => req'[x].data # req[q].h
        <5>1. r.pc # "idle" => r.h # req[q].h /\ r.data # req[q].h
          BY <2>2, <3>2, <4>1
        <5> QED BY <1>1, <4>1, <5>1
      <4> QED BY <1>3, <3>1, <4>1, <4>2, <4>3 DEF StoresAlone
    <3>3. Resolving(q)'
      BY <1>3, <3>1 DEF Resolving
    <3> QED BY <3>1, <3>2, <3>3 DEF StoresAlone
  <2> QED BY <2>1, <2>2
<1> QED BY <1>2, <1>4, <1>5 DEF IInv

\* What Drop leaves.
LEMMA DropsOnly ==
    ASSUME IInv, NEW D
    PROVE  /\ IsStore(Drop(stored, D), Tokens, Handoffs)
           /\ \A t \in DOMAIN Drop(stored, D) :
                 t \in DOMAIN stored /\ t \notin D /\ Drop(stored, D)[t] = stored[t]
<1>1. IsStore(Drop(stored, D), Tokens, Handoffs)
  BY DEF IInv, TypeOK, IsStore, Drop, Restrict
<1>2. /\ DOMAIN Drop(stored, D) = DOMAIN stored \ D
      /\ \A t \in DOMAIN stored \ D : Drop(stored, D)[t] = stored[t]
  BY DEF Drop, Restrict
<1> QED BY <1>1, <1>2

\* The SETEX of a request that creates, after which it ends.
LEMMA StoresInv ==
    ASSUME IInv, NEW s \in Slots, At(s, "setex"), req' = [req EXCEPT ![s] = Idle], token' = token,
           stored' = Put(stored, token[req[s].h], req[s].h),
           resolved' = resolved, again' = again, lost' \subseteq Handoffs
    PROVE  IInv'
<1> USE DEF At
<1> DEFINE h == req[s].h
<1>1. /\ req \in [Slots -> Request] /\ Idle \in Request /\ Idle.pc = "idle"
      /\ h \in Handoffs /\ token[h] \in Tokens
  BY DEF IInv, TypeOK, StoresAlone, Request, Idle
<1>2. \A x \in Slots : req'[x] = IF x = s THEN Idle ELSE req[x]
  BY <1>1
<1>3. /\ token[h] # NoToken /\ h \notin resolved
      /\ \A x \in Slots \ {s} : /\ req[x].pc # "idle" => req[x].h # h
                                /\ req[x].pc \in {"del", "progress"} => req[x].data # h
  BY DEF IInv, StoresAlone
<1> HIDE DEF h
<1>4. /\ IsStore(stored', Tokens, Handoffs)
      /\ \A t \in DOMAIN stored' : (t = token[h] /\ stored'[t] = h)
                                   \/ (t \in DOMAIN stored /\ stored'[t] = stored[t])
  BY <1>1 DEF h, IInv, TypeOK, IsStore, Put
<1>5. TypeOK'
  BY <1>1, <1>4 DEF IInv, TypeOK
<1>6. \A g : Stored(g)' => Stored(g) \/ g = h
  BY <1>4 DEF Stored
<1>7. OwnTokens'
  BY <1>4 DEF IInv, OwnTokens
<1>8. Spent'
  BY <1>3, <1>6 DEF IInv, Spent
<1>9. ASSUME NEW q \in Slots PROVE StoresAlone(q)' /\ Resolving(q)'
  <2>1. CASE q = s
    BY <1>1, <1>2, <2>1 DEF StoresAlone, Resolving
  <2>2. CASE q # s
    <3>1. req'[q] = req[q] /\ StoresAlone(q) /\ Resolving(q)
      BY <1>2, <2>2 DEF IInv
    <3>2. \A x \in Slots : req'[x].pc # "idle" => req'[x] = req[x]
      BY <1>1, <1>2
    <3>3. StoresAlone(q)'
      BY <1>3, <1>6, <2>2, <3>1, <3>2 DEF StoresAlone
    <3>4. Resolving(q)'
      BY <1>3, <1>6, <2>2, <3>1 DEF Resolving
    <3> QED BY <3>3, <3>4
  <2> QED BY <2>1, <2>2
<1> QED BY <1>5, <1>7, <1>8, <1>9 DEF IInv

\* A handoff without a token is stored nowhere, answered to nobody and known to
\* no request.
LEMMA NewIsUnknown ==
    ASSUME IInv, NEW h \in Handoffs, token[h] = NoToken
    PROVE  /\ h \notin resolved /\ ~Stored(h)
           /\ \A q \in Slots : /\ req[q].pc # "idle" => req[q].h # h
                               /\ req[q].pc \in {"del", "progress"} => req[q].data # h
<1>1. h \notin resolved
  BY DEF IInv, Spent
<1>2. ~Stored(h)
  BY NamesAssumption DEF IInv, TypeOK, IsStore, OwnTokens, Stored
<1>3. ASSUME NEW q \in Slots
      PROVE  /\ req[q].pc # "idle" => req[q].h # h
             /\ req[q].pc \in {"del", "progress"} => req[q].data # h
  <2>1. req[q].pc # "idle" => token[req[q].h] # NoToken
    BY DEF IInv, Resolving, At
  <2>2. req[q].pc \in {"del", "progress"} => token[req[q].data] = token[req[q].h]
    BY DEF IInv, Resolving
  <2> QED BY <2>1, <2>2
<1> QED BY <1>1, <1>2, <1>3

LEMMA CreateStartInv ==
    ASSUME IInv, NEW s \in Slots, NEW h \in Handoffs, NEW t \in Tokens, CreateStart(s, h, t)
    PROVE  IInv'
<1> USE DEF At
<1> DEFINE r == [pc |-> "setex", h |-> h]
<1>0. r \in Request
  BY DEF Request
<1>1. /\ req \in [Slots -> Request] /\ req' = [req EXCEPT ![s] = r]
      /\ token \in [Handoffs -> Tokens \cup {NoToken}] /\ token' = [token EXCEPT ![h] = t]
      /\ token[h] = NoToken /\ t # NoToken /\ UNCHANGED <<stored, resolved, again, lost>>
  BY NamesAssumption DEF CreateStart, Continue, IInv, TypeOK, observerVars
<1>2. TypeOK'
  BY <1>0, <1>1 DEF IInv, TypeOK
<1>3. \A g \in Handoffs : g # h => token'[g] = token[g]
  BY <1>1
<1>4. /\ h \notin resolved /\ ~Stored(h)
      /\ \A q \in Slots : /\ req[q].pc # "idle" => req[q].h # h
                          /\ req[q].pc \in {"del", "progress"} => req[q].data # h
  BY <1>1, NewIsUnknown
<1>5. OwnTokens'
  <2>1. \A x \in DOMAIN stored : stored[x] \in Handoffs /\ token[stored[x]] = x /\ stored[x] # h
    BY <1>4 DEF IInv, TypeOK, IsStore, OwnTokens, Stored
  <2> QED BY <1>1, <1>3, <2>1 DEF OwnTokens
<1>6. Spent'
  BY <1>1, <1>3, <1>4 DEF IInv, TypeOK, Spent, Stored
<1>7. ASSUME NEW q \in Slots, req[q].pc # "idle"
      PROVE  /\ token'[req[q].h] = token[req[q].h]
             /\ req[q].pc \in {"del", "progress"} => token'[req[q].data] = token[req[q].data]
  BY <1>1, <1>3, <1>4, <1>7 DEF Request, Idle
<1>8. ASSUME NEW q \in Slots PROVE StoresAlone(q)' /\ Resolving(q)'
  <2>1. CASE q = s
    <3>1. req'[s] = r /\ token'[h] = t
      BY <1>1
    <3>2. \A x \in Slots \ {s} : req'[x] = req[x]
      BY <1>1
    <3> QED BY <1>1, <1>4, <2>1, <3>1, <3>2 DEF StoresAlone, Resolving, Stored
  <2>2. CASE q # s
    <3>1. req'[q] = req[q] /\ StoresAlone(q) /\ Resolving(q)
      BY <1>1, <2>2 DEF IInv
    <3>2. \A x \in Slots : req'[x] = IF x = s THEN r ELSE req[x]
      BY <1>1
    <3>3. StoresAlone(q)'
      <4> SUFFICES ASSUME req[q].pc = "setex" PROVE StoresAlone(q)'
        BY <3>1 DEF StoresAlone
      <4>1. /\ token[req[q].h] # NoToken /\ req[q].h \notin resolved /\ ~Stored(req[q].h)
            /\ \A x \in Slots \ {q} : /\ req[x].pc # "idle" => req[x].h # req[q].h
                                      /\ req[x].pc \in {"del", "progress"} => req[x].data # req[q].h
        BY <3>1 DEF StoresAlone
      <4>2. r.pc = "setex" /\ r.h = h /\ req[q].h # h
        BY <1>4
      <4>3. token'[req[q].h] = token[req[q].h]
        BY <1>7
      <4> QED BY <1>1, <3>1, <3>2, <4>1, <4>2, <4>3 DEF StoresAlone, Stored
    <3>4. Resolving(q)'
      BY <1>1, <1>7, <3>1 DEF Resolving, Stored
    <3> QED BY <3>3, <3>4
  <2> QED BY <2>1, <2>2
<1> QED BY <1>2, <1>5, <1>6, <1>8 DEF IInv

LEMMA StepInv ==
    ASSUME IInv, NEW s \in Slots, Step(s)
    PROVE  IInv'
<1> USE DEF At
<1>r. /\ req[s] \in Request /\ Idle \in Request /\ Idle.pc = "idle" /\ req \in [Slots -> Request]
      /\ resolved \subseteq Handoffs /\ again \subseteq Handoffs /\ lost \subseteq Handoffs
      /\ IsStore(stored, Tokens, Handoffs)
  BY DEF IInv, TypeOK, Request, Idle
<1>1. CASE CreateStore(s)
  BY <1>1, <1>r, StoresInv DEF CreateStore, Continue, observerVars
<1>2. CASE CreateFails(s)
  <2>1. req[s].h \in Handoffs
    BY <1>2, <1>r DEF CreateFails, Request, Idle
  <2>2. CASE stored' = stored
    BY <1>2, <1>r, <2>1, <2>2, MovesOn DEF CreateFails, Continue
  <2>3. CASE stored' = Put(stored, token[req[s].h], req[s].h)
    BY <1>2, <1>r, <2>1, <2>3, StoresInv DEF CreateFails, Continue
  <2> QED BY <1>2, <2>2, <2>3 DEF CreateFails
<1>3. CASE ResolveFound(s)
  <2> DEFINE h == req[s].h
             r == [pc |-> "del", h |-> h, before |-> req[s].before, data |-> stored[token[h]]]
  <2>1. h \in Handoffs /\ req[s].before \subseteq Handoffs /\ req[s].pc = "get" /\ token[h] \in DOMAIN stored
    BY <1>3, <1>r DEF ResolveFound, Request, Idle
  <2>2. /\ stored[token[h]] \in Handoffs /\ token[stored[token[h]]] = token[h]
        /\ Stored(stored[token[h]])
    BY <1>r, <2>1 DEF IsStore, IInv, OwnTokens, Stored
  <2>3. stored[token[h]] \notin req[s].before
    BY <2>1, <2>2 DEF IInv, Resolving, Spent
  <2>4. \A q \in Slots : req[q].pc = "setex" => req[q].h # stored[token[h]]
    BY <2>2 DEF IInv, StoresAlone
  <2>5. r \in Request
    BY <2>1, <2>2 DEF Request
  <2>6. req' = [req EXCEPT ![s] = r] /\ UNCHANGED <<stored, token, resolved, again, lost>>
    BY <1>3 DEF ResolveFound, Continue, observerVars
  <2> QED BY <1>r, <2>1, <2>2, <2>3, <2>4, <2>5, <2>6, MovesOn
<1>4. CASE ResolveAbsent(s)
  BY <1>4, <1>r, MovesOn DEF ResolveAbsent, Continue, observerVars
<1>5. CASE ResolveDel(s)
  <2> DEFINE D == {token[req[s].h]}
             r == [req[s] EXCEPT !.pc = "progress"]
  <2>1. /\ r \in Request /\ r.pc = "progress" /\ r.h = req[s].h /\ r.before = req[s].before
        /\ r.data = req[s].data /\ req[s].pc = "del"
    BY <1>5, <1>r DEF ResolveDel, Request, Idle
  <2>2. req' = [req EXCEPT ![s] = r] /\ stored' = Drop(stored, D) /\ UNCHANGED <<token, resolved, again, lost>>
    BY <1>5 DEF ResolveDel, Continue, observerVars
  <2> HIDE DEF r
  <2>3. token[r.data] = token[r.h] /\ r.data \notin r.before
    BY <2>1 DEF IInv, Resolving
  <2>4. \A q \in Slots : req[q].pc = "setex" => req[q].h # r.data
    BY <2>1 DEF IInv, StoresAlone
  <2>5. \A t \in DOMAIN stored' : t \in DOMAIN stored /\ stored'[t] = stored[t] /\ t # token[r.h]
    BY <2>1, <2>2, DropsOnly
  <2>6. \A t \in DOMAIN stored' : stored'[t] # r.data
    BY <2>3, <2>5 DEF IInv, OwnTokens
  <2>7. IsStore(stored', Tokens, Handoffs)
    BY <2>2, DropsOnly
  <2> QED BY <1>r, <2>1, <2>2, <2>3, <2>4, <2>5, <2>6, <2>7, MovesOn
<1>6. CASE ResolveDelFails(s)
  <2>1. req[s].data \in Handoffs
    BY <1>6, <1>r DEF ResolveDelFails, Request, Idle
  <2>2. IsStore(stored', Tokens, Handoffs) /\ \A t \in DOMAIN stored' : t \in DOMAIN stored /\ stored'[t] = stored[t]
    BY <1>6, <1>r, DropsOnly DEF ResolveDelFails
  <2> QED BY <1>6, <1>r, <2>1, <2>2, MovesOn DEF ResolveDelFails, Continue
<1>7. CASE ResolveAnswer(s)
  <2>1. /\ req[s].data \in Handoffs /\ req[s].pc = "progress" /\ token[req[s].data] = token[req[s].h]
        /\ token[req[s].h] # NoToken /\ ~Stored(req[s].data)
    BY <1>7, <1>r DEF ResolveAnswer, Request, Idle, IInv, Resolving
  <2>2. \A q \in Slots : req[q].pc = "setex" => req[q].h # req[s].data
    BY <2>1 DEF IInv, StoresAlone
  <2>3. /\ req' = [req EXCEPT ![s] = Idle] /\ resolved' = resolved \cup {req[s].data}
        /\ again' = again \cup ({req[s].data} \cap resolved) /\ UNCHANGED <<stored, token, lost>>
    BY <1>7 DEF ResolveAnswer, Continue
  <2> QED BY <1>r, <2>1, <2>2, <2>3, MovesOn
<1>8. CASE ResolveFails(s)
  <2>1. req[s].data \in Handoffs
    BY <1>8, <1>r DEF ResolveFails, Request, Idle
  <2> QED BY <1>8, <1>r, <2>1, MovesOn DEF ResolveFails, Continue
<1> QED BY <1>1, <1>2, <1>3, <1>4, <1>5, <1>6, <1>7, <1>8 DEF Step

LEMMA ResolveStartInv ==
    ASSUME IInv, NEW s \in Slots, NEW h \in Handoffs, ResolveStart(s, h)
    PROVE  IInv'
<1> USE DEF At
<1> DEFINE r == [pc |-> "get", h |-> h, before |-> resolved]
<1>1. r \in Request /\ r.pc = "get" /\ r.h = h /\ r.before = resolved
  BY DEF IInv, TypeOK, Request
<1>2. /\ req' = [req EXCEPT ![s] = r] /\ req \in [Slots -> Request] /\ token[h] # NoToken /\ req[s].pc = "idle"
      /\ \A q \in Slots : ~(req[q].pc = "setex" /\ req[q].h = h)
      /\ UNCHANGED <<stored, token, resolved, again, lost>>
  BY DEF ResolveStart, Continue, Given, IInv, TypeOK, observerVars
<1> HIDE DEF r
<1>3. TypeOK'
  BY <1>1, <1>2 DEF IInv, TypeOK
<1>4. OwnTokens' /\ Spent'
  BY <1>2 DEF IInv, OwnTokens, Spent, Stored
<1>5. ASSUME NEW q \in Slots PROVE StoresAlone(q)' /\ Resolving(q)'
  <2>1. CASE q = s
    BY <1>1, <1>2, <2>1 DEF StoresAlone, Resolving
  <2>2. CASE q # s
    BY <1>1, <1>2, <2>2 DEF IInv, StoresAlone, Resolving, Stored
  <2> QED BY <2>1, <2>2
<1> QED BY <1>3, <1>4, <1>5 DEF IInv

LEMMA LossInv ==
    ASSUME IInv, (\E t \in Tokens : Expires(t)) \/ Crash
    PROVE  IInv'
<1> USE DEF At
<1>r. req \in [Slots -> Request] /\ Idle \in Request /\ Idle.pc = "idle"
  BY DEF IInv, TypeOK, Request, Idle
<1>1. ASSUME NEW t \in Tokens, Expires(t) PROVE IInv'
  <2>1. t \in DOMAIN stored /\ stored' = Drop(stored, {t}) /\ lost' = lost \cup {stored[t]}
        /\ UNCHANGED <<token, req, resolved, again>>
    BY <1>1 DEF Expires
  <2>2. IsStore(stored', Tokens, Handoffs)
        /\ \A x \in DOMAIN stored' : x \in DOMAIN stored /\ stored'[x] = stored[x]
    BY <2>1, DropsOnly
  <2>3. TypeOK'
    BY <2>1, <2>2 DEF IInv, TypeOK, IsStore
  <2>4. OwnTokens' /\ Spent' /\ \A h : Stored(h)' => Stored(h)
    BY <2>1, <2>2 DEF IInv, OwnTokens, Spent, Stored
  <2>5. \A q \in Slots : StoresAlone(q)' /\ Resolving(q)'
    BY <2>1, <2>4 DEF IInv, StoresAlone, Resolving
  <2> QED BY <2>3, <2>4, <2>5 DEF IInv
<1>2. CASE Crash
  <2>1. /\ req' = [s \in Slots |-> Idle] /\ UNCHANGED <<stored, token, resolved, again>>
        /\ lost' = lost \cup {req[s].h : s \in {q \in Slots : req[q].pc = "setex"}}
                        \cup {req[s].data : s \in {q \in Slots : req[q].pc = "del" \/ req[q].pc = "progress"}}
    BY <1>2 DEF Crash
  <2>2. \A s \in Slots : /\ req[s].pc = "setex" => req[s].h \in Handoffs
                         /\ req[s].pc \in {"del", "progress"} => req[s].data \in Handoffs
    BY <1>r DEF Request, Idle
  <2>3. TypeOK'
    BY <1>r, <2>1, <2>2 DEF IInv, TypeOK
  <2>4. OwnTokens' /\ Spent'
    BY <2>1 DEF IInv, OwnTokens, Spent, Stored
  <2>5. \A q \in Slots : StoresAlone(q)' /\ Resolving(q)'
    BY <1>r, <2>1 DEF StoresAlone, Resolving
  <2> QED BY <2>3, <2>4, <2>5 DEF IInv
<1> QED BY <1>1, <1>2

\* The invariant behind the theorems below is inductive.
THEOREM Invariant == Spec => []IInv
<1>1. IInv /\ [Next]_vars => IInv'
  <2> SUFFICES ASSUME IInv, [Next]_vars PROVE IInv'
    OBVIOUS
  <2>1. CASE UNCHANGED vars
    BY <2>1 DEF vars, observerVars, IInv, TypeOK, OwnTokens, Spent, Stored, StoresAlone, Resolving, At
  <2>2. CASE Next
    BY <2>2, CreateStartInv, ResolveStartInv, StepInv, LossInv DEF Next
  <2> QED BY <2>1, <2>2
<1> QED BY <1>1, InitInv, PTL DEF Spec

\* A request that arrives after an answer does not get it again.
THEOREM ResolutionOnce == Spec => []LaterUseFails
<1>1. IInv => LaterUseFails
  BY DEF IInv, Resolving, LaterUseFails
<1> QED BY <1>1, Invariant, PTL
-------------------------------------------------------------------------------
(* Available is inductive beside IInv: no request on another token stores  *)
(* over a handoff that is alone on its own, or deletes it.                 *)

\* A handoff a client was given, alone on its token, and that nobody resolved,
\* resolves or lost.
Waits(h) ==
    /\ Given(h) /\ Alone(h) /\ h \notin resolved \cup lost
    /\ \A s \in Slots : At(s, "progress") => req[s].data # h

\* What is stored under the token of a handoff that waited before a step and waits
\* after it is not touched by a command on another token.
LEMMA KeepsOthers ==
    ASSUME IInv, Available, NEW h \in Handoffs, Waits(h), NEW g \in Handoffs, g # h
    PROVE  /\ token[h] \in DOMAIN Put(stored, token[g], g)
           /\ Put(stored, token[g], g)[token[h]] = h
           /\ token[h] \in DOMAIN Drop(stored, {token[g]})
           /\ Drop(stored, {token[g]})[token[h]] = h
<1>1. token[h] \in DOMAIN stored /\ stored[token[h]] = h
  BY DEF Available, Waits
<1>2. token[h] # token[g]
  BY DEF Waits, Alone
<1>3. token[h] \in DOMAIN Put(stored, token[g], g) /\ Put(stored, token[g], g)[token[h]] = h
  BY <1>1, <1>2 DEF Put
<1>4. token[h] \in DOMAIN Drop(stored, {token[g]}) /\ Drop(stored, {token[g]})[token[h]] = h
  BY <1>1, <1>2 DEF Drop, Restrict
<1> QED BY <1>3, <1>4

\* A request's step keeps stored every handoff that waits after it.
LEMMA StepAvailable ==
    ASSUME IInv, Available, NEW s \in Slots, Step(s), NEW h \in Handoffs, Waits(h)'
    PROVE  token[h] \in DOMAIN stored' /\ stored'[token[h]] = h
<1> USE DEF At
<1>1. /\ req \in [Slots -> Request] /\ req[s] \in Request /\ token' = token
      /\ \E r : req' = [req EXCEPT ![s] = r]
      /\ resolved \subseteq resolved' /\ lost \subseteq lost'
  BY DEF IInv, TypeOK, Step, CreateStore, CreateFails, ResolveFound, ResolveAbsent, ResolveDel,
     ResolveDelFails, ResolveAnswer, ResolveFails, Continue, observerVars
<1>2. req[s].pc # "idle" => req[s].h \in Handoffs /\ token[req[s].h] # NoToken
  BY <1>1 DEF IInv, Resolving, Request, Idle
<1>3. req[s].pc \in {"del", "progress"} /\ req[s].h = h => req[s].data = h
  <2>1. req[s].pc \in {"del", "progress"} => req[s].data \in Handoffs /\ token[req[s].data] = token[req[s].h]
    BY <1>1 DEF IInv, Resolving, Request, Idle
  <2> QED BY <1>1, <2>1 DEF Waits, Alone
<1>4. ASSUME req[s].pc = "setex" => req[s].h # h, req[s].pc = "progress" => req[s].data # h
      PROVE Waits(h)
  <2>1. /\ token[h] # NoToken /\ Alone(h) /\ h \notin resolved \cup lost
        /\ \A q \in Slots : ~(req'[q].pc = "setex" /\ req'[q].h = h)
        /\ \A q \in Slots : req'[q].pc = "progress" => req'[q].data # h
    BY <1>1 DEF Waits, Given, Alone
  <2>2. \A q \in Slots : q # s => req'[q] = req[q]
    BY <1>1
  <2> QED BY <1>4, <2>1, <2>2 DEF Waits, Given
<1>5. CASE CreateStore(s)
  <2>1. req[s].pc = "setex" /\ stored' = Put(stored, token[req[s].h], req[s].h)
    BY <1>5 DEF CreateStore
  <2>2. CASE req[s].h = h
    BY <2>1, <2>2 DEF Put
  <2>3. CASE req[s].h # h
    BY <1>2, <1>4, <2>1, <2>3, KeepsOthers
  <2> QED BY <2>2, <2>3
<1>6. CASE CreateFails(s)
  <2>1. /\ req[s].pc = "setex" /\ req[s].h # h
        /\ stored' \in {stored, Put(stored, token[req[s].h], req[s].h)}
    BY <1>6 DEF CreateFails, Waits
  <2>2. Waits(h)
    BY <1>4, <2>1
  <2> QED BY <1>2, <2>1, <2>2, KeepsOthers DEF Available, Waits
<1>7. CASE ResolveFound(s) \/ ResolveAbsent(s)
  <2>1. req[s].pc = "get" /\ stored' = stored
    BY <1>7 DEF ResolveFound, ResolveAbsent
  <2> QED BY <1>4, <2>1 DEF Available, Waits
<1>8. CASE ResolveDel(s)
  <2>1. /\ req[s].pc = "del" /\ stored' = Drop(stored, {token[req[s].h]})
        /\ req'[s] = [req[s] EXCEPT !.pc = "progress"]
    BY <1>1, <1>8 DEF ResolveDel, Continue
  <2>2. req'[s].pc = "progress" /\ req'[s].data = req[s].data
    BY <1>1, <2>1 DEF Request, Idle
  <2>3. req[s].h # h
    BY <1>3, <2>1, <2>2 DEF Waits
  <2> QED BY <1>2, <1>4, <2>1, <2>3, KeepsOthers
<1>9. CASE ResolveDelFails(s)
  <2>1. /\ req[s].pc = "del" /\ req[s].h # h /\ req[s].data # h
        /\ stored' \in {stored, Drop(stored, {token[req[s].h]})}
    BY <1>3, <1>9 DEF ResolveDelFails, Waits
  <2>2. Waits(h)
    BY <1>4, <2>1
  <2> QED BY <1>2, <2>1, <2>2, KeepsOthers DEF Available, Waits
<1>10. CASE ResolveAnswer(s) \/ ResolveFails(s)
  <2>1. req[s].pc = "progress" /\ req[s].data # h /\ stored' = stored
    BY <1>10 DEF ResolveAnswer, ResolveFails, Waits
  <2> QED BY <1>4, <2>1 DEF Available, Waits
<1> QED BY <1>5, <1>6, <1>7, <1>8, <1>9, <1>10 DEF Step

\* A handoff that a client was given and nobody took stays in Redis: a request
\* that starts, crashes or works on another token leaves it there.
LEMMA AvailableKept == ASSUME IInv, Available, [Next]_vars PROVE Available'
<1> USE DEF At
<1> SUFFICES ASSUME NEW h \in Handoffs, Waits(h)'
             PROVE  token'[h] \in DOMAIN stored' /\ stored'[token'[h]] = h
  BY DEF Available, Waits
<1>1. req \in [Slots -> Request] /\ token \in [Handoffs -> Tokens \cup {NoToken}]
  BY DEF IInv, TypeOK
<1>2. Waits(h) => token[h] \in DOMAIN stored /\ stored[token[h]] = h
  BY DEF Available, Waits
<1>3. CASE UNCHANGED vars
  BY <1>2, <1>3 DEF vars, observerVars, Waits, Given, Alone
<1>4. ASSUME NEW s \in Slots, NEW g \in Handoffs, NEW t \in Tokens, CreateStart(s, g, t)
      PROVE  token'[h] \in DOMAIN stored' /\ stored'[token'[h]] = h
  <2>1. /\ req' = [req EXCEPT ![s] = [pc |-> "setex", h |-> g]] /\ req[s].pc = "idle"
        /\ token' = [token EXCEPT ![g] = t] /\ UNCHANGED <<stored, resolved, lost>>
    BY <1>4 DEF CreateStart, Continue, observerVars
  <2>2. g # h
    BY <1>1, <2>1 DEF Waits, Given
  <2>3. token'[h] = token[h] /\ \A q \in Slots : q # s => req'[q] = req[q]
    BY <1>1, <2>1, <2>2
  <2>4. Alone(h)
    <3>1. h # g /\ token'[h] # token'[g]
      BY <2>2 DEF Waits, Alone
    <3>2. \A x \in Handoffs \ {h, g} : token[x] # token[h]
      BY <1>1, <2>1, <2>3 DEF Waits, Alone
    <3>3. token[g] # token[h]
      BY <2>3, <1>4 DEF CreateStart, Waits, Given
    <3> QED BY <3>2, <3>3 DEF Alone
  <2>5. Waits(h)
    BY <2>1, <2>3, <2>4 DEF Waits, Given
  <2> QED BY <1>2, <2>1, <2>3, <2>5
<1>5. ASSUME NEW s \in Slots, NEW g \in Handoffs, ResolveStart(s, g)
      PROVE  token'[h] \in DOMAIN stored' /\ stored'[token'[h]] = h
  <2>1. /\ \E r : req' = [req EXCEPT ![s] = r]
        /\ req[s].pc = "idle" /\ UNCHANGED <<stored, token, resolved, lost>>
    BY <1>5 DEF ResolveStart, Continue, observerVars
  <2>2. \A q \in Slots : q # s => req'[q] = req[q]
    BY <1>1, <2>1
  <2>3. Waits(h)
    BY <2>1, <2>2 DEF Waits, Given, Alone
  <2> QED BY <1>2, <2>1, <2>3
<1>6. ASSUME NEW s \in Slots, Step(s)
      PROVE  token'[h] \in DOMAIN stored' /\ stored'[token'[h]] = h
  <2>1. token' = token
    BY <1>6 DEF Step, CreateStore, CreateFails, ResolveFound, ResolveAbsent, ResolveDel,
       ResolveDelFails, ResolveAnswer, ResolveFails, observerVars
  <2> QED BY <1>6, <2>1, StepAvailable
<1>7. ASSUME NEW t \in Tokens, Expires(t)
      PROVE  token'[h] \in DOMAIN stored' /\ stored'[token'[h]] = h
  <2>1. /\ stored' = Drop(stored, {t}) /\ lost' = lost \cup {stored[t]}
        /\ UNCHANGED <<token, req, resolved>>
    BY <1>7 DEF Expires
  <2>2. Waits(h) /\ stored[t] # h
    BY <2>1 DEF Waits, Given, Alone
  <2>3. token[h] # t
    BY <1>2, <2>2
  <2> QED BY <1>2, <2>1, <2>2, <2>3 DEF Drop, Restrict
<1>8. CASE Crash
  <2>1. /\ UNCHANGED <<stored, token, resolved>>
        /\ lost' = lost \cup {req[s].h : s \in {q \in Slots : req[q].pc = "setex"}}
                        \cup {req[s].data : s \in {q \in Slots : req[q].pc = "del" \/ req[q].pc = "progress"}}
    BY <1>8 DEF Crash
  <2>2. \A q \in Slots : /\ req[q].pc = "setex" => req[q].h # h
                         /\ req[q].pc = "progress" => req[q].data # h
    BY <2>1 DEF Waits
  <2>3. Waits(h)
    BY <2>1, <2>2 DEF Waits, Given, Alone
  <2> QED BY <1>2, <2>1, <2>3
<1> QED BY <1>3, <1>4, <1>5, <1>6, <1>7, <1>8 DEF Next

\* A handoff whose token a client was given, and no other handoff drew, is there
\* to resolve until somebody resolves it, it expires, or a request on it fails.
THEOREM Availability == Spec => []Available
<1>1. Init => Available
  BY DEF Init, Available, Given
<1>2. IInv /\ Available /\ [Next]_vars => Available'
  BY AvailableKept
<1> QED BY <1>1, <1>2, Invariant, PTL DEF Spec
===============================================================================
