------------------------ MODULE ChannelClientProofs ------------------------
(***************************************************************************)
(* The WeCom and DingTalk clients and the media of the WeCom channel,      *)
(* modules of separate variables and constants.                            *)
(*                                                                         *)
(* No expired token reaches the service, for every number of concurrent    *)
(* calls, every timeout and every set of token lives that leave enough     *)
(* margin.  The argument is an account of time: each state of a call says  *)
(* how much of its token's life is left for the states still to come.      *)
(*                                                                         *)
(* Accepted media stays for its retention, for every number of callbacks,  *)
(* sweeps and crashes, and every retention and copy timeout with           *)
(* CopyTimeout < Retention.                                                *)
(***************************************************************************)
EXTENDS ChannelClient, MediaStore, TLAPS

\* What the cache promises of its token: at any moment before expiresAt there
\* is time left for everything but the arrival, which is past.
CacheSound == token # None => expiresAt + Slack <= Death(token) + Timeout

\* What is left for a call, counted from the moment its state began.
CallSound(p) ==
  /\ pc[p] = "answered" => resp[p] \in Token /\ since[p] <= resp[p].issued
  /\ pc[p] = "build" =>
       tok[p] \in Token /\ since[p] + Slack < Death(tok[p]) + Timeout
  /\ pc[p] = "token" /\ need[p] = "upload" =>
       tok[p] \in Token /\ since[p] + Slack < Death(tok[p]) + Timeout + Delay
  /\ pc[p] \in {"fetch", "answered"} /\ need[p] = "upload" =>
       tok[p] \in Token /\ since[p] + Slack < Death(tok[p]) + Timeout + 2 * Delay
  /\ pc[p] \in {"upload", "uploaded"} =>
       /\ tok[p] \in Token
       /\ since[p] + Slack < Death(tok[p]) + 2 * Timeout + 2 * Delay
       /\ uptok[p] \in Token /\ since[p] + Timeout + Delay < Death(uptok[p])
  /\ pc[p] = "post" => tok[p] \in Token /\ since[p] + Timeout < Death(tok[p])

\* The inductive invariant.
ClientInv ==
  /\ TypeOK
  /\ CacheSound
  /\ \A p \in Caller : CallSound(p)
  /\ NoExpiredToken

\* Tokens and grants are made of natural numbers.
LEMMA TokenTypes ==
  ASSUME NEW t \in Token
  PROVE  /\ t.issued \in Nat /\ t.grant \in Grants
         /\ t.grant.life \in Nat /\ t.grant.reported \in Nat
         /\ t.grant.life > Slack /\ t.grant.reported <= t.grant.life
         /\ Death(t) = t.issued + t.grant.life /\ Death(t) \in Nat
<1>1. t.issued \in Nat /\ t.grant \in Grants
  BY ClientAssumption DEF Token
<1> QED
  BY <1>1, ClientAssumption DEF Death

\* The invariant holds for a new client.
LEMMA ClientInit == Init => ClientInv
<1> SUFFICES ASSUME Init PROVE ClientInv
  OBVIOUS
<1>1. 0 \in 0..MaxTime
  BY ClientAssumption
<1>2. TypeOK
  <2>1. /\ client \in Clients /\ now \in 0..MaxTime /\ token \in Token \cup {None}
        /\ expiresAt \in Int
    BY <1>1 DEF Init
  <2>5. stale \in BOOLEAN
    BY Zenon DEF Init
  <2>2. /\ pc \in [Caller -> {"idle", "token", "build"} \cup Network]
        /\ kind \in [Caller -> {"text", "media", "download"}]
        /\ need \in [Caller -> {"call", "upload"}]
        /\ since \in [Caller -> 0..MaxTime]
    BY <1>1 DEF Init
  <2>3. /\ tok \in [Caller -> Token \cup {None}]
        /\ uptok \in [Caller -> Token \cup {None}]
        /\ resp \in [Caller -> Token \cup {None}]
    BY DEF Init
  <2>4. \A p \in Caller : since[p] = 0 /\ now = 0 /\ pc[p] = "idle"
    BY DEF Init
  <2> QED
    BY <2>1, <2>2, <2>3, <2>4, <2>5 DEF TypeOK
<1>3. CacheSound /\ NoExpiredToken
  BY DEF Init, CacheSound, NoExpiredToken
<1>4. \A p \in Caller : CallSound(p)
  BY DEF Init, CallSound
<1> QED
  BY <1>2, <1>3, <1>4 DEF ClientInv

\* A token got from the cache or from the service leaves time for everything
\* but its arrival.
LEMMA Arrived ==
  ASSUME ClientInv, NEW p \in Caller
  PROVE  /\ Usable => token \in Token /\ now + Slack < Death(token) + Timeout
         /\ pc[p] = "answered" =>
              resp[p] \in Token /\ now + Slack < Death(resp[p]) + Timeout
<1>1. /\ now \in Nat /\ Slack \in Nat /\ Timeout \in Nat /\ since[p] \in Nat
      /\ expiresAt \in Int
  BY ClientAssumption DEF ClientInv, TypeOK, Slack
<1>2. Usable => token \in Token /\ now + Slack < Death(token) + Timeout
  <2> SUFFICES ASSUME Usable PROVE token \in Token /\ now + Slack < Death(token) + Timeout
    OBVIOUS
  <2>1. token \in Token
    BY DEF Usable, ClientInv, TypeOK
  <2>2. expiresAt + Slack <= Death(token) + Timeout /\ now < expiresAt
    BY DEF Usable, ClientInv, CacheSound
  <2> QED
    BY <1>1, <2>1, <2>2, TokenTypes
<1>3. ASSUME pc[p] = "answered"
      PROVE  resp[p] \in Token /\ now + Slack < Death(resp[p]) + Timeout
  <2>1. resp[p] \in Token /\ since[p] <= resp[p].issued
    BY <1>3 DEF ClientInv, CallSound
  <2>2. now <= since[p] + Timeout
    BY <1>3 DEF ClientInv, TypeOK, Limit
  <2> QED
    BY <1>1, <2>1, <2>2, TokenTypes
<1> QED
  BY <1>2, <1>3

\* What is kept in the cache expires in time for the calls that will use it.
LEMMA StoredIsSound ==
  ASSUME ClientInv, NEW p \in Caller, pc[p] = "answered"
  PROVE  LET e == now + Lifetime(resp[p].grant.reported)
         IN  e \in Int /\ e + Slack <= Death(resp[p]) + Timeout
<1> DEFINE g == resp[p].grant
<1>1. /\ now \in Nat /\ Slack \in Nat /\ Timeout \in Nat /\ Margin \in Nat
      /\ DefaultLife \in Nat /\ since[p] \in Nat /\ client \in Clients
      /\ Slack <= Margin
  BY ClientAssumption DEF ClientInv, TypeOK, Slack
<1>2. resp[p] \in Token /\ since[p] <= resp[p].issued
  BY DEF ClientInv, CallSound
<1>3. now <= since[p] + Timeout
  BY DEF ClientInv, TypeOK, Limit
<1>4. /\ resp[p].issued \in Nat /\ g \in Grants /\ g.life \in Nat /\ g.reported \in Nat
      /\ g.reported <= g.life /\ Death(resp[p]) = resp[p].issued + g.life
  BY <1>2, TokenTypes
<1>5. Lifetime(g.reported) \in Int /\ Lifetime(g.reported) + Slack <= g.life
  <2>1. CASE client = "wecom"
    BY <1>1, <1>4, <2>1 DEF Lifetime
  <2>2. CASE client = "dingtalk"
    <3>1. IF g.reported = 0 THEN DefaultLife + Slack <= g.life ELSE g.reported > Margin
      BY <1>1, <1>4, <2>2, ClientAssumption
    <3> QED
      BY <1>1, <1>4, <2>2, <3>1 DEF Lifetime
  <2> QED
    BY <1>1, <2>1, <2>2, ClientAssumption
<1> HIDE DEF g
<1> QED
  BY <1>1, <1>2, <1>3, <1>4, <1>5 DEF g

\* getAccessToken's return: the caller's state after it is sound.
LEMMA GotIsSound ==
  ASSUME ClientInv, NEW p \in Caller, NEW t \in Token,
         pc[p] \in {"token", "answered"},
         now + Slack < Death(t) + Timeout,
         Got(p, t), UNCHANGED <<now, need, resp>>
  PROVE  /\ pc' \in [Caller -> {"idle", "token", "build"} \cup Network]
         /\ tok' \in [Caller -> Token \cup {None}]
         /\ uptok' \in [Caller -> Token \cup {None}]
         /\ since' \in [Caller -> 0..MaxTime]
         /\ since'[p] = now /\ pc'[p] \in {"build", "upload"}
         /\ CallSound(p)'
         /\ \A q \in Caller : q # p =>
              /\ pc'[q] = pc[q] /\ tok'[q] = tok[q]
              /\ uptok'[q] = uptok[q] /\ since'[q] = since[q]
<1>1. /\ now \in 0..MaxTime /\ now \in Nat /\ Slack = 4 * Timeout + 3 * Delay
      /\ Timeout \in Nat /\ Delay \in Nat /\ since[p] \in Nat
  BY ClientAssumption DEF ClientInv, TypeOK, Slack
<1>2. Death(t) \in Nat
  BY TokenTypes
<1>3. CASE need[p] = "upload"
  <2>1. /\ pc' = [pc EXCEPT ![p] = "upload"] /\ since' = [since EXCEPT ![p] = now]
        /\ uptok' = [uptok EXCEPT ![p] = t] /\ tok' = tok
    BY <1>3 DEF Got, Enter, Goto
  <2>2. /\ tok[p] \in Token
        /\ since[p] + Slack < Death(tok[p]) + Timeout + 2 * Delay
        /\ now <= since[p] + Timeout \/ now <= since[p] + Delay
        /\ pc[p] = "token" => /\ now <= since[p] + Delay
                              /\ since[p] + Slack < Death(tok[p]) + Timeout + Delay
        /\ pc[p] # "token" => now <= since[p] + Timeout
    <3>1. CASE pc[p] = "token"
      <4>1. tok[p] \in Token /\ since[p] + Slack < Death(tok[p]) + Timeout + Delay
        BY <1>3, <3>1 DEF ClientInv, CallSound
      <4>2. now <= since[p] + Delay
        BY <3>1 DEF ClientInv, TypeOK, Limit
      <4>3. Death(tok[p]) \in Nat
        BY <4>1, TokenTypes
      <4> QED
        BY <1>1, <3>1, <4>1, <4>2, <4>3
    <3>2. CASE pc[p] = "answered"
      <4>1. tok[p] \in Token /\ since[p] + Slack < Death(tok[p]) + Timeout + 2 * Delay
        BY <1>3, <3>2 DEF ClientInv, CallSound
      <4>2. now <= since[p] + Timeout
        BY <3>2 DEF ClientInv, TypeOK, Limit
      <4> QED
        BY <1>1, <3>2, <4>1, <4>2
    <3> QED
      BY <3>1, <3>2
  <2>3. Death(tok[p]) \in Nat
    BY <2>2, TokenTypes
  <2>4. now + Slack < Death(tok[p]) + 2 * Timeout + 2 * Delay
    BY <1>1, <2>2, <2>3
  <2>5. now + Timeout + Delay < Death(t)
    BY <1>1, <1>2
  <2>6. pc'[p] = "upload" /\ since'[p] = now /\ uptok'[p] = t /\ tok'[p] = tok[p]
    BY <2>1 DEF ClientInv, TypeOK
  <2>7. CallSound(p)'
    BY <2>2, <2>4, <2>5, <2>6 DEF CallSound, Death
  <2> QED
    BY <1>1, <2>1, <2>6, <2>7 DEF ClientInv, TypeOK, Network
<1>4. CASE need[p] # "upload"
  <2>1. /\ pc' = [pc EXCEPT ![p] = "build"] /\ since' = [since EXCEPT ![p] = now]
        /\ tok' = [tok EXCEPT ![p] = t] /\ uptok' = uptok
    BY <1>4 DEF Got, Enter, Goto
  <2>2. pc'[p] = "build" /\ since'[p] = now /\ tok'[p] = t
    BY <2>1 DEF ClientInv, TypeOK
  <2>3. CallSound(p)'
    BY <2>2 DEF CallSound, Death
  <2> QED
    BY <1>1, <2>1, <2>2, <2>3 DEF ClientInv, TypeOK, Network
<1> QED
  BY <1>3, <1>4

\* The types of what belongs to the calls.
CallTypes ==
  /\ pc \in [Caller -> {"idle", "token", "build"} \cup Network]
  /\ kind \in [Caller -> {"text", "media", "download"}]
  /\ need \in [Caller -> {"call", "upload"}]
  /\ tok \in [Caller -> Token \cup {None}]
  /\ uptok \in [Caller -> Token \cup {None}]
  /\ resp \in [Caller -> Token \cup {None}]
  /\ since \in [Caller -> 0..MaxTime]

\* Call q is in the same state, with the same knowledge.
Untouched(q) ==
  /\ pc'[q] = pc[q] /\ need'[q] = need[q] /\ since'[q] = since[q]
  /\ tok'[q] = tok[q] /\ uptok'[q] = uptok[q] /\ resp'[q] = resp[q]

\* A step of one call keeps the invariant when it keeps the call's part of it
\* and the cache's.
LEMMA OneCallMoves ==
  ASSUME ClientInv, NEW p \in Caller,
         UNCHANGED <<client, now>>,
         CallTypes', CallSound(p)',
         \A q \in Caller : q # p => Untouched(q),
         since'[p] <= now,
         pc'[p] # "idle" => now <= since'[p] + Limit(pc'[p]),
         token' \in Token \cup {None}, expiresAt' \in Int, CacheSound',
         stale' = FALSE
  PROVE  ClientInv'
<1>1. \A q \in Caller : CallSound(q)'
  <2> SUFFICES ASSUME NEW q \in Caller, q # p PROVE CallSound(q)'
    OBVIOUS
  <2>1. CallSound(q) /\ Untouched(q)
    BY DEF ClientInv
  <2> QED
    BY <2>1 DEF CallSound, Untouched, Death
<1>2. \A q \in Caller : since'[q] <= now'
  BY DEF ClientInv, TypeOK, Untouched
<1>3. \A q \in Caller : pc'[q] # "idle" => now' <= since'[q] + Limit(pc'[q])
  <2> SUFFICES ASSUME NEW q \in Caller, q # p, pc'[q] # "idle"
               PROVE  now' <= since'[q] + Limit(pc'[q])
    OBVIOUS
  <2>1. pc'[q] = pc[q] /\ since'[q] = since[q]
    BY DEF Untouched
  <2>2. now <= since[q] + Limit(pc[q])
    BY <2>1 DEF ClientInv, TypeOK
  <2> QED
    BY <2>1, <2>2
<1>4. TypeOK'
  <2>1. client' \in Clients /\ now' \in 0..MaxTime /\ stale' \in BOOLEAN
    BY DEF ClientInv, TypeOK
  <2> QED
    BY <1>2, <1>3, <2>1 DEF TypeOK, CallTypes, Limit
<1> QED
  BY <1>1, <1>4 DEF ClientInv, NoExpiredToken

\* The call is over: nothing is known of it any more.
LEMMA LeaveIsSound ==
  ASSUME ClientInv, NEW p \in Caller, Leave(p),
         UNCHANGED <<client, now, token, expiresAt>>, stale' = FALSE
  PROVE  ClientInv'
<1>1. 0 \in 0..MaxTime /\ now \in 0..MaxTime
  BY ClientAssumption DEF ClientInv, TypeOK
<1>2. CallTypes'
  BY <1>1 DEF ClientInv, TypeOK, CallTypes, Leave, Goto
<1>3. pc'[p] = "idle" /\ since'[p] = 0
  BY DEF ClientInv, TypeOK, Leave, Goto
<1>4. CallSound(p)'
  BY <1>3 DEF CallSound
<1>5. \A q \in Caller : q # p => Untouched(q)
  BY DEF ClientInv, TypeOK, Untouched, Leave, Goto
<1>6. token' \in Token \cup {None} /\ expiresAt' \in Int /\ CacheSound'
  BY DEF ClientInv, TypeOK, CacheSound, Death
<1>7. since'[p] <= now
  BY <1>1, <1>3
<1> QED
  BY <1>2, <1>3, <1>4, <1>5, <1>6, <1>7, OneCallMoves

\* A call that enters state l without touching the cache.
LEMMA EnterIsSound ==
  ASSUME ClientInv, NEW p \in Caller, NEW l \in {"token", "fetch", "upload", "post"},
         Enter(p, l), CallSound(p)',
         kind' \in [Caller -> {"text", "media", "download"}],
         need' \in [Caller -> {"call", "upload"}],
         uptok' \in [Caller -> Token \cup {None}],
         \A q \in Caller : q # p => need'[q] = need[q] /\ uptok'[q] = uptok[q],
         UNCHANGED <<client, now, token, expiresAt, tok, resp, stale>>
  PROVE  ClientInv'
<1>1. now \in 0..MaxTime /\ Timeout \in Nat /\ Delay \in Nat
  BY ClientAssumption DEF ClientInv, TypeOK
<1>2. pc' = [pc EXCEPT ![p] = l] /\ since' = [since EXCEPT ![p] = now]
  BY DEF Enter, Goto
<1>3. CallTypes'
  BY <1>1, <1>2 DEF ClientInv, TypeOK, CallTypes, Network
<1>4. pc'[p] = l /\ since'[p] = now
  BY <1>2 DEF ClientInv, TypeOK
<1>5. \A q \in Caller : q # p => Untouched(q)
  BY <1>2 DEF ClientInv, TypeOK, Untouched
<1>6. token' \in Token \cup {None} /\ expiresAt' \in Int /\ CacheSound'
  BY DEF ClientInv, TypeOK, CacheSound, Death
<1>7. Limit(l) \in Nat
  BY <1>1 DEF Limit
<1>8. since'[p] <= now /\ now <= since'[p] + Limit(pc'[p])
  BY <1>1, <1>4, <1>7
<1>9. stale' = FALSE
  BY Zenon DEF ClientInv, TypeOK, NoExpiredToken
<1> QED
  BY <1>3, <1>4, <1>5, <1>6, <1>8, <1>9, OneCallMoves

\* getAccessToken's return, from the cache or from the service.
LEMMA GotKeepsInv ==
  ASSUME ClientInv, NEW p \in Caller, NEW t \in Token,
         pc[p] \in {"token", "answered"},
         now + Slack < Death(t) + Timeout,
         Got(p, t), UNCHANGED <<client, now, kind, need, resp, stale>>,
         token' \in Token \cup {None}, expiresAt' \in Int, CacheSound'
  PROVE  ClientInv'
<1>1. now \in Nat /\ Timeout \in Nat /\ Delay \in Nat
  BY ClientAssumption DEF ClientInv, TypeOK
<1>2. /\ pc' \in [Caller -> {"idle", "token", "build"} \cup Network]
      /\ tok' \in [Caller -> Token \cup {None}]
      /\ uptok' \in [Caller -> Token \cup {None}]
      /\ since' \in [Caller -> 0..MaxTime]
      /\ since'[p] = now /\ pc'[p] \in {"build", "upload"}
      /\ CallSound(p)'
      /\ \A q \in Caller : q # p =>
           /\ pc'[q] = pc[q] /\ tok'[q] = tok[q]
           /\ uptok'[q] = uptok[q] /\ since'[q] = since[q]
  BY GotIsSound
<1>3. CallTypes'
  BY <1>2 DEF CallTypes, ClientInv, TypeOK
<1>4. \A q \in Caller : q # p => Untouched(q)
  BY <1>2 DEF Untouched
<1>5. since'[p] <= now /\ now <= since'[p] + Limit(pc'[p])
  BY <1>1, <1>2 DEF Limit
<1>6. stale' = FALSE
  BY Zenon DEF ClientInv, TypeOK, NoExpiredToken
<1> QED
  BY <1>2, <1>3, <1>4, <1>5, <1>6, OneCallMoves

\* How long call p has been in its state.
LEMMA InTime ==
  ASSUME ClientInv, NEW p \in Caller
  PROVE  /\ now \in Nat /\ since[p] \in Nat /\ Timeout \in Nat /\ Delay \in Nat
         /\ Slack = 4 * Timeout + 3 * Delay
         /\ pc[p] \in {"token", "build"} => now <= since[p] + Delay
         /\ pc[p] \in {"fetch", "answered", "post"} => now <= since[p] + Timeout
         /\ pc[p] \in {"upload", "uploaded"} => now <= since[p] + Timeout + Delay
<1>1. now \in Nat /\ since[p] \in Nat /\ Timeout \in Nat /\ Delay \in Nat
  BY ClientAssumption DEF ClientInv, TypeOK
<1>2. pc[p] \in {"token", "build"} => now <= since[p] + Delay
  BY DEF ClientInv, TypeOK, Limit
<1>3. pc[p] \in {"fetch", "answered", "post"} => now <= since[p] + Timeout
  BY DEF ClientInv, TypeOK, Limit
<1>4. pc[p] \in {"upload", "uploaded"} => now <= since[p] + (Timeout + Delay)
  BY DEF ClientInv, TypeOK, Limit
<1> QED
  BY <1>1, <1>2, <1>3, <1>4 DEF Slack

\* Tokens in the cache stay sound when nobody replaces them.
LEMMA CacheKept ==
  ASSUME ClientInv, UNCHANGED <<token, expiresAt>>
  PROVE  token' \in Token \cup {None} /\ expiresAt' \in Int /\ CacheSound'
BY DEF ClientInv, TypeOK, CacheSound, Death

\* The actions of getAccessToken.
LEMMA TokenSteps ==
  ASSUME ClientInv, NEW p \in Caller
  PROVE  /\ \A k \in {"text", "media", "download"} : Begin(p, k) => ClientInv'
         /\ CacheHit(p) => ClientInv'
         /\ CacheMiss(p) => ClientInv'
         /\ \A g \in Grants : IssueToken(p, g) => ClientInv'
         /\ StoreToken(p) => ClientInv'
<1>1. ASSUME NEW k \in {"text", "media", "download"}, Begin(p, k) PROVE ClientInv'
  <2>1. pc'[p] = "token" /\ need'[p] = "call"
    BY <1>1 DEF Begin, Enter, Goto, ClientInv, TypeOK
  <2>2. CallSound(p)'
    BY <2>1 DEF CallSound
  <2>3. /\ kind' \in [Caller -> {"text", "media", "download"}]
        /\ need' \in [Caller -> {"call", "upload"}]
        /\ uptok' \in [Caller -> Token \cup {None}]
        /\ \A q \in Caller : q # p => need'[q] = need[q] /\ uptok'[q] = uptok[q]
    BY <1>1 DEF Begin, ClientInv, TypeOK
  <2>4. Enter(p, "token") /\ UNCHANGED <<client, now, token, expiresAt, tok, resp, stale>>
    BY <1>1 DEF Begin
  <2> QED
    BY <2>2, <2>3, <2>4, EnterIsSound
<1>2. ASSUME CacheHit(p) PROVE ClientInv'
  <2>1. token \in Token /\ now + Slack < Death(token) + Timeout
    BY <1>2, Arrived DEF CacheHit
  <2>2. token' \in Token \cup {None} /\ expiresAt' \in Int /\ CacheSound'
    BY <1>2, CacheKept DEF CacheHit
  <2>3. /\ pc[p] \in {"token", "answered"} /\ Got(p, token)
        /\ UNCHANGED <<client, now, kind, need, resp, stale>>
    BY <1>2 DEF CacheHit
  <2> QED
    BY <2>1, <2>2, <2>3, GotKeepsInv
<1>3. ASSUME CacheMiss(p) PROVE ClientInv'
  <2>1. pc[p] = "token" /\ pc'[p] = "fetch" /\ since'[p] = now /\ need'[p] = need[p] /\ tok'[p] = tok[p]
    BY <1>3 DEF CacheMiss, Enter, Goto, ClientInv, TypeOK
  <2>2. ASSUME need[p] = "upload"
        PROVE  tok[p] \in Token /\ now + Slack < Death(tok[p]) + Timeout + 2 * Delay
    <3>1. tok[p] \in Token /\ since[p] + Slack < Death(tok[p]) + Timeout + Delay
      BY <2>1, <2>2 DEF ClientInv, CallSound
    <3>2. Death(tok[p]) \in Nat
      BY <3>1, TokenTypes
    <3> QED
      BY <2>1, <3>1, <3>2, InTime
  <2>3. CallSound(p)'
    BY <2>1, <2>2 DEF CallSound, Death
  <2>4. /\ kind' \in [Caller -> {"text", "media", "download"}]
        /\ need' \in [Caller -> {"call", "upload"}]
        /\ uptok' \in [Caller -> Token \cup {None}]
        /\ \A q \in Caller : q # p => need'[q] = need[q] /\ uptok'[q] = uptok[q]
    BY <1>3 DEF CacheMiss, ClientInv, TypeOK
  <2>5. Enter(p, "fetch") /\ UNCHANGED <<client, now, token, expiresAt, tok, resp, stale>>
    BY <1>3 DEF CacheMiss
  <2> QED
    BY <2>3, <2>4, <2>5, EnterIsSound
<1>4. ASSUME NEW g \in Grants, IssueToken(p, g) PROVE ClientInv'
  <2> DEFINE t == [issued |-> now, grant |-> g]
  <2>1. t \in Token /\ t.issued = now
    BY DEF Token, ClientInv, TypeOK
  <2>2. /\ pc[p] = "fetch" /\ pc' = [pc EXCEPT ![p] = "answered"]
        /\ resp' = [resp EXCEPT ![p] = t]
        /\ UNCHANGED <<client, now, token, expiresAt, kind, need, tok, uptok, since, stale>>
    BY <1>4 DEF IssueToken, Goto
  <2> HIDE DEF t
  <2>3. CallTypes'
    BY <2>1, <2>2 DEF CallTypes, ClientInv, TypeOK, Network
  <2>4. pc'[p] = "answered" /\ resp'[p] = t /\ since'[p] = since[p] /\ need'[p] = need[p] /\ tok'[p] = tok[p]
    BY <2>2 DEF ClientInv, TypeOK
  <2>5. since[p] <= now /\ CallSound(p)
    BY DEF ClientInv, TypeOK
  <2>6. CallSound(p)'
    BY <2>1, <2>2, <2>4, <2>5 DEF CallSound, Death
  <2>7. \A q \in Caller : q # p => Untouched(q)
    BY <2>2 DEF ClientInv, TypeOK, Untouched
  <2>8. since'[p] <= now /\ now <= since'[p] + Limit(pc'[p])
    BY <2>2, <2>4, <2>5, InTime DEF Limit
  <2>9. token' \in Token \cup {None} /\ expiresAt' \in Int /\ CacheSound'
    BY <2>2, CacheKept
  <2>10. stale' = FALSE
    BY <2>2, Zenon DEF ClientInv, TypeOK, NoExpiredToken
  <2> QED
    BY <2>2, <2>3, <2>6, <2>7, <2>8, <2>9, <2>10, OneCallMoves
<1>5. ASSUME StoreToken(p) PROVE ClientInv'
  <2>1. /\ pc[p] = "answered" /\ token' = resp[p] /\ Got(p, resp[p])
        /\ expiresAt' = now + Lifetime(resp[p].grant.reported)
        /\ UNCHANGED <<client, now, kind, need, resp, stale>>
    BY <1>5 DEF StoreToken
  <2>2. resp[p] \in Token /\ now + Slack < Death(resp[p]) + Timeout
    BY <2>1, Arrived
  <2>3. expiresAt' \in Int /\ expiresAt' + Slack <= Death(resp[p]) + Timeout
    BY <2>1, StoredIsSound
  <2>4. CacheSound'
    BY <2>1, <2>3 DEF CacheSound, Death
  <2> QED
    BY <2>1, <2>2, <2>3, <2>4, GotKeepsInv
<1> QED
  BY <1>1, <1>2, <1>3, <1>4, <1>5

\* The actions that build and send.
LEMMA SendSteps ==
  ASSUME ClientInv, NEW p \in Caller
  PROVE  /\ Build(p) \/ AskUploadToken(p) \/ UploadWithSameToken(p) => ClientInv'
         /\ Upload(p) => ClientInv'
         /\ UploadReturns(p) => ClientInv'
         /\ LastExchange(p) => ClientInv'
         /\ Fail(p) => ClientInv'
<1>1. ASSUME Build(p) \/ AskUploadToken(p) \/ UploadWithSameToken(p) PROVE ClientInv'
  <2>1. /\ pc[p] = "build"
        /\ UNCHANGED <<client, now, token, expiresAt, kind, tok, resp, stale>>
    BY <1>1 DEF Build, AskUploadToken, UploadWithSameToken
  <2>2. tok[p] \in Token /\ since[p] + Slack < Death(tok[p]) + Timeout
    BY <2>1 DEF ClientInv, CallSound
  <2>3. Death(tok[p]) \in Nat
    BY <2>2, TokenTypes
  <2>4. /\ now + Slack < Death(tok[p]) + Timeout + Delay
        /\ now + Timeout + Delay < Death(tok[p])
        /\ now + Slack < Death(tok[p]) + 2 * Timeout + 2 * Delay
        /\ now + Timeout < Death(tok[p])
    BY <2>1, <2>2, <2>3, InTime
  <2>5. CASE /\ Enter(p, "token") /\ need' = [need EXCEPT ![p] = "upload"]
             /\ UNCHANGED uptok
    <3>1. pc'[p] = "token" /\ since'[p] = now /\ tok'[p] = tok[p]
      BY <2>1, <2>5 DEF Enter, Goto, ClientInv, TypeOK
    <3>2. CallSound(p)'
      BY <2>2, <2>4, <3>1 DEF CallSound, Death
    <3>3. /\ kind' \in [Caller -> {"text", "media", "download"}]
          /\ need' \in [Caller -> {"call", "upload"}]
          /\ uptok' \in [Caller -> Token \cup {None}]
          /\ \A q \in Caller : q # p => need'[q] = need[q] /\ uptok'[q] = uptok[q]
      BY <2>1, <2>5 DEF ClientInv, TypeOK
    <3> QED
      BY <2>1, <2>5, <3>2, <3>3, EnterIsSound
  <2>6. CASE /\ Enter(p, "upload") /\ uptok' = [uptok EXCEPT ![p] = tok[p]]
             /\ UNCHANGED need
    <3>1. pc'[p] = "upload" /\ since'[p] = now /\ tok'[p] = tok[p] /\ uptok'[p] = tok[p]
      BY <2>1, <2>6 DEF Enter, Goto, ClientInv, TypeOK
    <3>2. CallSound(p)'
      BY <2>2, <2>4, <3>1 DEF CallSound, Death
    <3>3. /\ kind' \in [Caller -> {"text", "media", "download"}]
          /\ need' \in [Caller -> {"call", "upload"}]
          /\ uptok' \in [Caller -> Token \cup {None}]
          /\ \A q \in Caller : q # p => need'[q] = need[q] /\ uptok'[q] = uptok[q]
      BY <2>1, <2>2, <2>6 DEF ClientInv, TypeOK
    <3> QED
      BY <2>1, <2>6, <3>2, <3>3, EnterIsSound
  <2>7. CASE Enter(p, "post") /\ UNCHANGED <<need, uptok>>
    <3>1. pc'[p] = "post" /\ since'[p] = now /\ tok'[p] = tok[p]
      BY <2>1, <2>7 DEF Enter, Goto, ClientInv, TypeOK
    <3>2. CallSound(p)'
      BY <2>2, <2>4, <3>1 DEF CallSound, Death
    <3>3. /\ kind' \in [Caller -> {"text", "media", "download"}]
          /\ need' \in [Caller -> {"call", "upload"}]
          /\ uptok' \in [Caller -> Token \cup {None}]
          /\ \A q \in Caller : q # p => need'[q] = need[q] /\ uptok'[q] = uptok[q]
      BY <2>1, <2>7 DEF ClientInv, TypeOK
    <3> QED
      BY <2>1, <2>7, <3>2, <3>3, EnterIsSound
  <2> QED
    BY <1>1, <2>5, <2>6, <2>7 DEF Build, AskUploadToken, UploadWithSameToken
<1>2. ASSUME Upload(p) PROVE ClientInv'
  <2>1. /\ pc[p] = "upload" /\ pc' = [pc EXCEPT ![p] = "uploaded"]
        /\ UNCHANGED <<client, now, token, expiresAt, kind, need, tok, uptok, resp, since>>
        /\ stale' = (stale \/ now >= Death(uptok[p]))
    BY <1>2 DEF Upload, Goto, Used
  <2>2. /\ CallSound(p) /\ uptok[p] \in Token
        /\ since[p] + Timeout + Delay < Death(uptok[p])
    BY <2>1 DEF ClientInv, CallSound
  <2>3. Death(uptok[p]) \in Nat
    BY <2>2, TokenTypes
  <2>4. ~(now >= Death(uptok[p]))
    BY <2>1, <2>2, <2>3, InTime
  <2>5. stale' = FALSE
    BY <2>1, <2>4, Zenon DEF ClientInv, NoExpiredToken
  <2>6. CallTypes'
    BY <2>1 DEF CallTypes, ClientInv, TypeOK, Network
  <2>7. /\ pc'[p] = "uploaded" /\ since'[p] = since[p] /\ tok'[p] = tok[p]
        /\ uptok'[p] = uptok[p]
    BY <2>1 DEF ClientInv, TypeOK
  <2>8. CallSound(p)'
    BY <2>1, <2>2, <2>7 DEF CallSound, Death
  <2>9. \A q \in Caller : q # p => Untouched(q)
    BY <2>1 DEF ClientInv, TypeOK, Untouched
  <2>10. since[p] <= now
    BY DEF ClientInv, TypeOK
  <2>11. since'[p] <= now /\ now <= since'[p] + Limit(pc'[p])
    BY <2>1, <2>7, <2>10, InTime DEF Limit
  <2>12. token' \in Token \cup {None} /\ expiresAt' \in Int /\ CacheSound'
    BY <2>1, CacheKept
  <2> QED
    BY <2>1, <2>5, <2>6, <2>8, <2>9, <2>11, <2>12, OneCallMoves
<1>3. ASSUME UploadReturns(p) PROVE ClientInv'
  <2>1. /\ pc[p] = "uploaded" /\ Enter(p, "post")
        /\ UNCHANGED <<client, now, token, expiresAt, kind, need, tok, uptok, resp, stale>>
    BY <1>3 DEF UploadReturns
  <2>2. tok[p] \in Token /\ since[p] + Slack < Death(tok[p]) + 2 * Timeout + 2 * Delay
    BY <2>1 DEF ClientInv, CallSound
  <2>3. Death(tok[p]) \in Nat
    BY <2>2, TokenTypes
  <2>4. now + Timeout < Death(tok[p])
    BY <2>1, <2>2, <2>3, InTime
  <2>5. pc'[p] = "post" /\ since'[p] = now /\ tok'[p] = tok[p]
    BY <2>1 DEF Enter, Goto, ClientInv, TypeOK
  <2>6. CallSound(p)'
    BY <2>2, <2>4, <2>5 DEF CallSound, Death
  <2>7. /\ kind' \in [Caller -> {"text", "media", "download"}]
        /\ need' \in [Caller -> {"call", "upload"}]
        /\ uptok' \in [Caller -> Token \cup {None}]
        /\ \A q \in Caller : q # p => need'[q] = need[q] /\ uptok'[q] = uptok[q]
    BY <2>1 DEF ClientInv, TypeOK
  <2> QED
    BY <2>1, <2>6, <2>7, EnterIsSound
<1>4. ASSUME LastExchange(p) PROVE ClientInv'
  <2>1. /\ pc[p] = "post" /\ Leave(p) /\ UNCHANGED <<client, now, token, expiresAt>>
        /\ stale' = (stale \/ now >= Death(tok[p]))
    BY <1>4 DEF LastExchange, Used
  <2>2. tok[p] \in Token /\ since[p] + Timeout < Death(tok[p])
    BY <2>1 DEF ClientInv, CallSound
  <2>3. Death(tok[p]) \in Nat
    BY <2>2, TokenTypes
  <2>4. ~(now >= Death(tok[p]))
    BY <2>1, <2>2, <2>3, InTime
  <2>5. stale' = FALSE
    BY <2>1, <2>4, Zenon DEF ClientInv, NoExpiredToken
  <2> QED
    BY <2>1, <2>5, LeaveIsSound
<1>5. ASSUME Fail(p) PROVE ClientInv'
  <2>1. Leave(p) /\ UNCHANGED <<client, now, token, expiresAt, stale>>
    BY <1>5 DEF Fail
  <2>2. stale' = FALSE
    BY <2>1, Zenon DEF ClientInv, TypeOK, NoExpiredToken
  <2> QED
    BY <2>1, <2>2, LeaveIsSound
<1> QED
  BY <1>1, <1>2, <1>3, <1>4, <1>5

\* Time passes: no call overruns the limit of its state.
LEMMA TickStep == ClientInv /\ Tick => ClientInv'
<1> SUFFICES ASSUME ClientInv, Tick PROVE ClientInv'
  OBVIOUS
<1>1. /\ now' = now + 1 /\ now < MaxTime
      /\ UNCHANGED <<client, token, expiresAt, pc, kind, need, tok, uptok, resp, since, stale>>
  BY DEF Tick, callVars
<1>2. now \in Nat /\ MaxTime \in Nat /\ now' \in 0..MaxTime
  BY <1>1, ClientAssumption DEF ClientInv, TypeOK
<1>3. \A p \in Caller : since'[p] <= now'
  BY <1>1, <1>2 DEF ClientInv, TypeOK
<1>4. \A p \in Caller : pc'[p] # "idle" => now' <= since'[p] + Limit(pc'[p])
  <2> SUFFICES ASSUME NEW p \in Caller, pc[p] # "idle"
               PROVE  now' <= since[p] + Limit(pc[p])
    BY <1>1
  <2>1. now < since[p] + Limit(pc[p])
    BY DEF Tick
  <2>2. /\ Timeout \in Nat /\ Delay \in Nat /\ since[p] \in Nat
        /\ pc[p] \in {"token", "build"} \cup Network
    BY ClientAssumption DEF ClientInv, TypeOK
  <2>3. Limit(pc[p]) \in Nat
    BY <2>2 DEF Limit, Network
  <2> QED
    BY <1>1, <1>2, <2>1, <2>2, <2>3
<1>5. stale' \in BOOLEAN
  BY <1>1, Zenon DEF ClientInv, TypeOK
<1>6. TypeOK'
  BY <1>1, <1>2, <1>3, <1>4, <1>5 DEF ClientInv, TypeOK, Limit
<1>7. \A p \in Caller : CallSound(p)'
  BY <1>1 DEF ClientInv, CallSound, Death
<1>8. CacheSound' /\ NoExpiredToken'
  BY <1>1 DEF ClientInv, CacheSound, Death, NoExpiredToken
<1> QED
  BY <1>6, <1>7, <1>8 DEF ClientInv

\* Every step keeps the invariant.
LEMMA ClientStep == ClientInv /\ [Next]_vars => ClientInv'
<1> SUFFICES ASSUME ClientInv, [Next]_vars PROVE ClientInv'
  OBVIOUS
<1>1. CASE Tick
  BY <1>1, TickStep
<1>2. ASSUME NEW p \in Caller, Call(p) PROVE ClientInv'
  BY <1>2, TokenSteps, SendSteps DEF Call, Post, Download
<1>3. CASE UNCHANGED vars
  BY <1>3 DEF vars, callVars, ClientInv, TypeOK, CacheSound, CallSound, Death,
              NoExpiredToken, Limit
<1> QED
  BY <1>1, <1>2, <1>3 DEF Next

\* The service never sees a token past its life, however many calls share the
\* cache and however slowly a token is fetched within the timeout
\* (wecom/client.go getAccessToken, dingtalk/app_client.go getAccessToken).
THEOREM NoStaleToken == Spec => [](TypeOK /\ NoExpiredToken)
<1>1. Init => ClientInv
  BY ClientInit
<1>2. ClientInv /\ [Next]_vars => ClientInv'
  BY ClientStep
<1>3. ClientInv => TypeOK /\ NoExpiredToken
  BY DEF ClientInv
<1> QED
  BY <1>1, <1>2, <1>3, PTL DEF Spec

-----------------------------------------------------------------------------
(* Media *)

MediaTypes ==
  /\ stage \in [Delivery -> Stages]
  /\ path \subseteq Delivery
  /\ file \in [Delivery -> {"none", "partial", "complete", "removed"}]
  /\ age \in [Delivery -> Nat]
  /\ elapsed \in Nat

\* A file that is being copied is younger than any cutoff of a sweep; so no
\* sweep removes it, however late it looks at an entry of its listing.
CopyIsYoung == \A d \in Delivery : stage[d] = "copy" => file[d] = "partial" /\ age[d] < Retention

\* The request carries a path only after the copy, and the file it names is
\* complete until it is older than the retention.
PathNamesFile ==
  \A d \in path :
    /\ stage[d] \in {"dispatch", "accepted", "refused", "gone"}
    /\ file[d] = "complete" \/ (file[d] = "removed" /\ age[d] >= Retention)

MediaInv == MediaTypes /\ CopyIsYoung /\ PathNamesFile

\* Steps of a handler.
LEMMA HandlerPreserves ==
  ASSUME MediaInv, NEW d \in Delivery, Handler(d)
  PROVE  MediaInv'
<1> USE MediaAssumption DEF MediaInv, Stages, handlerVars, fileVars, sweepVars
<1>1. CASE Receive(d) \/ DownloadFails(d) \/ Dispatch(d)
  <2>1. /\ stage[d] \in {"new", "download", "dispatch"}
        /\ \E to \in {"rejected", "dispatch", "download", "accepted", "refused"} :
             /\ stage' = [stage EXCEPT ![d] = to]
             /\ stage[d] = "dispatch" => to \in {"accepted", "refused"}
        /\ UNCHANGED <<path, file, age, elapsed>>
    BY <1>1 DEF Receive, DownloadFails, Dispatch
  <2>2. MediaTypes'
    BY <2>1 DEF MediaTypes
  <2>3. CopyIsYoung' /\ PathNamesFile'
    BY <2>1 DEF MediaTypes, CopyIsYoung, PathNamesFile
  <2>4. QED
    BY <2>2, <2>3
<1>2. CASE CreateFile(d)
  <2>1. MediaTypes'
    BY <1>2 DEF CreateFile, MediaTypes
  <2>2. CopyIsYoung' /\ PathNamesFile'
    BY <1>2 DEF CreateFile, MediaTypes, CopyIsYoung, PathNamesFile
  <2>3. QED
    BY <2>1, <2>2
<1>3. CASE CopyDone(d) \/ CopyFails(d)
  <2>1. PICK a \in 0..age[d] : age' = [age EXCEPT ![d] = a]
    BY <1>3 DEF CopyDone, CopyFails, LastWrite
  <2>2. /\ stage[d] = "copy" /\ file[d] = "partial" /\ d \notin path
        /\ stage' = [stage EXCEPT ![d] = "dispatch"] /\ elapsed' = elapsed
        /\ \/ path' = path \cup {d} /\ file' = [file EXCEPT ![d] = "complete"]
           \/ path' = path /\ file' = file
    BY <1>3 DEF CopyDone, CopyFails, MediaTypes, CopyIsYoung, PathNamesFile
  <2>3. MediaTypes'
    BY <2>1, <2>2 DEF MediaTypes
  <2>4. CopyIsYoung'
    BY <2>1, <2>2 DEF MediaTypes, CopyIsYoung
  <2>5. PathNamesFile'
    BY <2>1, <2>2 DEF MediaTypes, PathNamesFile
  <2>6. QED
    BY <2>3, <2>4, <2>5
<1>4. QED
  BY <1>1, <1>2, <1>3 DEF Handler

\* Steps of the sweep: what it removes is older than the retention.
LEMMA SweepPreserves ==
  ASSUME MediaInv, Sweeper \/ Boot
  PROVE  MediaInv'
<1> USE MediaAssumption DEF MediaInv, handlerVars, fileVars
<1>1. CASE Fire \/ Boot \/ EndSweep
  <2>1. elapsed' = 0 /\ UNCHANGED <<stage, path, file, age>>
    BY <1>1 DEF Fire, Boot, EndSweep, BeginSweep
  <2>2. QED
    BY <2>1 DEF MediaTypes, CopyIsYoung, PathNamesFile
<1>2. CASE SweepEntry
  <2>1. /\ UNCHANGED <<stage, path, age, elapsed>>
        /\ \/ file' = file
           \/ Expired(Head(todo)) /\ file' = [file EXCEPT ![Head(todo)] = "removed"]
    BY <1>2 DEF SweepEntry
  <2>2. \A d \in Delivery : file'[d] # file[d] => file'[d] = "removed" /\ age[d] >= Retention
    BY <2>1 DEF Expired, MediaTypes
  <2>3. MediaTypes'
    BY <2>1 DEF MediaTypes
  <2>4. CopyIsYoung'
    BY <2>1, <2>2 DEF MediaTypes, CopyIsYoung
  <2>5. PathNamesFile'
    BY <2>1, <2>2 DEF MediaTypes, PathNamesFile
  <2>6. QED
    BY <2>3, <2>4, <2>5
<1>3. QED
  BY <1>1, <1>2 DEF Sweeper

\* A crash ends the handlers and leaves the files.
LEMMA CrashPreserves ==
  ASSUME MediaInv, Crash
  PROVE  MediaInv'
<1> USE DEF MediaInv, fileVars, Stages
<1>1. /\ stage' = [d \in Delivery |-> IF stage[d] \in {"download", "copy", "dispatch"}
                                    THEN "gone" ELSE stage[d]]
      /\ elapsed' = 0 /\ UNCHANGED <<path, file, age>>
  BY DEF Crash
<1>2. MediaTypes'
  BY <1>1 DEF MediaTypes
<1>3. CopyIsYoung' /\ PathNamesFile'
  BY <1>1 DEF MediaTypes, CopyIsYoung, PathNamesFile
<1>4. QED
  BY <1>2, <1>3

\* Time passes no further than a copy may take.
LEMMA TickPreserves ==
  ASSUME MediaInv, TimePasses
  PROVE  MediaInv'
<1> USE MediaAssumption DEF MediaInv, handlerVars
<1>1. /\ \A d \in Delivery : stage[d] = "copy" => age[d] < CopyTimeout
      /\ elapsed' = IF spc = "sweep" THEN elapsed + 1 ELSE elapsed
      /\ age' = [d \in Delivery |-> IF file[d] # "none" /\ age[d] < MaxAge
                                      THEN age[d] + 1 ELSE age[d]]
      /\ UNCHANGED <<stage, path, file>>
  BY DEF TimePasses
<1>2. MediaTypes'
  BY <1>1 DEF MediaTypes
<1>3. \A d \in Delivery : age'[d] \in {age[d], age[d] + 1}
  BY <1>1
<1>4. CopyIsYoung'
  BY <1>1, <1>3 DEF MediaTypes, CopyIsYoung
<1>5. PathNamesFile'
  BY <1>1, <1>3 DEF MediaTypes, PathNamesFile
<1>6. QED
  BY <1>2, <1>4, <1>5

\* The path of a request the router has taken names a complete file until the
\* file is older than the retention: for any number of callbacks, sweeps and
\* crashes, as long as a download may take less than files are kept.
THEOREM AcceptedMediaStays == MediaSpec => []AcceptedMediaIsThere
<1>1. MediaInit => MediaInv
  BY DEF MediaInit, MediaInv, MediaTypes, CopyIsYoung, PathNamesFile, Stages
<1>2. MediaInv /\ [MediaNext]_mediaVars => MediaInv'
  <2> SUFFICES ASSUME MediaInv, [MediaNext]_mediaVars PROVE MediaInv'
    OBVIOUS
  <2>1. CASE UNCHANGED mediaVars
    BY <2>1 DEF mediaVars, handlerVars, fileVars, sweepVars, MediaInv, MediaTypes, CopyIsYoung,
       PathNamesFile
  <2>2. QED
    BY <2>1, HandlerPreserves, SweepPreserves, CrashPreserves, TickPreserves DEF MediaNext
<1>3. MediaInv => AcceptedMediaIsThere
  BY MediaAssumption DEF MediaInv, MediaTypes, PathNamesFile, AcceptedMediaIsThere
<1>4. QED
  BY <1>1, <1>2, <1>3, PTL DEF MediaSpec
=============================================================================
