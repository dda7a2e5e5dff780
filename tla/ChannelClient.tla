--------------------------- MODULE ChannelClient ---------------------------
(***************************************************************************)
(* The clients of the WeCom and the DingTalk application APIs              *)
(* (internal/gateway/wecom/client.go, dingtalk/app_client.go): concurrent  *)
(* Send and DownloadMedia calls share an access token that is fetched when *)
(* it is missing or about to expire.  The mutex is held to look at the     *)
(* cached token and to replace it, not while a new one is fetched.         *)
(*                                                                         *)
(* Time is counted in ticks.  An HTTP exchange takes at most Timeout,      *)
(* after which the call fails.  That is http.Client.Timeout, except for    *)
(* two exchanges of DingTalk, the token and the interactive card: they go  *)
(* through the vendor's SDK without a context and with no timeout set in   *)
(* this repository (app_client.go:140-176, 721-762), and that they too end *)
(* within Timeout is an assumption of this module.  The call's own work    *)
(* between two exchanges, which may read a file, takes at most Delay.  The *)
(* service issues a token at some moment of the exchange and honours it    *)
(* for its life.                                                           *)
(***************************************************************************)
EXTENDS Integers

CONSTANTS
  Caller,       \* goroutines that send or download
  Clients,      \* the clients looked at, a subset of {"wecom", "dingtalk"}
  Timeout,      \* HTTPTimeout, and an assumed bound on DingTalk's SDK calls
  Delay,        \* bound on the call's own work
  Margin,       \* the 60 seconds a token is given up early
  DefaultLife,  \* the 5 minutes DingTalk assumes when no life is reported
  Grants,       \* token lives: what the service honours and what it reports
  MaxTime,      \* bound on the clock
  None

\* From the moment a token is issued: it arrives, the payload is begun, a token
\* is asked for again and perhaps fetched, media is read and uploaded, and the
\* message is sent.
Slack == 4 * Timeout + 3 * Delay

ASSUME ClientAssumption ==
  /\ Clients \subseteq {"wecom", "dingtalk"}
  /\ Timeout \in Nat /\ Delay \in Nat /\ Margin \in Nat /\ DefaultLife \in Nat /\ MaxTime \in Nat
  /\ Slack <= Margin
  /\ Grants \subseteq [life : Nat, reported : Nat]
  /\ \A g \in Grants : g.life > Slack /\ g.reported <= g.life
  /\ "dingtalk" \in Clients =>
       \A g \in Grants : IF g.reported = 0 THEN DefaultLife + Slack <= g.life
                                           ELSE g.reported > Margin

Token == [issued : 0..MaxTime, grant : Grants]

ASSUME NoneIsNoToken == None \notin Token

Death(t) == t.issued + t.grant.life

VARIABLES
  client,     \* which client this is
  now,
  token,      \* accessToken
  expiresAt,
  pc,         \* where each call is
  kind,       \* what it does: "text", "media" or "download"
  need,       \* what getAccessToken was called for: "call" or "upload"
  tok,        \* the token of the message or the download
  uptok,      \* the token of the upload
  resp,       \* the answer to a gettoken request
  since,      \* when the call's exchange or work began
  stale       \* the service was handed a token past its life (history)

callVars == <<pc, kind, need, tok, uptok, resp, since>>
vars == <<client, now, token, expiresAt, callVars, stale>>

\* The states in which a call waits for the network.
Network == {"fetch", "answered", "upload", "uploaded", "post"}

\* How long a call may stay in a state, counted from since; of "fetch" and "post"
\* on DingTalk's SDK this is assumed.
Limit(l) ==
  CASE l \in {"token", "build"}             -> Delay
    [] l \in {"fetch", "answered", "post"}  -> Timeout
    [] l \in {"upload", "uploaded"}         -> Timeout + Delay

\* Type invariant: the cache holds a token the service issued, or none, and a
\* call never waits longer than its timeout (getAccessToken, http.Client).
TypeOK ==
  /\ client \in Clients
  /\ now \in 0..MaxTime
  /\ token \in Token \cup {None}
  /\ expiresAt \in Int
  /\ pc \in [Caller -> {"idle", "token", "build"} \cup Network]
  /\ kind \in [Caller -> {"text", "media", "download"}]
  /\ need \in [Caller -> {"call", "upload"}]
  /\ tok \in [Caller -> Token \cup {None}]
  /\ uptok \in [Caller -> Token \cup {None}]
  /\ resp \in [Caller -> Token \cup {None}]
  /\ since \in [Caller -> 0..MaxTime]
  /\ stale \in BOOLEAN
  /\ \A p \in Caller : since[p] <= now
  /\ \A p \in Caller : pc[p] # "idle" => now <= since[p] + Limit(pc[p])

Init ==
  /\ client \in Clients
  /\ now = 0
  /\ token = None /\ expiresAt = 0
  /\ pc = [p \in Caller |-> "idle"]
  /\ kind = [p \in Caller |-> "text"]
  /\ need = [p \in Caller |-> "call"]
  /\ tok = [p \in Caller |-> None]
  /\ uptok = [p \in Caller |-> None]
  /\ resp = [p \in Caller |-> None]
  /\ since = [p \in Caller |-> 0]
  /\ stale = FALSE

-----------------------------------------------------------------------------
Goto(p, l) == pc' = [pc EXCEPT ![p] = l]

\* The exchange or the work of state l begins.
Enter(p, l) == Goto(p, l) /\ since' = [since EXCEPT ![p] = now]

\* Send, or DownloadMedia, which only WeCom has.  (DingTalk refuses a message
\* without a receiver before this, and nothing changes.)
Begin(p, k) ==
  /\ pc[p] = "idle"
  /\ k = "download" => client = "wecom"
  /\ Enter(p, "token")
  /\ kind' = [kind EXCEPT ![p] = k]
  /\ need' = [need EXCEPT ![p] = "call"]
  /\ UNCHANGED <<client, now, token, expiresAt, tok, uptok, resp, stale>>

\* The call is over, and what it knew is forgotten.
Leave(p) ==
  /\ Goto(p, "idle")
  /\ kind' = [kind EXCEPT ![p] = "text"]
  /\ need' = [need EXCEPT ![p] = "call"]
  /\ since' = [since EXCEPT ![p] = 0]
  /\ tok' = [tok EXCEPT ![p] = None]
  /\ uptok' = [uptok EXCEPT ![p] = None]
  /\ resp' = [resp EXCEPT ![p] = None]

\* getAccessToken returns t.
Got(p, t) ==
  IF need[p] = "upload"
    THEN Enter(p, "upload") /\ uptok' = [uptok EXCEPT ![p] = t] /\ UNCHANGED tok
    ELSE Enter(p, "build") /\ tok' = [tok EXCEPT ![p] = t] /\ UNCHANGED uptok

Usable == token # None /\ now < expiresAt

CacheHit(p) ==
  /\ pc[p] = "token"
  /\ Usable
  /\ Got(p, token)
  /\ UNCHANGED <<client, now, token, expiresAt, kind, need, resp, stale>>

CacheMiss(p) ==
  /\ pc[p] = "token"
  /\ ~Usable
  /\ Enter(p, "fetch")
  /\ UNCHANGED <<client, now, token, expiresAt, kind, need, tok, uptok, resp, stale>>

\* The service issues a token; the answer is on its way.
IssueToken(p, g) ==
  /\ pc[p] = "fetch"
  /\ resp' = [resp EXCEPT ![p] = [issued |-> now, grant |-> g]]
  /\ Goto(p, "answered")
  /\ UNCHANGED <<client, now, token, expiresAt, kind, need, tok, uptok, since, stale>>

\* Mutant of Lifetime: the whole reported life is used.
LifetimeWhole(reported) == reported

\* How long a fetched token is kept.
Lifetime(reported) ==
  IF client = "wecom" THEN reported - Margin
  ELSE IF reported = 0 THEN DefaultLife
  ELSE IF reported <= Margin THEN reported
  ELSE reported - Margin

\* The answer arrives: whatever the cache holds by now is replaced, also by an
\* older token that took longer to arrive.
StoreToken(p) ==
  /\ pc[p] = "answered"
  /\ token' = resp[p]
  /\ expiresAt' = now + Lifetime(resp[p].grant.reported)
  /\ Got(p, resp[p])
  /\ UNCHANGED <<client, now, kind, need, resp, stale>>

\* The payload is built and nothing has to be uploaded.
Build(p) ==
  /\ pc[p] = "build"
  /\ kind[p] # "media"
  /\ Enter(p, "post")
  /\ UNCHANGED <<client, now, token, expiresAt, kind, need, tok, uptok, resp, stale>>

\* Media without an id is uploaded first.  WeCom asks for a token again.
AskUploadToken(p) ==
  /\ pc[p] = "build"
  /\ kind[p] = "media" /\ client = "wecom"
  /\ Enter(p, "token")
  /\ need' = [need EXCEPT ![p] = "upload"]
  /\ UNCHANGED <<client, now, token, expiresAt, kind, tok, uptok, resp, stale>>

\* DingTalk uploads with the token it has.
UploadWithSameToken(p) ==
  /\ pc[p] = "build"
  /\ kind[p] = "media" /\ client = "dingtalk"
  /\ Enter(p, "upload")
  /\ uptok' = [uptok EXCEPT ![p] = tok[p]]
  /\ UNCHANGED <<client, now, token, expiresAt, kind, need, tok, resp, stale>>

\* The service is handed token t.
Used(t) == stale' = (stale \/ now >= Death(t))

Upload(p) ==
  /\ pc[p] = "upload"
  /\ Used(uptok[p])
  /\ Goto(p, "uploaded")
  /\ UNCHANGED <<client, now, token, expiresAt, kind, need, tok, uptok, resp, since>>

UploadReturns(p) ==
  /\ pc[p] = "uploaded"
  /\ Enter(p, "post")
  /\ UNCHANGED <<client, now, token, expiresAt, kind, need, tok, uptok, resp, stale>>

\* The last exchange of a call uses its first token.
LastExchange(p) ==
  /\ pc[p] = "post"
  /\ Used(tok[p])
  /\ Leave(p)
  /\ UNCHANGED <<client, now, token, expiresAt>>

\* The message is sent.
Post(p) == kind[p] # "download" /\ LastExchange(p)

\* The media is fetched and written to a file.
Download(p) == kind[p] = "download" /\ LastExchange(p)

\* Any error ends the call: a payload that cannot be built, a refused, failed
\* or late exchange, an empty token.  The cache stays as it is.
Fail(p) ==
  /\ pc[p] \in Network \cup {"build"}
  /\ Leave(p)
  /\ UNCHANGED <<client, now, token, expiresAt, stale>>

Tick ==
  /\ now < MaxTime
  /\ \A p \in Caller : pc[p] # "idle" => now < since[p] + Limit(pc[p])
  /\ now' = now + 1
  /\ UNCHANGED <<client, token, expiresAt, callVars, stale>>

Call(p) ==
  \/ \E k \in {"text", "media", "download"} : Begin(p, k)
  \/ CacheHit(p) \/ CacheMiss(p) \/ StoreToken(p)
  \/ \E g \in Grants : IssueToken(p, g)
  \/ Build(p) \/ AskUploadToken(p) \/ UploadWithSameToken(p)
  \/ Upload(p) \/ UploadReturns(p) \/ Post(p) \/ Download(p) \/ Fail(p)

Next == Tick \/ \E p \in Caller : Call(p)

Spec == Init /\ [][Next]_vars

-----------------------------------------------------------------------------
\* The service is never handed an expired token: a margin of at least Slack
\* covers the time a token needed to arrive, a second getAccessToken, the upload
\* and the message itself, also when concurrent calls replaced the cached token
\* by an older one (wecom/client.go:85-112, dingtalk/app_client.go:225-257).
NoExpiredToken == ~stale
=============================================================================
