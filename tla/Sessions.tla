------------------------------ MODULE Sessions ------------------------------
(***************************************************************************)
(* Human sessions and service tokens (backend/src/auth/session_auth.rs), on  *)
(* top of the start-up of the server: the store of valid session tokens lives *)
(* in memory and goes with the process, service tokens are checked by their  *)
(* signature alone.                                                         *)
(*                                                                         *)
(* One browser sends requests in parallel with the cookie of its jar.  The   *)
(* server takes the store's lock three times in a request that renews: to    *)
(* look the token up, to register its successor, to shorten the old one.     *)
(***************************************************************************)
EXTENDS Startup

CONSTANTS TTL,        \* SESSION_TTL_SECS, also the lifetime of service tokens
          Threshold,  \* SESSION_RENEW_THRESHOLD_SECS
          Grace,      \* SESSION_RENEW_GRACE_SECS
          Leeway,     \* what the JWT library allows past exp
          Latency,    \* bound on the time from sending a request to its answer
          MaxTime, MaxToken, Clients

Times == 0..MaxTime
Tokens == 1..MaxToken

\* The code has an hour, a quarter of an hour and a minute; a request that takes
\* less than half a minute satisfies the rest.
ASSUME SessionAssumption ==
    /\ {TTL, Threshold, Grace, Leeway, Latency, MaxTime, MaxToken} \subseteq Nat
    /\ TTL >= Threshold + 2 * Latency /\ Threshold > Grace /\ Grace > 2 * Latency
    /\ IsFiniteSet(Clients)

VARIABLES
    now,
    store,     \* JTI_STORE: token to the time it dies
    minted,    \* the claims of every session token: token to claims
    jar,       \* the browser's auth_token cookie
    pc, reg,   \* the requests under way
    account,   \* the service account: "active" or "revoked"
    service,   \* the latest service token, or Null
    replaced,  \* history: token to the time it was first replaced
    contested, \* history: logins one of whose tokens was replaced twice, or
               \* whose logout met another request
    ended,     \* history: login to the time of its logout
    gone,      \* history: tokens that did not reach the browser, or died with
               \* the process
    seen,      \* history: the time of the browser's last accepted request
    lapsed,    \* history: the requests of this login were once too far apart
    revokedAt  \* history: when the service account was revoked

sessionVars == <<now, store, minted, jar, pc, reg, account, service, replaced, contested,
                 ended, gone, seen, lapsed, revokedAt>>

vars == <<startupVars, sessionVars>>

\* root names the login a token descends from.
Claims == [root : Tokens, exp : Nat, key : 1..MaxKey]

Reg == [op : {"get", "logout", "token", Null}, token : Tokens \cup {Null},
        sent : Times, at : Times, fresh : Tokens \cup {Null}]

NoReg == [op |-> Null, token |-> Null, sent |-> 0, at |-> 0, fresh |-> Null]

Empty == [x \in {} |-> x]
Put(f, k, v) == [x \in DOMAIN f \cup {k} |-> IF x = k THEN v ELSE f[x]]
Drop(f, S) == [x \in DOMAIN f \ S |-> f[x]]

\* A partial function from S to T.
Partial(f, S, T) == DOMAIN f \subseteq S /\ \A x \in DOMAIN f : f[x] \in T

SessionTypeOK ==
    /\ now \in Times
    /\ Partial(store, Tokens, Nat)
    /\ Partial(minted, Tokens, Claims) /\ DOMAIN store \subseteq DOMAIN minted
    /\ jar \in DOMAIN minted \cup {Null}
    /\ pc \in [Clients -> {"idle", "sent", "renew", "shorten", "logout", "reply", "issue"}]
    /\ reg \in [Clients -> Reg]
    /\ account \in {"active", "revoked"}
    /\ service \in [exp : Nat, key : 1..MaxKey] \cup {Null}
    /\ Partial(replaced, Tokens, Times) /\ Partial(ended, Tokens, Times)
    /\ contested \subseteq Tokens /\ gone \subseteq DOMAIN minted
    /\ seen \in Times /\ lapsed \in BOOLEAN
    /\ revokedAt \in Times \cup {Null}

\* The types of both parts; every store entry and every cookie belongs to a
\* token that was minted, with a key the server has had.
TypeOK == StartupTypeOK /\ SessionTypeOK

Init ==
    /\ StartupInit
    /\ now = 0
    /\ store = Empty /\ minted = Empty /\ jar = Null
    /\ pc = [p \in Clients |-> "idle"]
    /\ reg = [p \in Clients |-> NoReg]
    /\ account = "active" /\ service = Null /\ revokedAt = Null
    /\ replaced = Empty /\ ended = Empty
    /\ contested = {} /\ gone = {} /\ seen = 0 /\ lapsed = FALSE

Goto(p, label, r) ==
    /\ pc' = [pc EXCEPT ![p] = label]
    /\ reg' = [reg EXCEPT ![p] = r]

Done(p) == Goto(p, "idle", NoReg)

Busy == {p \in Clients : pc[p] # "idle"}

Root(t) == minted[t].root

----------------------------------------------------------------------------
(* The store.                                                               *)

\* register_jti drops the dead entries and adds t.
RegisterJti(t, exp) ==
    store' = Put(Drop(store, {u \in DOMAIN store : store[u] <= now}), t, exp)

\* generate_token, for a login or in the line of an earlier token.
GenerateToken(t, root) ==
    /\ t = Cardinality(DOMAIN minted) + 1
    /\ t \in Tokens
    /\ minted' = Put(minted, t, [root |-> root, exp |-> now + TTL, key |-> mem.key])
    /\ RegisterJti(t, now + TTL)

\* authenticate_auth_token: signature, then membership.  The exp inside the token
\* never is earlier than the one in the store.
Accepted(t) ==
    /\ minted[t].key = mem.key
    /\ t \in DOMAIN store
    /\ store[t] > now

\* Mutant: the time left is compared with the grace window.
NeedsRenewalLate(t) == minted[t].exp - now < Grace

NeedsRenewal(t) == minted[t].exp - now < Threshold

----------------------------------------------------------------------------
(* login: a password or an OIDC login, taken as one step; the browser shows  *)
(* the form when it has no session.                                         *)

Login(t) ==
    /\ phase = "up"
    /\ Busy = {}
    /\ jar # Null => ~Accepted(jar)
    /\ GenerateToken(t, t)
    /\ jar' = t
    /\ seen' = now /\ lapsed' = FALSE
    /\ UNCHANGED <<now, pc, reg, account, service, replaced, contested, ended, gone,
                   revokedAt>>

\* The browser sends a request with the cookie of its jar.
Send(p, op) ==
    /\ phase = "up"
    /\ pc[p] = "idle"
    /\ jar # Null
    /\ Goto(p, "sent", [NoReg EXCEPT !.op = op, !.token = jar, !.sent = now])
    /\ UNCHANGED <<now, store, minted, jar, account, service, replaced, contested,
                   ended, gone, seen, lapsed, revokedAt>>

\* The browser's requests leave less than the time a request and its answer take
\* of the threshold.
Lapse == now - seen >= Threshold - 2 * Latency

\* Of the handlers only logout touches the session.
Handler(p) == IF reg[p].op = "logout" THEN "logout" ELSE "reply"

\* The first lock.  Without a session a request is answered 401, except that
\* logout takes its session as an Option and goes on.
Authenticate(p) ==
    /\ phase = "up"
    /\ pc[p] = "sent"
    /\ LET t == reg[p].token IN
       IF Accepted(t)
       THEN /\ Goto(p, IF NeedsRenewal(t) THEN "renew" ELSE Handler(p),
                    [reg[p] EXCEPT !.at = now])
            /\ seen' = now /\ lapsed' = (lapsed \/ Lapse)
       ELSE /\ IF reg[p].op = "logout" THEN Goto(p, "reply", reg[p]) ELSE Done(p)
            /\ UNCHANGED <<seen, lapsed>>
    /\ UNCHANGED <<now, store, minted, jar, account, service, replaced, contested,
                   ended, gone, revokedAt>>

\* A logout is under way beside the request of p.
LoggingOut(p) == \E q \in Busy \ {p} : reg[q].op = "logout"

\* renew_session_cookie_if_needed: the successor is registered ...
Renew(p) ==
    /\ phase = "up"
    /\ pc[p] = "renew"
    /\ LET t == reg[p].token IN
       /\ \E u \in Tokens :
            /\ GenerateToken(u, Root(t))
            /\ Goto(p, "shorten", [reg[p] EXCEPT !.fresh = u])
       /\ replaced' = IF t \in DOMAIN replaced THEN replaced ELSE Put(replaced, t, reg[p].at)
       /\ contested' = IF t \in DOMAIN replaced \/ LoggingOut(p)
                       THEN contested \cup {Root(t)} ELSE contested
    /\ UNCHANGED <<now, jar, account, service, ended, gone, seen, lapsed, revokedAt>>

\* Mutant: the entry is moved to the grace window whatever it holds.
GraceExpAlways(t, grace) == IF t \in DOMAIN store THEN Put(store, t, grace) ELSE store

\* Only an entry that would live longer is shortened.
GraceExp(t, grace) ==
    IF t \in DOMAIN store /\ store[t] > grace THEN Put(store, t, grace) ELSE store

\* ... and the old token gets its grace window, counted from the lookup.
Shorten(p) ==
    /\ phase = "up"
    /\ pc[p] = "shorten"
    /\ store' = GraceExp(reg[p].token, reg[p].at + Grace)
    /\ Goto(p, Handler(p), reg[p])
    /\ UNCHANGED <<now, minted, jar, account, service, replaced, contested, ended,
                   gone, seen, lapsed, revokedAt>>

\* Mutant: the token of the request stays in the store.
InvalidateNothing(t) == store

InvalidateToken(t) == Drop(store, {t})

\* logout invalidates the token of its request and takes the cookie away, also
\* one that the guard has just renewed.
Logout(p) ==
    /\ phase = "up"
    /\ pc[p] = "logout"
    /\ LET t == reg[p].token IN
       /\ store' = InvalidateToken(t)
       /\ ended' = Put(ended, Root(t), now)
       /\ contested' = IF Busy = {p} THEN contested ELSE contested \cup {Root(t)}
    /\ gone' = gone \cup ({reg[p].fresh} \ {Null})
    /\ Goto(p, "reply", [reg[p] EXCEPT !.fresh = Null])
    /\ UNCHANGED <<now, minted, jar, account, service, replaced, seen, lapsed, revokedAt>>

\* The answer reaches the browser, with the cookie it sets or removes.
Deliver(p) ==
    /\ pc[p] = "reply"
    /\ jar' = IF reg[p].op = "logout" THEN Null
              ELSE IF reg[p].fresh # Null THEN reg[p].fresh ELSE jar
    /\ Done(p)
    /\ UNCHANGED <<now, store, minted, account, service, replaced, contested, ended,
                   gone, seen, lapsed, revokedAt>>

\* The answer is lost.
Lose(p) ==
    /\ pc[p] = "reply"
    /\ gone' = gone \cup ({reg[p].fresh} \ {Null})
    /\ Done(p)
    /\ UNCHANGED <<now, store, minted, jar, account, service, replaced, contested,
                   ended, seen, lapsed, revokedAt>>

----------------------------------------------------------------------------
(* Service tokens.                                                          *)

\* Mutant: a revoked account still gets tokens.
MayIssueToRevoked == TRUE

MayIssueToken == account = "active"

\* service_token reads the account and checks it with the secret ...
ServiceTokenRead(p) ==
    /\ phase = "up"
    /\ pc[p] = "idle"
    /\ MayIssueToken
    /\ Goto(p, "issue", [NoReg EXCEPT !.op = "token", !.sent = now])
    /\ UNCHANGED <<now, store, minted, jar, account, service, replaced, contested,
                   ended, gone, seen, lapsed, revokedAt>>

\* ... and signs a token that nothing but its exp ends.
GenerateServiceToken(p) ==
    /\ phase = "up"
    /\ pc[p] = "issue"
    /\ service' = [exp |-> now + TTL, key |-> mem.key]
    /\ Done(p)
    /\ UNCHANGED <<now, store, minted, jar, account, replaced, contested, ended, gone,
                   seen, lapsed, revokedAt>>

RevokeServiceAccount ==
    /\ phase = "up"
    /\ account = "active"
    /\ account' = "revoked"
    /\ revokedAt' = now
    /\ UNCHANGED <<now, store, minted, jar, pc, reg, service, replaced, contested,
                   ended, gone, seen, lapsed>>

ServiceAccepted(s) == s.key = mem.key /\ now <= s.exp + Leeway

----------------------------------------------------------------------------
\* Time passes; no request stays under way for longer than Latency.
Tick ==
    /\ phase \in {"up", "down"}
    /\ now < MaxTime
    /\ \A p \in Busy : now - reg[p].sent < Latency
    /\ now' = now + 1
    /\ UNCHANGED <<store, minted, jar, pc, reg, account, service, replaced, contested,
                   ended, gone, seen, lapsed, revokedAt>>

\* A kill takes the store and the requests along.
KillServer ==
    /\ Kill
    /\ store' = Empty
    /\ pc' = [p \in Clients |-> "idle"]
    /\ reg' = [p \in Clients |-> NoReg]
    /\ gone' = DOMAIN minted
    /\ UNCHANGED <<now, minted, jar, account, service, replaced, contested, ended,
                   seen, lapsed, revokedAt>>

Request(p) ==
    \/ \E op \in {"get", "logout"} : Send(p, op)
    \/ Authenticate(p) \/ Renew(p) \/ Shorten(p) \/ Logout(p)
    \/ Deliver(p) \/ Lose(p)
    \/ ServiceTokenRead(p) \/ GenerateServiceToken(p)

SessionStep ==
    \/ \E t \in Tokens : Login(t)
    \/ \E p \in Clients : Request(p)
    \/ RevokeServiceAccount \/ Tick

Next ==
    \/ StartupStep /\ UNCHANGED sessionVars
    \/ SessionStep /\ UNCHANGED startupVars
    \/ KillServer

Spec == Init /\ [][Next]_vars

----------------------------------------------------------------------------
\* A token that has been replaced is dead when its grace window ends, however
\* many requests still come with it and renew it again.
ReplacedTokenDies ==
    \A t \in DOMAIN replaced :
        phase = "up" /\ Accepted(t) => now < replaced[t] + Grace

\* A logout that meets no other request ends the session: once the grace window
\* of the token before it is over, no token that the browser got from the same
\* login is accepted (unless two requests had renewed one token and so given it
\* two successors).
LogoutFinal ==
    \A t \in DOMAIN minted \ gone :
        Root(t) \in DOMAIN ended \ contested /\ now >= ended[Root(t)] + Grace /\ phase = "up"
            => ~Accepted(t)

\* An actively browsing user is never dropped: with requests less than the
\* threshold apart, no answer lost and no logout, the guard refuses none, whatever the order
\* in which parallel requests renew the cookie.
ActiveKept ==
    [][\A p \in Clients :
         pc[p] = "sent" /\ reg[p].op = "get" /\ pc'[p] = "idle" /\ phase' = phase =>
             LET r == Root(reg[p].token) IN
             \/ \E u \in gone : Root(u) = r
             \/ r \in DOMAIN ended
             \/ lapsed \/ Lapse]_vars

\* The revocation of a service account takes effect: no token is accepted once
\* a request then under way has ended and its token has run out, over restarts
\* too.
ServiceRevocationBites ==
    service # Null /\ revokedAt # Null /\ phase = "up" /\ ServiceAccepted(service)
        => now <= revokedAt + Latency + TTL + Leeway

=============================================================================
