----------------------------- MODULE MCSessions -----------------------------
(* Finite instances of Sessions. *)
EXTENDS Sessions, TLC

CONSTANTS p1, p2, r1

Symmetry == Permutations(Clients)

\* The browser, the service and the database share the clock, the signing key
\* and the process, and nothing else: a behaviour follows one of the three.  The
\* browser is followed until the process is gone: no earlier token is in the
\* store of the next one.  It meets the first process, at the start of time, and
\* is followed until its first token has run out; a service token needs the time
\* of a request, its lifetime and the leeway, and the database none.
BrowserTime == TTL

Focus ==
    LET browser == minted # Empty
        services == service # Null \/ revokedAt # Null \/ \E p \in Clients : pc[p] = "issue"
        database == secret \/ stored # {}
    IN /\ ~(browser /\ services) /\ ~(browser /\ database) /\ ~(services /\ database)
       /\ browser => phase = "up" /\ keys = 1 /\ minted[1].exp = TTL /\ now <= BrowserTime
       /\ database => now = 0

=============================================================================
