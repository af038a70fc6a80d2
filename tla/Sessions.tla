------------------------------ MODULE Sessions ------------------------------
(***************************************************************************)
(* Sign-in sessions: chains of refresh tokens that rotate                  *)
(* (src/axis/auth/refresh.py) under the token, refresh and logout          *)
(* endpoints (src/axis/api/v1/auth.py).                                    *)
(*                                                                         *)
(* A rotation reads its token, retires it with an UPDATE by primary key    *)
(* that waits for the row and has no condition, and inserts a successor.   *)
(* A closing of the family (logout, or a retired token presented again) is *)
(* one UPDATE of the rows that are live in the statement's snapshot, which *)
(* locks them one by one and looks again at each one it had to wait for.   *)
(* PostgreSQL (READ COMMITTED) is external, as in FactStore.               *)
(*                                                                         *)
(* A request mints at most one token, which takes the request's name; a    *)
(* family takes the name of the login that began it.                       *)
(***************************************************************************)
EXTENDS Naturals, FiniteSets

CONSTANTS
  MaxRequests, \* bound: requests ever sent, numbered as they are sent
  MaxLogins    \* bound: those of them that begin a family

ASSUME BoundAssumption == MaxRequests \in Nat /\ MaxLogins \in Nat

Requests == 1..MaxRequests

VARIABLES
  tok,     \* by request: the refresh_tokens row it inserts, as committed
  upd,     \* by request: the rows its open transaction has set revoked_at of
  req,     \* by request: where it is; its token; the rows its UPDATE wants
  forked,  \* auxiliary: families in which a rotation retired a token that
           \* another transaction had retired since it was read
  raced    \* auxiliary: families in which a rotation and a closing overlapped

vars == <<tok, upd, req, forked, raced>>

NoToken == 0

NoRow == [state |-> "none", family |-> NoToken, parent |-> NoToken,
          revoked |-> FALSE, expired |-> FALSE]

Fresh(pc) == [pc |-> pc, kind |-> "none", token |-> NoToken, wants |-> {}]

Stored(t) == tok[t].state = "committed"
LiveIn(f) == { t \in Requests : Stored(t) /\ tok[t].family = f /\ ~tok[t].revoked }

\* The transactions that hold the lock of row t.
Holders(q, t) == { p \in Requests \ {q} : t \in upd[p] }

FamilyOf(q) == IF req[q].token = NoToken THEN NoToken ELSE tok[req[q].token].family
Rotating(q) == req[q].kind = "refresh" /\ req[q].pc \in {"retire", "issue", "commit"}
Closing(q)  == req[q].kind = "close" /\ req[q].pc \in {"lock", "commit"}

-----------------------------------------------------------------------------
Init ==
  /\ tok = [q \in Requests |-> NoRow]
  /\ upd = [q \in Requests |-> {}]
  /\ req = [q \in Requests |-> Fresh("unsent")]
  /\ forked = {} /\ raced = {}

\* What a step that moves request q to pc does to the auxiliary raced.
Observe(q, rotates, closes, f) ==
  raced' = IF \/ rotates /\ \E p \in Requests \ {q} : Closing(p) /\ FamilyOf(p) = f
              \/ closes  /\ \E p \in Requests \ {q} : Rotating(p) /\ FamilyOf(p) = f
           THEN raced \cup {f} ELSE raced

IsNext(q)   == req[q].pc = "unsent" /\ \A p \in 1..(q - 1) : req[p].pc # "unsent"
Goes(q, pc) == req' = [req EXCEPT ![q].pc = pc]
\* A request that has closed no family; what it was about no longer matters.
Ends(q)     == req' = [req EXCEPT ![q] = Fresh("ended")]

\* The UPDATE of a closing still wants these rows.
Updates(q, t, rows) ==
  req' = [req EXCEPT ![q] = [pc |-> IF rows = {} THEN "commit" ELSE "lock",
                             kind |-> "close", token |-> t, wants |-> rows]]

\* Password login (issue_token): a token of a new family.
Login(q) ==
  /\ IsNext(q)
  /\ Cardinality({ p \in Requests : tok[p].family = p }) < MaxLogins
  /\ req' = [req EXCEPT ![q].pc = "commit", ![q].kind = "login"]
  /\ tok' = [tok EXCEPT ![q] = [NoRow EXCEPT !.state = "flushed", !.family = q]]
  /\ UNCHANGED <<upd, forked, raced>>

\* A client presents a token it was given; one that was answered before its
\* commit may not be stored yet.
Present(q) ==
  /\ IsNext(q)
  /\ \E t \in Requests, kind \in {"refresh", "logout"} :
       /\ tok[t].state # "none"
       /\ req' = [req EXCEPT ![q].pc = "read", ![q].kind = kind, ![q].token = t]
  /\ UNCHANGED <<tok, upd, forked, raced>>

\* Unknown or expired: 401.  For logout: unknown, another user's token, or an
\* API key: 204 and nothing is done.
Refuse(q) ==
  /\ req[q].pc = "read"
  /\ LET t == req[q].token
     IN  ~Stored(t) \/ tok[t].expired \/ req[q].kind = "logout"
  /\ Ends(q)
  /\ UNCHANGED <<tok, upd, forked, raced>>

\* Mutant: the token is not retired.
AcceptKeeping(q) ==
  /\ req[q].pc = "read" /\ req[q].kind = "refresh"
  /\ LET t == req[q].token
     IN  /\ Stored(t) /\ ~tok[t].expired /\ ~tok[t].revoked
         /\ Observe(q, TRUE, FALSE, tok[t].family)
  /\ Goes(q, "issue")
  /\ UNCHANGED <<tok, upd, forked>>

\* rotate: the token is good ...
Accept(q) ==
  /\ req[q].pc = "read" /\ req[q].kind = "refresh"
  /\ LET t == req[q].token
     IN  /\ Stored(t) /\ ~tok[t].expired /\ ~tok[t].revoked
         /\ Observe(q, TRUE, FALSE, tok[t].family)
  /\ Goes(q, "retire")
  /\ UNCHANGED <<tok, upd, forked>>

\* ... its row is updated, by primary key, once no other transaction holds it ...
Retire(q) ==
  /\ req[q].pc = "retire"
  /\ LET t == req[q].token
     IN  /\ Holders(q, t) = {}
         /\ upd' = [upd EXCEPT ![q] = {t}]
         /\ forked' = IF tok[t].revoked THEN forked \cup {tok[t].family} ELSE forked
  /\ Goes(q, "issue")
  /\ UNCHANGED <<tok, raced>>

\* Mutant: the successor begins a family of its own.
IssueFresh(q) ==
  /\ req[q].pc = "issue"
  /\ tok' = [tok EXCEPT ![q] = [NoRow EXCEPT !.state = "flushed", !.family = q,
                                             !.parent = req[q].token]]
  /\ Goes(q, "commit")
  /\ UNCHANGED <<upd, forked, raced>>

\* ... and a successor is inserted (issue).
Issue(q) ==
  /\ req[q].pc = "issue"
  /\ tok' = [tok EXCEPT ![q] = [NoRow EXCEPT !.state = "flushed",
                                             !.family = FamilyOf(q),
                                             !.parent = req[q].token]]
  /\ Goes(q, "commit")
  /\ UNCHANGED <<upd, forked, raced>>

\* Mutant: only the presented token is closed.
CloseOne(q) ==
  /\ req[q].pc = "read"
  /\ LET t == req[q].token
         f == tok[t].family
     IN  /\ Stored(t)
         /\ \/ req[q].kind = "logout"
            \/ tok[t].revoked /\ ~tok[t].expired
         /\ Updates(q, t, LiveIn(f) \cap {t})
         /\ Observe(q, FALSE, TRUE, f)
  /\ UNCHANGED <<tok, upd, forked>>

\* A retired token is presented again, or its owner logs out: revoke_family
\* finds the live rows of the family.
Close(q) ==
  /\ req[q].pc = "read"
  /\ LET t == req[q].token
         f == tok[t].family
     IN  /\ Stored(t)
         /\ \/ req[q].kind = "logout"
            \/ tok[t].revoked /\ ~tok[t].expired
         /\ Updates(q, t, LiveIn(f))
         /\ Observe(q, FALSE, TRUE, f)
  /\ UNCHANGED <<tok, upd, forked>>

\* The UPDATE takes one row it wants, unless it was retired meanwhile, until
\* it has them all.
Lock(q) ==
  /\ req[q].pc = "lock"
  /\ \E t \in req[q].wants :
       /\ Holders(q, t) = {}
       /\ upd' = IF tok[t].revoked THEN upd ELSE [upd EXCEPT ![q] = @ \cup {t}]
       /\ Updates(q, req[q].token, req[q].wants \ {t})
  /\ UNCHANGED <<tok, forked, raced>>

\* The dependency's commit, or the explicit one before a reuse's 401.
Commit(q) ==
  /\ req[q].pc = "commit"
  /\ tok' = [t \in Requests |->
               [tok[t] EXCEPT !.revoked = @ \/ t \in upd[q],
                              !.state = IF t = q /\ @ = "flushed" THEN "committed" ELSE @]]
  /\ upd' = [upd EXCEPT ![q] = {}]
  /\ IF req[q].kind = "close" THEN Goes(q, "done") ELSE Ends(q)
  /\ UNCHANGED <<forked, raced>>

\* Mutant: a transaction that is given up keeps its locks.
RollbackHolding(q) ==
  /\ tok' = [tok EXCEPT ![q] = NoRow]
  /\ Ends(q)
  /\ UNCHANGED <<upd, forked, raced>>

Rollback(q) ==
  /\ tok' = [tok EXCEPT ![q] = NoRow]
  /\ upd' = [upd EXCEPT ![q] = {}]
  /\ Ends(q)
  /\ UNCHANGED <<forked, raced>>

WaitsFor(q) ==
  CASE req[q].pc = "retire" -> Holders(q, req[q].token)
    [] req[q].pc = "lock"   -> UNION { Holders(q, t) : t \in req[q].wants }
    [] OTHER                -> {}

\* Two closings that lock the rows of a forked family in different order.
DeadlockVictim(q) ==
  /\ \E p \in WaitsFor(q) : q \in WaitsFor(p)
  /\ Rollback(q)

\* The process dies, the caller goes away, the commit fails.
Crash(q) == req[q].pc \notin {"unsent", "done", "ended"} /\ Rollback(q)

\* All tokens live equally long, so none expires before the one it replaces.
Expire(t) ==
  /\ Stored(t) /\ ~tok[t].expired
  /\ tok[t].parent # NoToken => tok[tok[t].parent].expired
  /\ tok' = [tok EXCEPT ![t].expired = TRUE]
  /\ UNCHANGED <<upd, req, forked, raced>>

Handle(q) ==
  \/ Refuse(q) \/ Accept(q) \/ Retire(q) \/ Issue(q)
  \/ Close(q) \/ Lock(q) \/ Commit(q) \/ DeadlockVictim(q)

Next == \E q \in Requests : Login(q) \/ Present(q) \/ Handle(q) \/ Crash(q) \/ Expire(q)

\* Handlers keep running; a waiter is woken when the row it waits for is free.
Fairness == \A q \in Requests : WF_vars(Handle(q))

Spec     == Init /\ [][Next]_vars
FairSpec == Spec /\ Fairness

-----------------------------------------------------------------------------
TypeOK ==
  /\ tok \in [Requests -> [state : {"none", "flushed", "committed"},
                           family : Requests \cup {NoToken},
                           parent : Requests \cup {NoToken},
                           revoked : BOOLEAN, expired : BOOLEAN]]
  /\ upd \in [Requests -> SUBSET Requests]
  /\ req \in [Requests -> [pc : {"unsent", "read", "retire", "issue", "lock", "commit",
                                 "done", "ended"},
                           kind : {"none", "login", "refresh", "logout", "close"},
                           token : Requests \cup {NoToken}, wants : SUBSET Requests]]
  /\ forked \subseteq Requests /\ raced \subseteq Requests

\* A successor is never stored beside a token it replaces that is still good,
\* and never leaves its family: no crash or rival between the retirement and
\* the insert of rotate (refresh.py) parts the two.
ChainIsClosed ==
  \A t \in Requests : Stored(t) /\ tok[t].parent # NoToken =>
    /\ Stored(tok[t].parent)
    /\ tok[tok[t].parent].revoked
    /\ tok[tok[t].parent].family = tok[t].family

\* A sign-in has one good token at a time, unless two requests that had both
\* read it as good have retired it one after the other (refresh.py rotate,
\* "Atomic-ish").
OneLiveToken ==
  \A f \in Requests : f \notin forked => Cardinality(LiveIn(f)) <= 1

\* A family that was closed, by logout or by a reuse, has no good token ever
\* after, however long its chain was; a rotation that overlaps the closing is
\* the only exception (refresh.py revoke_family, auth.py logout).
ClosedForGood ==
  \A q \in Requests :
    req[q].kind = "close" /\ req[q].pc = "done" /\ FamilyOf(q) \notin raced =>
      LiveIn(FamilyOf(q)) = {}

\* Every request ends, whatever it waits for.
RequestsEnd == \A q \in Requests : req[q].pc = "read" ~> req[q].pc \in {"done", "ended"}
=============================================================================
