--------------------------- MODULE SessionsProofs ---------------------------
(***************************************************************************)
(* A sign-in's chain of tokens, for any number of requests and families:   *)
(* it never forks unseen, and it ends where it is closed.                  *)
(***************************************************************************)
EXTENDS Sessions, FiniteSetTheorems, TLAPS

-----------------------------------------------------------------------------
(* The inductive invariant.                                                *)

\* What request q has done where it is: the rows it has inserted and updated,
\* and the token it is about.
Fits(q) ==
  /\ tok[q].state = "committed" => req[q].pc = "ended"
  /\ tok[q].state = "flushed" => req[q].pc = "commit" /\ req[q].kind # "close"
  /\ req[q].pc \in {"unsent", "read", "retire", "done", "ended"} => upd[q] = {}
  /\ req[q].pc = "read" => req[q].kind \in {"refresh", "logout"} /\ req[q].token \in Requests
  /\ req[q].pc \in {"retire", "issue"} => req[q].kind = "refresh"
  /\ req[q].pc \in {"lock", "done"} => req[q].kind = "close"
  /\ Rotating(q) \/ req[q].kind = "close" => req[q].token \in Requests /\ Stored(req[q].token)
  /\ Rotating(q) /\ req[q].pc # "retire" => upd[q] = {req[q].token}
  /\ req[q].pc = "commit" =>
       /\ req[q].kind \in {"login", "refresh", "close"}
       /\ req[q].kind = "login" => upd[q] = {} /\ tok[q].family = q /\ tok[q].parent = NoToken
       /\ req[q].kind = "refresh" =>
            /\ tok[q].state = "flushed"
            /\ tok[q].family = FamilyOf(q) /\ tok[q].parent = req[q].token
       /\ req[q].kind = "close" => req[q].wants = {}

\* The login that began a family is stored.
FamilyBegun ==
  \A t \in Requests : Stored(t) => tok[t].family \in Requests /\ Stored(tok[t].family)

\* A row is locked by one transaction at a time.
Exclusive ==
  \A p, q \in Requests, t \in Requests : t \in upd[p] /\ t \in upd[q] => p = q

\* What a rotation has retired was good when it did, and is until it commits.
HeldIsGood ==
  \A q \in Requests :
    Rotating(q) /\ req[q].pc # "retire" /\ FamilyOf(q) \notin forked =>
      ~tok[req[q].token].revoked

OnlyOne == \A f \in Requests \ forked : \A s, t \in LiveIn(f) : s = t

\* The auxiliary raced misses no overlap ...
OverlapSeen ==
  \A p, q \in Requests :
    Rotating(p) /\ Closing(q) /\ FamilyOf(p) = FamilyOf(q) => FamilyOf(q) \in raced

\* ... without which a closing sees all there is to close.
ClosingSeesAll ==
  \A q \in Requests :
    Closing(q) /\ FamilyOf(q) \notin raced =>
      LiveIn(FamilyOf(q)) \subseteq req[q].wants \cup upd[q]

NothingAfter ==
  \A q \in Requests :
    req[q].kind = "close" /\ req[q].pc = "done" /\ FamilyOf(q) \notin raced =>
      /\ LiveIn(FamilyOf(q)) = {}
      /\ \A p \in Requests : Rotating(p) => FamilyOf(p) # FamilyOf(q)

Rows == \A q \in Requests : Fits(q)
Inv ==
  /\ TypeOK /\ Rows /\ ChainIsClosed /\ FamilyBegun /\ Exclusive /\ HeldIsGood
  /\ OnlyOne /\ OverlapSeen /\ ClosingSeesAll /\ NothingAfter

-----------------------------------------------------------------------------
(* Steps that commit nothing.                                              *)

\* The committed rows are what they were, their expiry aside.
Frame ==
  \A t \in Requests :
    /\ (tok'[t].state = "committed") <=> Stored(t)
    /\ Stored(t) => /\ tok'[t].family = tok[t].family
                    /\ tok'[t].parent = tok[t].parent
                    /\ tok'[t].revoked = tok[t].revoked

LEMMA FrameKeeps ==
  ASSUME Inv, Frame, TypeOK', forked \subseteq forked'
  PROVE  /\ ChainIsClosed' /\ FamilyBegun' /\ OnlyOne'
         /\ \A f : LiveIn(f)' = LiveIn(f)
PROOF
<1>1. \A f : LiveIn(f)' = LiveIn(f)
  BY DEF Frame, LiveIn, Stored
<1>2. ChainIsClosed'
  <2> SUFFICES ASSUME NEW t \in Requests, Stored(t), tok[t].parent # NoToken
               PROVE  /\ tok'[tok[t].parent].state = "committed"
                      /\ tok'[tok[t].parent].revoked
                      /\ tok'[tok[t].parent].family = tok[t].family
    BY DEF Frame, ChainIsClosed, Stored
  <2>1. tok[t].parent \in Requests
    BY DEF Inv, TypeOK
  <2> QED BY <2>1 DEF Inv, ChainIsClosed, Frame
<1>3. FamilyBegun'
  BY DEF Inv, FamilyBegun, Frame, Stored
<1>4. OnlyOne'
  BY <1>1 DEF Inv, OnlyOne
<1> QED BY <1>1, <1>2, <1>3, <1>4

\* A step of request q that commits nothing keeps the invariant, if q is where
\* it may be afterwards, takes only rows that are free, and is seen to begin
\* its rotation or closing.
LEMMA StepKeeps ==
  ASSUME Inv, Frame, TypeOK', NEW q \in Requests,
         \A p \in Requests \ {q} :
           req'[p] = req[p] /\ upd'[p] = upd[p] /\ tok'[p] = tok[p],
         forked \subseteq forked', raced \subseteq raced',
         Fits(q)',
         \A t \in upd'[q] : t \in upd[q] \/ Holders(q, t) = {},
         Rotating(q)' /\ req'[q].pc # "retire" /\ FamilyOf(q)' \notin forked' =>
           ~tok[req'[q].token].revoked,
         Rotating(q)' =>
           \/ Rotating(q) /\ req'[q].token = req[q].token
           \/ /\ Stored(req'[q].token) /\ ~tok[req'[q].token].revoked
              /\ \A p \in Requests \ {q} :
                   Closing(p) /\ FamilyOf(p) = FamilyOf(q)' => FamilyOf(p) \in raced',
         Closing(q)' =>
           /\ FamilyOf(q)' \notin raced' =>
                LiveIn(FamilyOf(q)') \subseteq req'[q].wants \cup upd'[q]
           /\ \/ Closing(q) /\ req'[q].token = req[q].token
              \/ \A p \in Requests \ {q} :
                   Rotating(p) /\ FamilyOf(p) = FamilyOf(q)' => FamilyOf(p) \in raced',
         req'[q].kind = "close" /\ req'[q].pc = "done" => req'[q] = req[q]
  PROVE  Inv'
PROOF
<1>1. /\ ChainIsClosed' /\ FamilyBegun' /\ OnlyOne'
      /\ \A f : LiveIn(f)' = LiveIn(f)
  BY FrameKeeps
\* The token a request has accepted, and its family, are what they were.
<1>2. ASSUME NEW p \in Requests, Rotating(p) \/ req[p].kind = "close",
             req'[p].token = req[p].token
      PROVE  /\ req[p].token \in Requests /\ Stored(req[p].token)
             /\ FamilyOf(p)' = FamilyOf(p)
  <2>1. req[p].token \in Requests /\ Stored(req[p].token)
    BY <1>2 DEF Inv, Rows, Fits
  <2>2. req[p].token # NoToken
    BY <2>1 DEF Requests, NoToken
  <2> QED BY <1>2, <2>1, <2>2 DEF Frame, FamilyOf
<1>3. ASSUME NEW p \in Requests \ {q} PROVE Fits(p)'
  <2>1. Fits(p)
    BY DEF Inv, Rows
  <2>2. (Rotating(p)' <=> Rotating(p)) /\ (Closing(p)' <=> Closing(p))
    BY DEF Rotating, Closing
  <2>3. CASE Rotating(p) \/ req[p].kind = "close"
    <3>1. FamilyOf(p)' = FamilyOf(p) /\ Stored(req[p].token)' /\ req[p].token \in Requests
      BY <1>2, <2>3 DEF Frame, Stored
    <3> QED BY <2>1, <2>2, <3>1 DEF Fits, Stored
  <2>4. CASE ~(Rotating(p) \/ req[p].kind = "close")
    BY <2>1, <2>2, <2>4 DEF Fits, Stored, Rotating
  <2> QED BY <2>3, <2>4
<1>4. Rows'
  BY <1>3 DEF Rows
<1>5. Exclusive'
  <2> SUFFICES ASSUME NEW p \in Requests, NEW t \in Requests, p # q,
                      t \in upd'[p], t \in upd'[q]
               PROVE  FALSE
    BY DEF Inv, Exclusive
  <2>1. t \in upd[p] /\ t \in upd[q]
    BY DEF Holders
  <2> QED BY <2>1 DEF Inv, Exclusive
<1>6. HeldIsGood'
  <2> SUFFICES ASSUME NEW p \in Requests, Rotating(p)', req'[p].pc # "retire",
                      FamilyOf(p)' \notin forked'
               PROVE  ~tok'[req'[p].token].revoked
    BY DEF HeldIsGood
  <2>1. CASE p = q
    <3>1. Rotating(q)' /\ FamilyOf(q)' \notin forked' /\ req'[q].pc # "retire"
      BY <2>1
    <3>2. req'[q].token \in Requests /\ tok'[req'[q].token].state = "committed"
      BY <3>1 DEF Fits, Stored
    <3> QED BY <2>1, <3>1, <3>2 DEF Frame
  <2>2. CASE p # q
    <3>1. Rotating(p) /\ req[p].pc # "retire" /\ req'[p].token = req[p].token
      BY <2>2 DEF Rotating
    <3>2. FamilyOf(p)' = FamilyOf(p) /\ Stored(req[p].token) /\ req[p].token \in Requests
      BY <1>2, <3>1
    <3>3. ~tok[req[p].token].revoked
      BY <3>1, <3>2 DEF Inv, HeldIsGood
    <3> QED BY <3>1, <3>2, <3>3 DEF Frame
  <2> QED BY <2>1, <2>2
<1>7. OverlapSeen'
  <2> SUFFICES ASSUME NEW p \in Requests, NEW c \in Requests, Rotating(p)', Closing(c)',
                      FamilyOf(p)' = FamilyOf(c)'
               PROVE  FamilyOf(c)' \in raced'
    BY DEF OverlapSeen
  <2>1. p # c
    BY DEF Rotating, Closing
  <2>2. CASE p # q /\ c # q
    <3>1. /\ Rotating(p) /\ Closing(c)
          /\ req'[p].token = req[p].token /\ req'[c].token = req[c].token
      BY <2>2 DEF Rotating, Closing
    <3>2. FamilyOf(p)' = FamilyOf(p) /\ FamilyOf(c)' = FamilyOf(c)
      BY <1>2, <3>1 DEF Closing
    <3> QED BY <3>1, <3>2 DEF Inv, OverlapSeen
  <2>3. CASE p = q
    <3>1. Closing(c) /\ req'[c].token = req[c].token
      BY <2>1, <2>3 DEF Closing
    <3>2. FamilyOf(c)' = FamilyOf(c)
      BY <1>2, <3>1 DEF Closing
    <3>3. CASE Rotating(q) /\ req'[q].token = req[q].token
      <4>1. FamilyOf(q)' = FamilyOf(q)
        BY <1>2, <3>3
      <4> QED BY <2>3, <3>1, <3>2, <3>3, <4>1 DEF Inv, OverlapSeen
    <3> QED BY <2>1, <2>3, <3>1, <3>2, <3>3
  <2>4. CASE c = q
    <3>1. Rotating(p) /\ req'[p].token = req[p].token
      BY <2>1, <2>4 DEF Rotating
    <3>2. FamilyOf(p)' = FamilyOf(p)
      BY <1>2, <3>1
    <3>3. CASE Closing(q) /\ req'[q].token = req[q].token
      <4>1. FamilyOf(q)' = FamilyOf(q)
        BY <1>2, <3>3 DEF Closing
      <4> QED BY <2>4, <3>1, <3>2, <3>3, <4>1 DEF Inv, OverlapSeen
    <3> QED BY <2>1, <2>4, <3>1, <3>2, <3>3
  <2> QED BY <2>2, <2>3, <2>4
<1>8. ClosingSeesAll'
  <2> SUFFICES ASSUME NEW c \in Requests, Closing(c)', FamilyOf(c)' \notin raced'
               PROVE  LiveIn(FamilyOf(c)') \subseteq req'[c].wants \cup upd'[c]
    BY <1>1 DEF ClosingSeesAll
  <2>1. CASE c = q
    BY <2>1
  <2>2. CASE c # q
    <3>1. Closing(c) /\ req'[c] = req[c] /\ upd'[c] = upd[c]
      BY <2>2 DEF Closing
    <3>2. FamilyOf(c)' = FamilyOf(c)
      BY <1>2, <3>1 DEF Closing
    <3> QED BY <3>1, <3>2 DEF Inv, ClosingSeesAll
  <2> QED BY <2>1, <2>2
<1>9. NothingAfter'
  <2> SUFFICES ASSUME NEW c \in Requests, req'[c].kind = "close", req'[c].pc = "done",
                      FamilyOf(c)' \notin raced'
               PROVE  /\ LiveIn(FamilyOf(c)') = {}
                      /\ \A p \in Requests : Rotating(p)' => FamilyOf(p)' # FamilyOf(c)'
    BY <1>1 DEF NothingAfter
  <2>1. req'[c] = req[c] /\ req[c].kind = "close" /\ req[c].pc = "done"
    OBVIOUS
  <2>2. FamilyOf(c)' = FamilyOf(c)
    BY <1>2, <2>1
  <2>3. /\ LiveIn(FamilyOf(c)) = {}
        /\ \A p \in Requests : Rotating(p) => FamilyOf(p) # FamilyOf(c)
    BY <2>1, <2>2 DEF Inv, NothingAfter
  <2>4. ASSUME NEW p \in Requests, Rotating(p)' PROVE FamilyOf(p)' # FamilyOf(c)
    <3>1. CASE Rotating(p) /\ req'[p].token = req[p].token
      BY <1>2, <2>3, <3>1
    <3>2. CASE ~(Rotating(p) /\ req'[p].token = req[p].token)
      <4>1. p = q
        BY <2>4, <3>2 DEF Rotating
      <4>2. Stored(req'[q].token) /\ ~tok[req'[q].token].revoked
        BY <2>4, <3>2, <4>1
      <4>3. req'[q].token \in Requests /\ req'[q].token # NoToken
        BY <2>4, <4>1 DEF Fits, Requests, NoToken
      <4>4. FamilyOf(q)' = tok[req'[q].token].family
        BY <4>2, <4>3 DEF Frame, FamilyOf
      <4>5. req'[q].token \in LiveIn(FamilyOf(q)')
        BY <4>2, <4>3, <4>4 DEF LiveIn
      <4> QED BY <2>3, <4>1, <4>5
    <3> QED BY <3>1, <3>2
  <2> QED BY <2>2, <2>3, <2>4
<1> QED BY <1>1, <1>4, <1>5, <1>6, <1>7, <1>8, <1>9 DEF Inv

\* What TypeOK says of rows and requests, for the provers to find.
Row == [state : {"none", "flushed", "committed"}, family : Requests \cup {NoToken},
        parent : Requests \cup {NoToken}, revoked : BOOLEAN, expired : BOOLEAN]
Request == [pc : {"unsent", "read", "retire", "issue", "lock", "commit", "done", "ended"},
            kind : {"none", "login", "refresh", "logout", "close"},
            token : Requests \cup {NoToken}, wants : SUBSET Requests]

LEMMA Types ==
  /\ TypeOK <=> /\ tok \in [Requests -> Row] /\ req \in [Requests -> Request]
                /\ upd \in [Requests -> SUBSET Requests]
                /\ forked \subseteq Requests /\ raced \subseteq Requests
  /\ TypeOK' <=> /\ tok' \in [Requests -> Row] /\ req' \in [Requests -> Request]
                 /\ upd' \in [Requests -> SUBSET Requests]
                 /\ forked' \subseteq Requests /\ raced' \subseteq Requests
BY DEF TypeOK, Row, Request

LEMMA NoRowType == NoRow \in Row /\ NoRow.state = "none" /\ NoRow.parent = NoToken
BY DEF NoRow, Row

LEMMA LoginRow ==
  ASSUME NEW f \in Requests, NEW row,
         row = [NoRow EXCEPT !.state = "flushed", !.family = f]
  PROVE  row \in Row /\ row.state = "flushed" /\ row.family = f /\ row.parent = NoToken
BY NoRowType DEF Row

\* The requests that have not answered keep the rows of others as they are.
LEMMA Frames ==
  ASSUME Inv, NEW q \in Requests, NEW row, ~Stored(q), row.state # "committed",
         tok' = [tok EXCEPT ![q] = row]
  PROVE  Frame
BY DEF Inv, TypeOK, Frame, Stored

LEMMA SendKeeps ==
  ASSUME Inv, NEW q \in Requests, Login(q) \/ Present(q)
  PROVE  Inv'
PROOF
<1>1. Fits(q) /\ req[q].pc = "unsent"
  BY DEF Inv, Rows, Login, Present, IsNext
<1>2. TypeOK /\ req[q] \in Request
  BY Types DEF Inv
<1>3. CASE Login(q)
  <2> DEFINE row == [NoRow EXCEPT !.state = "flushed", !.family = q]
             r   == [req[q] EXCEPT !.pc = "commit", !.kind = "login"]
  <2>1. row \in Row /\ row.state = "flushed" /\ row.family = q /\ row.parent = NoToken
    BY LoginRow
  <2>2. /\ r \in Request /\ r.pc = "commit" /\ r.kind = "login" /\ r.token = req[q].token
    BY <1>2 DEF Request
  <2>3. /\ tok' = [tok EXCEPT ![q] = row] /\ req' = [req EXCEPT ![q] = r]
        /\ UNCHANGED <<upd, forked, raced>>
    BY <1>3 DEF Login
  <2> HIDE DEF row, r
  <2>4. TypeOK'
    BY <1>2, <2>1, <2>2, <2>3, Types
  <2>5. ~Stored(q)
    BY <1>1 DEF Fits, Stored
  <2>6. Frame
    BY <2>1, <2>3, <2>5, Frames
  <2>7. req'[q] = r /\ tok'[q] = row /\ upd'[q] = {}
    BY <1>1, <1>2, <2>3, Types DEF Fits
  <2>8. ~Rotating(q)' /\ ~Closing(q)' /\ req'[q].kind # "close"
    BY <2>2, <2>7 DEF Rotating, Closing
  <2>9. Fits(q)'
    BY <2>1, <2>2, <2>7, <2>8 DEF Fits
  <2>10. \A p \in Requests \ {q} :
           req'[p] = req[p] /\ upd'[p] = upd[p] /\ tok'[p] = tok[p]
    BY <1>2, <2>3, Types
  <2> QED BY <2>3, <2>4, <2>6, <2>7, <2>8, <2>9, <2>10, StepKeeps
<1>4. CASE Present(q)
  <2>1. PICK t \in Requests, kind \in {"refresh", "logout"} :
          req' = [req EXCEPT ![q].pc = "read", ![q].kind = kind, ![q].token = t]
    BY <1>4 DEF Present
  <2> DEFINE r == [req[q] EXCEPT !.pc = "read", !.kind = kind, !.token = t]
  <2>2. r \in Request /\ r.pc = "read" /\ r.kind = kind /\ r.token = t
    BY <1>2 DEF Request
  <2>3. req' = [req EXCEPT ![q] = r] /\ UNCHANGED <<tok, upd, forked, raced>>
    BY <1>4, <2>1 DEF Present
  <2> HIDE DEF r
  <2>4. TypeOK'
    BY <1>2, <2>2, <2>3, Types
  <2>5. Frame
    BY <2>3 DEF Frame, Stored
  <2>6. req'[q] = r /\ upd'[q] = {} /\ tok'[q] = tok[q]
    BY <1>1, <1>2, <2>3, Types DEF Fits
  <2>7. ~Rotating(q)' /\ ~Closing(q)' /\ req'[q].kind # "close"
    BY <2>2, <2>6 DEF Rotating, Closing
  <2>8. Fits(q)'
    BY <1>1, <2>2, <2>6, <2>7 DEF Fits
  <2>9. \A p \in Requests \ {q} :
           req'[p] = req[p] /\ upd'[p] = upd[p] /\ tok'[p] = tok[p]
    BY <1>2, <2>3, Types
  <2> QED BY <2>3, <2>4, <2>5, <2>6, <2>7, <2>8, <2>9, StepKeeps
<1> QED BY <1>3, <1>4

\* A request ends without its transaction: refused, crashed or rolled back.
LEMMA EndKeeps ==
  ASSUME Inv, NEW q \in Requests, Refuse(q) \/ DeadlockVictim(q) \/ Crash(q)
  PROVE  Inv'
PROOF
<1>1. Fits(q) /\ TypeOK
  BY DEF Inv, Rows
<1>2. req' = [req EXCEPT ![q] = Fresh("ended")] /\ UNCHANGED <<forked, raced>>
  BY DEF Refuse, DeadlockVictim, Crash, Rollback, Ends
<1>3. req'[q] = [pc |-> "ended", kind |-> "none", token |-> NoToken, wants |-> {}]
  BY <1>1, <1>2, Types DEF Fresh
<1>4. req[q].pc \notin {"done", "ended"}
  BY DEF Refuse, DeadlockVictim, Crash, WaitsFor
<1>5. ~Stored(q)
  BY <1>1, <1>4 DEF Fits, Stored
<1>6. /\ \A p \in Requests \ {q} : upd'[p] = upd[p] /\ tok'[p] = tok[p]
      /\ upd'[q] = {} /\ upd' \in [Requests -> SUBSET Requests]
      /\ \/ tok' = tok /\ req[q].pc = "read"
         \/ tok' = [tok EXCEPT ![q] = NoRow]
  <2>1. CASE Refuse(q)
    BY <1>1, <2>1, Types DEF Refuse, Fits
  <2>2. CASE Rollback(q)
    BY <1>1, <2>2, Types DEF Rollback
  <2> QED BY <2>1, <2>2 DEF DeadlockVictim, Crash
<1>7. TypeOK'
  <2>1. tok' \in [Requests -> Row]
    BY <1>1, <1>6, Types, NoRowType
  <2>2. req' \in [Requests -> Request]
    <3>1. Fresh("ended") \in Request
      BY DEF Fresh, Request
    <3> QED BY <1>1, <1>2, <3>1, Types
  <2> QED BY <1>1, <1>2, <1>6, <2>1, <2>2, Types
<1>8. Frame
  BY <1>5, <1>6, Frames, NoRowType DEF Frame, Stored
<1>9. tok'[q].state # "flushed" /\ tok'[q].state # "committed"
  BY <1>1, <1>5, <1>6, NoRowType, Types DEF Fits, Stored
<1>10. ~Rotating(q)' /\ ~Closing(q)' /\ req'[q].kind # "close"
  BY <1>3 DEF Rotating, Closing
<1>11. Fits(q)'
  BY <1>3, <1>6, <1>9, <1>10 DEF Fits
<1>12. \A p \in Requests \ {q} : req'[p] = req[p]
  BY <1>1, <1>2, Types
<1> QED BY <1>2, <1>3, <1>6, <1>7, <1>8, <1>10, <1>11, <1>12, StepKeeps

LEMMA GoesOn ==
  ASSUME TypeOK, NEW q \in Requests,
         NEW pc \in {"retire", "issue", "commit", "done"}, Goes(q, pc)
  PROVE  /\ req' \in [Requests -> Request]
         /\ \A p \in Requests \ {q} : req'[p] = req[p]
         /\ req'[q].pc = pc /\ req'[q].kind = req[q].kind
         /\ req'[q].token = req[q].token /\ req'[q].wants = req[q].wants
PROOF
<1> DEFINE r == [req[q] EXCEPT !.pc = pc]
<1>1. req \in [Requests -> Request]
  BY Types
<1>2. /\ r \in Request /\ r.pc = pc /\ r.kind = req[q].kind
      /\ r.token = req[q].token /\ r.wants = req[q].wants
  BY <1>1 DEF Request
<1>3. req' = [req EXCEPT ![q] = r]
  BY DEF Goes
<1> HIDE DEF r
<1> QED BY <1>1, <1>2, <1>3

LEMMA UpdatesOn ==
  ASSUME TypeOK, NEW q \in Requests, NEW t \in Requests, NEW rows \in SUBSET Requests,
         Updates(q, t, rows)
  PROVE  /\ req' \in [Requests -> Request]
         /\ \A p \in Requests \ {q} : req'[p] = req[p]
         /\ req'[q].pc = (IF rows = {} THEN "commit" ELSE "lock")
         /\ req'[q].kind = "close" /\ req'[q].token = t /\ req'[q].wants = rows
PROOF
<1> DEFINE r == [pc |-> IF rows = {} THEN "commit" ELSE "lock",
                 kind |-> "close", token |-> t, wants |-> rows]
<1>1. req \in [Requests -> Request]
  BY Types
<1>2. /\ r \in Request /\ r.pc = (IF rows = {} THEN "commit" ELSE "lock")
      /\ r.kind = "close" /\ r.token = t /\ r.wants = rows
  BY DEF Request
<1>3. req' = [req EXCEPT ![q] = r]
  BY DEF Updates
<1> HIDE DEF r
<1> QED BY <1>1, <1>2, <1>3

\* A token that a request names is a request, and its family is the one that
\* the request is about.
LEMMA TokenFamily ==
  ASSUME TypeOK, NEW q \in Requests, req[q].token \in Requests
  PROVE  FamilyOf(q) = tok[req[q].token].family
BY DEF FamilyOf, Requests, NoToken

LEMMA TokenFamilyNext ==
  ASSUME TypeOK', NEW q \in Requests, req'[q].token \in Requests
  PROVE  FamilyOf(q)' = tok'[req'[q].token].family
BY DEF FamilyOf, Requests, NoToken

\* Rotation, step by step.
LEMMA AcceptKeeps ==
  ASSUME Inv, NEW q \in Requests, Accept(q)
  PROVE  Inv'
PROOF
<1> DEFINE t == req[q].token
<1>1. Fits(q) /\ TypeOK
  BY DEF Inv, Rows
<1>2. /\ req[q].pc = "read" /\ req[q].kind = "refresh" /\ Stored(t) /\ ~tok[t].revoked
      /\ Observe(q, TRUE, FALSE, tok[t].family) /\ Goes(q, "retire")
      /\ UNCHANGED <<tok, upd, forked>>
  BY DEF Accept
<1>3. t \in Requests /\ upd[q] = {}
  BY <1>1, <1>2 DEF Fits
<1>4. /\ req' \in [Requests -> Request]
      /\ \A p \in Requests \ {q} : req'[p] = req[p]
      /\ req'[q].pc = "retire" /\ req'[q].kind = "refresh" /\ req'[q].token = t
  BY <1>1, <1>2, GoesOn
<1>5. tok[t].family \in Requests
  BY <1>2, <1>3 DEF Inv, FamilyBegun
<1>6. /\ raced \subseteq raced' /\ raced' \subseteq Requests
      /\ \A p \in Requests \ {q} :
           Closing(p) /\ FamilyOf(p) = tok[t].family => tok[t].family \in raced'
  BY <1>1, <1>2, <1>5, Types DEF Observe
<1>7. TypeOK'
  BY <1>1, <1>2, <1>4, <1>6, Types
<1>8. Frame
  BY <1>2 DEF Frame, Stored
<1>9. FamilyOf(q)' = tok[t].family
  BY <1>2, <1>3, <1>4, <1>7, TokenFamilyNext
<1>10. ~Closing(q)' /\ req'[q].kind # "close" /\ Stored(req'[q].token)
  BY <1>2, <1>4 DEF Closing
<1>11. Fits(q)'
  BY <1>1, <1>2, <1>3, <1>4, <1>9 DEF Fits, Rotating, Stored
<1>12. \A p \in Requests \ {q} :
         Closing(p) /\ FamilyOf(p) = FamilyOf(q)' => FamilyOf(p) \in raced'
  BY <1>6, <1>9
<1> HIDE DEF t
<1>13. ~tok[req'[q].token].revoked /\ req'[q].pc = "retire"
  BY <1>2, <1>4
<1>14. \A p \in Requests \ {q} : upd'[p] = upd[p] /\ tok'[p] = tok[p]
  BY <1>2
<1>15. forked \subseteq forked' /\ upd'[q] = {}
  BY <1>2, <1>3
<1> QED BY <1>4, <1>6, <1>7, <1>8, <1>10, <1>11, <1>12, <1>13, <1>14, <1>15, StepKeeps

LEMMA RetireKeeps ==
  ASSUME Inv, NEW q \in Requests, Retire(q)
  PROVE  Inv'
PROOF
<1> DEFINE t == req[q].token
<1>1. Fits(q) /\ TypeOK
  BY DEF Inv, Rows
<1>2. /\ req[q].pc = "retire" /\ Holders(q, t) = {}
      /\ upd' = [upd EXCEPT ![q] = {t}]
      /\ forked' = IF tok[t].revoked THEN forked \cup {tok[t].family} ELSE forked
      /\ Goes(q, "issue") /\ UNCHANGED <<tok, raced>>
  BY DEF Retire
<1>3. /\ req[q].kind = "refresh" /\ Rotating(q) /\ t \in Requests /\ Stored(t)
  BY <1>1, <1>2 DEF Fits, Rotating
<1>4. /\ req' \in [Requests -> Request]
      /\ \A p \in Requests \ {q} : req'[p] = req[p]
      /\ req'[q].pc = "issue" /\ req'[q].kind = "refresh" /\ req'[q].token = t
  BY <1>1, <1>2, <1>3, GoesOn
<1>5. tok[t].family \in Requests
  BY <1>3 DEF Inv, FamilyBegun
<1>6. /\ forked \subseteq forked' /\ forked' \subseteq Requests
      /\ tok[t].revoked => tok[t].family \in forked'
  BY <1>1, <1>2, <1>5, Types
<1>7. /\ upd' \in [Requests -> SUBSET Requests] /\ upd'[q] = {t}
      /\ \A p \in Requests \ {q} : upd'[p] = upd[p]
  BY <1>1, <1>2, <1>3, Types
<1>8. TypeOK'
  BY <1>1, <1>2, <1>4, <1>6, <1>7, Types
<1>9. Frame
  BY <1>2 DEF Frame, Stored
<1>10. FamilyOf(q)' = tok[t].family
  BY <1>2, <1>3, <1>4, <1>8, TokenFamilyNext
<1>11. ~Closing(q)' /\ req'[q].kind # "close"
  BY <1>4 DEF Closing
<1>12. Fits(q)'
  BY <1>1, <1>2, <1>3, <1>4, <1>7 DEF Fits, Rotating, Stored
<1>13. FamilyOf(q)' \notin forked' => ~tok[t].revoked
  BY <1>6, <1>10
<1>14. \A u \in upd'[q] : Holders(q, u) = {}
  BY <1>2, <1>7
<1> HIDE DEF t
<1>15. req'[q].token = req[q].token /\ (FamilyOf(q)' \notin forked' => ~tok[req'[q].token].revoked)
  BY <1>4, <1>13 DEF t
<1>16. \A p \in Requests \ {q} : tok'[p] = tok[p]
  BY <1>2
<1>17. raced \subseteq raced'
  BY <1>2
<1> QED BY <1>3, <1>4, <1>6, <1>7, <1>8, <1>9, <1>11, <1>12, <1>14, <1>15, <1>16, <1>17,
           StepKeeps

LEMMA IssueKeeps ==
  ASSUME Inv, NEW q \in Requests, Issue(q)
  PROVE  Inv'
PROOF
<1> DEFINE t == req[q].token
           f == FamilyOf(q)
           row == [NoRow EXCEPT !.state = "flushed", !.family = f, !.parent = t]
<1>1. Fits(q) /\ TypeOK
  BY DEF Inv, Rows
<1>2. /\ req[q].pc = "issue" /\ tok' = [tok EXCEPT ![q] = row]
      /\ Goes(q, "commit") /\ UNCHANGED <<upd, forked, raced>>
  BY DEF Issue
<1>3. /\ req[q].kind = "refresh" /\ Rotating(q) /\ t \in Requests /\ Stored(t)
      /\ upd[q] = {t} /\ ~Stored(q)
  BY <1>1, <1>2 DEF Fits, Rotating, Stored
<1>4. /\ req' \in [Requests -> Request]
      /\ \A p \in Requests \ {q} : req'[p] = req[p]
      /\ req'[q].pc = "commit" /\ req'[q].kind = "refresh" /\ req'[q].token = t
  BY <1>1, <1>2, <1>3, GoesOn
<1>5. f = tok[t].family /\ f \in Requests
  <2>1. f = tok[t].family
    BY <1>1, <1>3, TokenFamily
  <2> QED BY <1>3, <2>1 DEF Inv, FamilyBegun
<1>6. row \in Row /\ row.state = "flushed" /\ row.family = f /\ row.parent = t
  <2>1. t \in Requests /\ f \in Requests
    BY <1>3, <1>5
  <2> HIDE DEF t, f
  <2> QED BY <2>1, NoRowType DEF Row
<1> HIDE DEF row
<1>7. tok' \in [Requests -> Row] /\ tok'[q] = row /\ \A p \in Requests \ {q} : tok'[p] = tok[p]
  BY <1>1, <1>2, <1>6, Types
<1>8. TypeOK'
  BY <1>1, <1>2, <1>4, <1>7, Types
<1>9. Frame
  BY <1>2, <1>3, <1>6, Frames
<1>10. FamilyOf(q)' = f
  <2>1. tok'[t].family = tok[t].family
    BY <1>3, <1>9 DEF Frame
  <2> QED BY <1>3, <1>4, <1>5, <1>8, <2>1, TokenFamilyNext
<1>11. ~Closing(q)' /\ req'[q].kind # "close"
  BY <1>4 DEF Closing
<1>12. Fits(q)'
  <2>1. tok'[t].state = "committed"
    BY <1>3, <1>9 DEF Frame
  <2> HIDE DEF f, t
  <2> QED BY <1>2, <1>3, <1>4, <1>6, <1>7, <1>10, <2>1 DEF Fits, Rotating, Stored
<1>13. FamilyOf(q)' \notin forked' => ~tok[req'[q].token].revoked
  BY <1>2, <1>3, <1>4, <1>10 DEF Inv, HeldIsGood
<1>14. upd'[q] = upd[q] /\ \A p \in Requests \ {q} : upd'[p] = upd[p]
  BY <1>2
<1>15. forked \subseteq forked' /\ raced \subseteq raced' /\ req'[q].token = req[q].token
  BY <1>2, <1>4
<1> HIDE DEF f, t
<1> QED BY <1>3, <1>4, <1>7, <1>8, <1>9, <1>11, <1>12, <1>13, <1>14, <1>15, StepKeeps

-----------------------------------------------------------------------------
(* Closing, and expiry.                                                    *)

LEMMA CloseKeeps ==
  ASSUME Inv, NEW q \in Requests, Close(q)
  PROVE  Inv'
PROOF
<1> DEFINE t == req[q].token
           f == tok[t].family
<1>1. Fits(q) /\ TypeOK
  BY DEF Inv, Rows
<1>2. /\ req[q].pc = "read" /\ Stored(t) /\ Updates(q, t, LiveIn(f))
      /\ Observe(q, FALSE, TRUE, f) /\ UNCHANGED <<tok, upd, forked>>
  BY DEF Close
<1>3. t \in Requests /\ upd[q] = {} /\ ~Stored(q) /\ tok[q].state # "flushed"
  BY <1>1, <1>2 DEF Fits, Stored
<1>4. LiveIn(f) \in SUBSET Requests
  BY DEF LiveIn
<1>5. /\ req' \in [Requests -> Request]
      /\ \A p \in Requests \ {q} : req'[p] = req[p]
      /\ req'[q].pc = (IF LiveIn(f) = {} THEN "commit" ELSE "lock")
      /\ req'[q].kind = "close" /\ req'[q].token = t /\ req'[q].wants = LiveIn(f)
  <2> HIDE DEF t, f
  <2> QED BY <1>1, <1>2, <1>3, <1>4, UpdatesOn
<1>6. f \in Requests
  BY <1>2, <1>3 DEF Inv, FamilyBegun
<1>7. /\ raced \subseteq raced' /\ raced' \subseteq Requests
      /\ \A p \in Requests \ {q} : Rotating(p) /\ FamilyOf(p) = f => f \in raced'
  BY <1>1, <1>2, <1>6, Types DEF Observe
<1>8. TypeOK'
  BY <1>1, <1>2, <1>5, <1>7, Types
<1>9. Frame
  BY <1>2 DEF Frame, Stored
<1>10. FamilyOf(q)' = f
  BY <1>2, <1>3, <1>5, <1>8, TokenFamilyNext
<1>11. ~Rotating(q)' /\ req'[q].pc # "done"
  BY <1>5 DEF Rotating
<1>12. Fits(q)'
  <2> HIDE DEF f, t
  <2> QED BY <1>2, <1>3, <1>5, <1>11 DEF Fits, Stored
<1>13. \A p \in Requests \ {q} :
         Rotating(p) /\ FamilyOf(p) = FamilyOf(q)' => FamilyOf(p) \in raced'
  BY <1>7, <1>10
<1>14. LiveIn(FamilyOf(q)') \subseteq req'[q].wants \cup upd'[q]
  BY <1>5, <1>10
<1>15. \A p \in Requests \ {q} : upd'[p] = upd[p] /\ tok'[p] = tok[p]
  BY <1>2
<1>16. forked \subseteq forked' /\ upd'[q] = {}
  BY <1>2, <1>3
<1> QED BY <1>5, <1>7, <1>8, <1>9, <1>11, <1>12, <1>13, <1>14, <1>15, <1>16, StepKeeps

LEMMA LockKeeps ==
  ASSUME Inv, NEW q \in Requests, Lock(q)
  PROVE  Inv'
PROOF
<1>1. Fits(q) /\ TypeOK
  BY DEF Inv, Rows
<1>2. PICK t \in req[q].wants :
        /\ Holders(q, t) = {}
        /\ upd' = IF tok[t].revoked THEN upd ELSE [upd EXCEPT ![q] = @ \cup {t}]
        /\ Updates(q, req[q].token, req[q].wants \ {t})
  BY DEF Lock
<1>3. req[q].pc = "lock" /\ UNCHANGED <<tok, forked, raced>>
  BY DEF Lock
<1>4. /\ req[q].kind = "close" /\ Closing(q) /\ req[q].token \in Requests
      /\ Stored(req[q].token) /\ ~Stored(q) /\ tok[q].state # "flushed"
  BY <1>1, <1>3 DEF Fits, Closing, Stored
<1>5. req[q].wants \in SUBSET Requests /\ req[q].wants \ {t} \in SUBSET Requests /\ t \in Requests
  BY <1>1, Types DEF Request
<1>6. /\ req' \in [Requests -> Request]
      /\ \A p \in Requests \ {q} : req'[p] = req[p]
      /\ req'[q].pc = (IF req[q].wants \ {t} = {} THEN "commit" ELSE "lock")
      /\ req'[q].kind = "close" /\ req'[q].token = req[q].token
      /\ req'[q].wants = req[q].wants \ {t}
  BY <1>1, <1>2, <1>4, <1>5, UpdatesOn
<1>7. /\ upd' \in [Requests -> SUBSET Requests]
      /\ \A p \in Requests \ {q} : upd'[p] = upd[p]
      /\ upd'[q] = IF tok[t].revoked THEN upd[q] ELSE upd[q] \cup {t}
  BY <1>1, <1>2, <1>5, Types
<1>8. TypeOK'
  BY <1>1, <1>3, <1>6, <1>7, Types
<1>9. Frame
  BY <1>3 DEF Frame, Stored
<1>10. FamilyOf(q)' = FamilyOf(q)
  BY <1>1, <1>3, <1>4, <1>6, <1>8, TokenFamily, TokenFamilyNext
<1>11. ~Rotating(q)' /\ req'[q].pc # "done"
  BY <1>6 DEF Rotating
<1>12. Fits(q)'
  BY <1>3, <1>4, <1>6, <1>11 DEF Fits, Stored
<1>13. ASSUME FamilyOf(q)' \notin raced'
       PROVE  LiveIn(FamilyOf(q)') \subseteq req'[q].wants \cup upd'[q]
  <2>1. LiveIn(FamilyOf(q)) \subseteq req[q].wants \cup upd[q]
    BY <1>3, <1>4, <1>10, <1>13 DEF Inv, ClosingSeesAll
  <2>2. tok[t].revoked => t \notin LiveIn(FamilyOf(q))
    BY DEF LiveIn
  <2> QED BY <1>6, <1>7, <1>10, <2>1, <2>2
<1>14. \A u \in upd'[q] : u \in upd[q] \/ Holders(q, u) = {}
  BY <1>2, <1>7
<1>15. \A p \in Requests \ {q} : tok'[p] = tok[p]
  BY <1>3
<1>16. forked \subseteq forked' /\ raced \subseteq raced'
  BY <1>3
<1> QED BY <1>4, <1>6, <1>7, <1>8, <1>9, <1>11, <1>12, <1>13, <1>14, <1>15, <1>16, StepKeeps

LEMMA ExpireKeeps ==
  ASSUME Inv, NEW t \in Requests, Expire(t)
  PROVE  Inv'
PROOF
<1> DEFINE row == [tok[t] EXCEPT !.expired = TRUE]
<1>1. Fits(t) /\ TypeOK
  BY DEF Inv, Rows
<1>2. Stored(t) /\ tok' = [tok EXCEPT ![t] = row] /\ UNCHANGED <<upd, req, forked, raced>>
  BY DEF Expire
<1>3. tok[t] \in Row
  BY <1>1, Types
<1>4. /\ row \in Row /\ row.state = tok[t].state /\ row.family = tok[t].family
      /\ row.parent = tok[t].parent /\ row.revoked = tok[t].revoked
  BY <1>3 DEF Row
<1> HIDE DEF row
<1>5. tok' \in [Requests -> Row] /\ tok'[t] = row /\ \A p \in Requests \ {t} : tok'[p] = tok[p]
  BY <1>1, <1>2, <1>4, Types
<1>6. TypeOK'
  BY <1>1, <1>2, <1>5, Types
<1>7. Frame
  BY <1>4, <1>5 DEF Frame, Stored
\* A stored row's request is at its end.
<1>8. req[t].pc = "ended" /\ upd[t] = {} /\ ~Rotating(t) /\ ~Closing(t)
  BY <1>1, <1>2 DEF Fits, Stored, Rotating, Closing
<1>9. ~Rotating(t)' /\ ~Closing(t)' /\ upd'[t] = {} /\ req'[t] = req[t]
  BY <1>2, <1>8 DEF Rotating, Closing
<1>10. Fits(t)'
  <2>1. req[t].kind = "close" =>
          req[t].token \in Requests /\ tok'[req[t].token].state = "committed"
    BY <1>1, <1>7 DEF Fits, Frame
  <2> QED BY <1>1, <1>4, <1>5, <1>8, <1>9, <2>1 DEF Fits, Stored
<1>11. \A p \in Requests \ {t} : req'[p] = req[p] /\ upd'[p] = upd[p] /\ tok'[p] = tok[p]
  BY <1>2, <1>5
<1>12. forked \subseteq forked' /\ raced \subseteq raced'
  BY <1>2
<1> QED BY <1>6, <1>7, <1>9, <1>10, <1>11, <1>12, StepKeeps

-----------------------------------------------------------------------------
(* The commit.                                                             *)

\* Rows keep their family and parent; the committed one is stored, and those
\* it has updated are retired.
LEMMA CommitDoes ==
  ASSUME Inv, NEW q \in Requests, Commit(q)
  PROVE  /\ TypeOK' /\ UNCHANGED <<forked, raced>>
         /\ \A t \in Requests :
              /\ tok'[t].family = tok[t].family /\ tok'[t].parent = tok[t].parent
              /\ tok'[t].revoked <=> tok[t].revoked \/ t \in upd[q]
              /\ tok'[t].state = IF t = q /\ tok[t].state = "flushed"
                                THEN "committed" ELSE tok[t].state
         /\ \A p \in Requests \ {q} : req'[p] = req[p] /\ upd'[p] = upd[p]
         /\ upd'[q] = {}
         /\ req'[q].token \in {req[q].token, NoToken}
         /\ IF req[q].kind = "close"
            THEN req'[q].pc = "done" /\ req'[q].kind = "close" /\ req'[q].token = req[q].token
            ELSE req'[q].pc = "ended" /\ req'[q].kind = "none"
PROOF
<1> DEFINE row(t) == [tok[t] EXCEPT !.revoked = @ \/ t \in upd[q],
                        !.state = IF t = q /\ @ = "flushed" THEN "committed" ELSE @]
<1>1. TypeOK /\ tok \in [Requests -> Row] /\ req \in [Requests -> Request]
      /\ upd \in [Requests -> SUBSET Requests]
  BY Types DEF Inv
<1>2. /\ tok' = [t \in Requests |-> row(t)] /\ upd' = [upd EXCEPT ![q] = {}]
      /\ req[q].pc = "commit" /\ UNCHANGED <<forked, raced>>
      /\ IF req[q].kind = "close" THEN Goes(q, "done") ELSE Ends(q)
  BY DEF Commit
<1>3. ASSUME NEW t \in Requests
      PROVE  /\ row(t) \in Row
             /\ row(t).family = tok[t].family /\ row(t).parent = tok[t].parent
             /\ row(t).revoked <=> tok[t].revoked \/ t \in upd[q]
             /\ row(t).state = IF t = q /\ tok[t].state = "flushed"
                               THEN "committed" ELSE tok[t].state
  <2> DEFINE rev == tok[t].revoked \/ t \in upd[q]
             st  == IF t = q /\ tok[t].state = "flushed" THEN "committed" ELSE tok[t].state
  <2>1. tok[t] \in Row
    BY <1>1
  <2>2. row(t) = [tok[t] EXCEPT !.revoked = rev, !.state = st]
    BY <2>1 DEF Row
  <2>3. rev \in BOOLEAN /\ st \in {"none", "flushed", "committed"}
    BY <2>1 DEF Row
  <2> HIDE DEF row, rev, st
  <2>4. /\ row(t) \in Row /\ row(t).revoked = rev /\ row(t).state = st
        /\ row(t).family = tok[t].family /\ row(t).parent = tok[t].parent
    BY <2>1, <2>2, <2>3 DEF Row
  <2> QED BY <2>4 DEF rev, st
<1> HIDE DEF row
<1>4. tok' \in [Requests -> Row] /\ \A t \in Requests : tok'[t] = row(t)
  BY <1>2, <1>3
<1>5. /\ upd' \in [Requests -> SUBSET Requests] /\ upd'[q] = {}
      /\ \A p \in Requests \ {q} : upd'[p] = upd[p]
  BY <1>1, <1>2
<1>6. /\ req' \in [Requests -> Request]
      /\ \A p \in Requests \ {q} : req'[p] = req[p]
      /\ req'[q].token \in {req[q].token, NoToken}
      /\ IF req[q].kind = "close"
         THEN req'[q].pc = "done" /\ req'[q].kind = "close" /\ req'[q].token = req[q].token
         ELSE req'[q].pc = "ended" /\ req'[q].kind = "none"
  <2>1. CASE req[q].kind = "close"
    BY <1>1, <1>2, <2>1, GoesOn
  <2>2. CASE req[q].kind # "close"
    <3>1. req' = [req EXCEPT ![q] = Fresh("ended")]
      BY <1>2, <2>2 DEF Ends
    <3>2. /\ Fresh("ended") \in Request /\ Fresh("ended").pc = "ended"
          /\ Fresh("ended").kind = "none" /\ Fresh("ended").token = NoToken
      BY DEF Fresh, Request
    <3> QED BY <1>1, <2>2, <3>1, <3>2
  <2> QED BY <2>1, <2>2
<1>7. TypeOK'
  BY <1>1, <1>2, <1>4, <1>5, <1>6, Types
<1> QED BY <1>2, <1>3, <1>4, <1>5, <1>6, <1>7

LEMMA CommitKeeps ==
  ASSUME Inv, NEW q \in Requests, Commit(q)
  PROVE  Inv'
PROOF
<1> DEFINE New == tok[q].state = "flushed"
<1>1. TypeOK' /\ UNCHANGED <<forked, raced>>
  BY CommitDoes
<1>2. \A t \in Requests :
        /\ tok'[t].family = tok[t].family /\ tok'[t].parent = tok[t].parent
        /\ tok'[t].revoked <=> tok[t].revoked \/ t \in upd[q]
        /\ tok'[t].state = "committed" <=> Stored(t) \/ (t = q /\ New)
        /\ tok'[t].state = IF t = q /\ New THEN "committed" ELSE tok[t].state
  <2>1. \A t \in Requests :
          /\ tok'[t].family = tok[t].family /\ tok'[t].parent = tok[t].parent
          /\ tok'[t].revoked <=> tok[t].revoked \/ t \in upd[q]
          /\ tok'[t].state = IF t = q /\ tok[t].state = "flushed"
                            THEN "committed" ELSE tok[t].state
    BY CommitDoes
  <2> SUFFICES ASSUME NEW t \in Requests
               PROVE  tok'[t].state = "committed" <=> Stored(t) \/ (t = q /\ New)
    BY <2>1
  <2>2. tok'[t].state = IF t = q /\ New THEN "committed" ELSE tok[t].state
    BY <2>1
  <2>3. CASE t = q /\ New
    BY <2>2, <2>3
  <2>4. CASE ~(t = q /\ New)
    <3>1. tok'[t].state = tok[t].state
      BY <2>2, <2>4
    <3> QED BY <2>4, <3>1 DEF Stored
  <2> QED BY <2>3, <2>4
<1>3. /\ \A p \in Requests \ {q} : req'[p] = req[p] /\ upd'[p] = upd[p]
      /\ upd'[q] = {} /\ req[q].pc = "commit"
      /\ req'[q].token \in {req[q].token, NoToken}
      /\ IF req[q].kind = "close"
         THEN req'[q].pc = "done" /\ req'[q].kind = "close" /\ req'[q].token = req[q].token
         ELSE req'[q].pc = "ended" /\ req'[q].kind = "none"
  BY CommitDoes DEF Commit
<1>4. TypeOK /\ Fits(q)
  BY DEF Inv, Rows
\* What has been inserted.
<1>5. ASSUME New
      PROVE  \/ tok[q].family = q /\ tok[q].parent = NoToken
             \/ /\ Rotating(q) /\ req[q].token \in Requests /\ Stored(req[q].token)
                /\ upd[q] = {req[q].token} /\ tok[q].parent = req[q].token
                /\ tok[q].family = FamilyOf(q) /\ FamilyOf(q) = tok[req[q].token].family
  <2>1. CASE req[q].kind = "login"
    BY <1>3, <1>4, <2>1 DEF Fits
  <2>2. CASE req[q].kind = "refresh"
    <3>1. Rotating(q)
      BY <1>3, <2>2 DEF Rotating
    <3>2. req[q].token \in Requests /\ Stored(req[q].token) /\ upd[q] = {req[q].token}
      BY <1>3, <1>4, <3>1 DEF Fits
    <3>3. FamilyOf(q) = tok[req[q].token].family
      BY <1>4, <3>2, TokenFamily
    <3> QED BY <1>3, <1>4, <2>2, <3>1, <3>2, <3>3 DEF Fits
  <2> QED BY <1>3, <1>4, <1>5, <2>1, <2>2 DEF Fits
\* A family that is about to begin has no stored row.
<1>6. ASSUME New, tok[q].family = q, NEW t \in Requests, Stored(t) PROVE tok[t].family # q
  BY <1>6 DEF Inv, FamilyBegun, Stored
<1>7. ASSUME NEW p \in Requests, req'[p].token = req[p].token
      PROVE  FamilyOf(p)' = FamilyOf(p)
  <2>1. req[p].token \in Requests \cup {NoToken}
    BY <1>4, Types DEF Request
  <2> QED BY <1>2, <1>7, <2>1 DEF FamilyOf
<1>8. ASSUME NEW p \in Requests, Rotating(p)' PROVE p # q /\ req'[p] = req[p]
  BY <1>3, <1>8 DEF Rotating, Closing
<1>9. Rows'
  <2> SUFFICES ASSUME NEW p \in Requests PROVE Fits(p)'
    BY DEF Rows
  <2>1. Fits(p)
    BY DEF Inv, Rows
  <2>2. ASSUME Rotating(p) \/ req[p].kind = "close"
        PROVE  req[p].token \in Requests /\ tok'[req[p].token].state = "committed"
    <3>1. req[p].token \in Requests /\ Stored(req[p].token)
      BY <2>1, <2>2 DEF Fits
    <3> QED BY <1>2, <3>1 DEF Stored
  <2>3. CASE p # q
    <3>1. req'[p] = req[p] /\ upd'[p] = upd[p] /\ FamilyOf(p)' = FamilyOf(p)
      BY <1>3, <1>7, <2>3
    <3>2. /\ tok'[p].state = tok[p].state /\ tok'[p].family = tok[p].family
          /\ tok'[p].parent = tok[p].parent
      BY <1>2, <2>3
    <3>3. Rotating(p)' <=> Rotating(p)
      BY <3>1 DEF Rotating
    <3> QED BY <2>1, <2>2, <3>1, <3>2, <3>3 DEF Fits, Stored
  <2>4. CASE p = q /\ req[q].kind = "close"
    <3>1. ~New /\ tok[q].state # "committed"
      BY <1>3, <1>4, <2>4 DEF Fits
    <3>2. tok'[q].state # "committed" /\ tok'[q].state # "flushed"
      BY <1>2, <3>1
    <3>3. ~Rotating(q)'
      BY <1>3, <2>4 DEF Rotating
    <3> QED BY <1>3, <2>2, <2>4, <3>2, <3>3 DEF Fits, Stored
  <2>5. CASE p = q /\ req[q].kind # "close"
    <3>1. tok'[q].state # "flushed"
      BY <1>2
    <3>2. ~Rotating(q)'
      BY <1>3, <2>5 DEF Rotating
    <3> QED BY <1>3, <2>5, <3>1, <3>2 DEF Fits
  <2> QED BY <2>3, <2>4, <2>5
<1>10. ChainIsClosed'
  <2> SUFFICES ASSUME NEW t \in Requests, tok'[t].state = "committed", tok'[t].parent # NoToken
               PROVE  /\ tok'[tok'[t].parent].state = "committed"
                      /\ tok'[tok'[t].parent].revoked
                      /\ tok'[tok'[t].parent].family = tok'[t].family
    BY DEF ChainIsClosed, Stored
  <2>1. tok[t].parent \in Requests
    BY <1>2, <1>4, Types DEF Row
  <2>2. CASE Stored(t)
    <3>1. Stored(tok[t].parent) /\ tok[tok[t].parent].revoked
          /\ tok[tok[t].parent].family = tok[t].family
      BY <1>2, <2>2 DEF Inv, ChainIsClosed
    <3> QED BY <1>2, <2>1, <3>1
  <2>3. CASE t = q /\ New
    <3>1. /\ req[q].token \in Requests /\ Stored(req[q].token)
          /\ upd[q] = {req[q].token} /\ tok[q].parent = req[q].token
          /\ tok[q].family = tok[req[q].token].family
      BY <1>2, <1>5, <2>3
    <3> QED BY <1>2, <2>3, <3>1
  <2> QED BY <1>2, <2>2, <2>3
<1>11. FamilyBegun'
  <2> SUFFICES ASSUME NEW t \in Requests, tok'[t].state = "committed"
               PROVE  tok'[t].family \in Requests /\ tok'[tok'[t].family].state = "committed"
    BY DEF FamilyBegun, Stored
  <2>1. CASE Stored(t)
    <3>1. tok[t].family \in Requests /\ Stored(tok[t].family)
      BY <2>1 DEF Inv, FamilyBegun
    <3> QED BY <1>2, <3>1
  <2>2. CASE t = q /\ New
    <3>1. CASE tok[q].family = q
      BY <1>2, <2>2, <3>1
    <3>2. CASE tok[q].family # q
      <4>1. Stored(req[q].token) /\ req[q].token \in Requests
            /\ tok[q].family = tok[req[q].token].family
        BY <1>5, <2>2, <3>2
      <4>2. tok[q].family \in Requests /\ Stored(tok[q].family)
        BY <4>1 DEF Inv, FamilyBegun
      <4> QED BY <1>2, <2>2, <4>2
    <3> QED BY <3>1, <3>2
  <2> QED BY <1>2, <2>1, <2>2
<1>12. Exclusive'
  BY <1>3 DEF Inv, Exclusive
<1>13. HeldIsGood'
  <2> SUFFICES ASSUME NEW p \in Requests, Rotating(p)', req'[p].pc # "retire",
                      FamilyOf(p)' \notin forked'
               PROVE  ~tok'[req'[p].token].revoked
    BY DEF HeldIsGood
  <2>1. p # q /\ req'[p] = req[p]
    BY <1>8
  <2>2. Rotating(p) /\ FamilyOf(p)' = FamilyOf(p)
    BY <1>7, <2>1 DEF Rotating
  <2>3. Fits(p)
    BY DEF Inv, Rows
  <2>4. req[p].token \in Requests /\ req[p].token \in upd[p]
    BY <2>1, <2>2, <2>3 DEF Fits
  <2>5. req[p].token \notin upd[q]
    BY <2>1, <2>4 DEF Inv, Exclusive
  <2>6. ~tok[req[p].token].revoked
    BY <1>1, <2>1, <2>2 DEF Inv, HeldIsGood
  <2> QED BY <1>2, <2>1, <2>4, <2>5, <2>6
\* The good tokens of a family: none is added but by its rotation.
<1>14. ASSUME NEW f, NEW t \in LiveIn(f)'
       PROVE  /\ t \in Requests /\ t \notin upd[q]
              /\ t \in LiveIn(f) \/ (t = q /\ New /\ tok[q].family = f)
  <2>1. t \in Requests /\ tok'[t].state = "committed" /\ tok'[t].family = f
        /\ ~tok'[t].revoked
    BY DEF LiveIn, Stored
  <2>2. tok[t].family = f /\ ~tok[t].revoked /\ t \notin upd[q]
    BY <1>2, <2>1
  <2>3. Stored(t) \/ (t = q /\ New)
    BY <1>2, <2>1
  <2>4. CASE Stored(t)
    <3>1. t \in LiveIn(f)
      BY <2>1, <2>2, <2>4 DEF LiveIn
    <3> QED BY <2>1, <2>2, <3>1
  <2>5. CASE t = q /\ New
    BY <2>1, <2>2, <2>5
  <2> QED BY <2>3, <2>4, <2>5
<1>15. OnlyOne'
  <2> SUFFICES ASSUME NEW f \in Requests \ forked, NEW s \in LiveIn(f)', NEW t \in LiveIn(f)',
                      s # t
               PROVE  FALSE
    BY <1>1 DEF OnlyOne
  <2>1. ~(s \in LiveIn(f) /\ t \in LiveIn(f))
    BY DEF Inv, OnlyOne
  <2>2. New /\ tok[q].family = f /\ \E u \in LiveIn(f) : u \notin upd[q]
    BY <1>14, <2>1
  <2>3. PICK u \in LiveIn(f) : u \notin upd[q]
    BY <2>2
  <2>4. f # q
    BY <1>6, <2>2, <2>3 DEF LiveIn
  <2>5. /\ Rotating(q) /\ req[q].token \in Requests /\ Stored(req[q].token)
        /\ upd[q] = {req[q].token} /\ FamilyOf(q) = f
        /\ tok[req[q].token].family = f
    BY <1>5, <2>2, <2>4
  <2>6. ~tok[req[q].token].revoked
    BY <1>3, <2>5 DEF Inv, HeldIsGood
  <2>7. req[q].token \in LiveIn(f)
    BY <2>5, <2>6 DEF LiveIn
  <2> QED BY <2>3, <2>5, <2>7 DEF Inv, OnlyOne
<1>16. OverlapSeen'
  <2> SUFFICES ASSUME NEW p \in Requests, NEW c \in Requests, Rotating(p)', Closing(c)',
                      FamilyOf(p)' = FamilyOf(c)'
               PROVE  FamilyOf(c)' \in raced'
    BY DEF OverlapSeen
  <2>1. p # q /\ req'[p] = req[p]
    BY <1>8
  <2>2. c # q /\ req'[c] = req[c]
    BY <1>3 DEF Closing
  <2>3. Rotating(p) /\ Closing(c) /\ FamilyOf(p)' = FamilyOf(p) /\ FamilyOf(c)' = FamilyOf(c)
    BY <1>7, <2>1, <2>2 DEF Rotating, Closing
  <2> QED BY <1>1, <2>3 DEF Inv, OverlapSeen
\* A closing's own family is not one that is about to begin.
<1>17. ASSUME NEW c \in Requests, c # q, req[c].kind = "close", New,
              tok[q].family = FamilyOf(c)
       PROVE  Rotating(q) /\ FamilyOf(q) = FamilyOf(c)
  <2>1. Fits(c)
    BY DEF Inv, Rows
  <2>2. req[c].token \in Requests /\ Stored(req[c].token)
    BY <1>17, <2>1 DEF Fits
  <2>3. FamilyOf(c) = tok[req[c].token].family
    BY <1>4, <2>2, TokenFamily
  <2>4. FamilyOf(c) # q
    BY <1>6, <1>17, <2>2, <2>3
  <2> QED BY <1>5, <1>17, <2>4
<1>18. ClosingSeesAll'
  <2> SUFFICES ASSUME NEW c \in Requests, Closing(c)', FamilyOf(c)' \notin raced',
                      NEW t \in (LiveIn(FamilyOf(c)))'
               PROVE  t \in req'[c].wants \cup upd'[c]
    BY DEF ClosingSeesAll
  <2>1. c # q /\ req'[c] = req[c] /\ upd'[c] = upd[c]
    BY <1>3 DEF Closing
  <2>2. Closing(c) /\ req[c].kind = "close" /\ FamilyOf(c)' = FamilyOf(c)
    BY <1>7, <2>1 DEF Closing
  <2>3. t \in LiveIn(FamilyOf(c)) \/ (t = q /\ New /\ tok[q].family = FamilyOf(c))
    BY <1>14, <2>2
  <2>4. t \in LiveIn(FamilyOf(c))
    BY <1>1, <1>17, <2>1, <2>2, <2>3 DEF Inv, OverlapSeen
  <2> QED BY <1>1, <2>1, <2>2, <2>4 DEF Inv, ClosingSeesAll
<1>19. NothingAfter'
  <2> SUFFICES ASSUME NEW c \in Requests, req'[c].kind = "close", req'[c].pc = "done",
                      FamilyOf(c)' \notin raced'
               PROVE  /\ (LiveIn(FamilyOf(c)))' = {}
                      /\ \A p \in Requests : Rotating(p)' => FamilyOf(p)' # FamilyOf(c)'
    BY DEF NothingAfter
  <2>1. req'[c].token = req[c].token /\ req[c].kind = "close" /\ (c # q => req[c].pc = "done")
    BY <1>3
  <2>2. FamilyOf(c)' = FamilyOf(c) /\ FamilyOf(c) \notin raced
    BY <1>1, <1>7, <2>1
  <2>3. ASSUME NEW p \in Requests, Rotating(p)'
        PROVE  p # q /\ Rotating(p) /\ FamilyOf(p)' = FamilyOf(p)
    <3>1. p # q /\ req'[p] = req[p]
      BY <1>8, <2>3
    <3> QED BY <1>7, <2>3, <3>1 DEF Rotating
  <2>4. CASE c = q
    <3>1. Closing(q) /\ req[q].wants = {} /\ ~New
      BY <1>3, <1>4, <2>1, <2>4 DEF Fits, Closing
    <3>2. LiveIn(FamilyOf(q)) \subseteq upd[q]
      BY <2>2, <2>4, <3>1 DEF Inv, ClosingSeesAll
    <3>3. (LiveIn(FamilyOf(c)))' = {}
      BY <1>14, <2>2, <2>4, <3>1, <3>2
    <3>4. \A p \in Requests : Rotating(p) => FamilyOf(p) # FamilyOf(c)
      BY <2>2, <2>4, <3>1 DEF Inv, OverlapSeen
    <3> QED BY <2>2, <2>3, <3>3, <3>4
  <2>5. CASE c # q
    <3>1. /\ LiveIn(FamilyOf(c)) = {}
          /\ \A p \in Requests : Rotating(p) => FamilyOf(p) # FamilyOf(c)
      BY <2>1, <2>2, <2>5 DEF Inv, NothingAfter
    <3>2. ~(New /\ tok[q].family = FamilyOf(c))
      BY <1>17, <2>1, <2>5, <3>1
    <3>3. (LiveIn(FamilyOf(c)))' = {}
      BY <1>14, <2>2, <3>1, <3>2
    <3> QED BY <2>2, <2>3, <3>1, <3>3
  <2> QED BY <2>4, <2>5
<1> QED BY <1>1, <1>9, <1>10, <1>11, <1>12, <1>13, <1>15, <1>16, <1>18, <1>19 DEF Inv

-----------------------------------------------------------------------------
(* The invariant holds.                                                    *)

LEMMA InitInv == Init => Inv
PROOF
<1> SUFFICES ASSUME Init
             PROVE  Inv
  OBVIOUS
<1>1. Fresh("unsent") \in Request /\ NoRow \in Row
  BY NoRowType DEF Fresh, Request
<1>2. TypeOK
  BY <1>1, Types DEF Init
<1>3. \A q \in Requests :
        /\ tok[q].state = "none" /\ upd[q] = {}
        /\ req[q].pc = "unsent" /\ req[q].kind = "none"
  BY NoRowType DEF Init, Fresh
<1>4. \A q \in Requests : ~Stored(q) /\ ~Rotating(q) /\ ~Closing(q)
  BY <1>3 DEF Stored, Rotating, Closing
<1>5. \A f : LiveIn(f) = {}
  BY <1>4 DEF LiveIn
<1>6. Rows
  BY <1>3, <1>4 DEF Rows, Fits
<1>7. ChainIsClosed /\ FamilyBegun
  BY <1>4 DEF ChainIsClosed, FamilyBegun
<1>8. Exclusive /\ HeldIsGood /\ OverlapSeen /\ ClosingSeesAll /\ NothingAfter
  BY <1>3, <1>4 DEF Exclusive, HeldIsGood, OverlapSeen, ClosingSeesAll, NothingAfter
<1>9. OnlyOne
  BY <1>5 DEF OnlyOne
<1> QED BY <1>2, <1>6, <1>7, <1>8, <1>9 DEF Inv

LEMMA StutterKeeps ==
  ASSUME Inv, UNCHANGED vars
  PROVE  Inv'
BY DEF vars, Inv, TypeOK, Rows, Fits, ChainIsClosed, FamilyBegun, Exclusive, HeldIsGood,
       OnlyOne, OverlapSeen, ClosingSeesAll, NothingAfter, Rotating, Closing, FamilyOf,
       Stored, LiveIn

LEMMA NextKeeps == Inv /\ [Next]_vars => Inv'
PROOF
<1> SUFFICES ASSUME Inv, [Next]_vars
             PROVE  Inv'
  OBVIOUS
<1>1. ASSUME NEW q \in Requests, Login(q) \/ Present(q) PROVE Inv'
  BY <1>1, SendKeeps
<1>2. ASSUME NEW q \in Requests, Handle(q) PROVE Inv'
  <2>1. CASE Refuse(q) \/ DeadlockVictim(q)
    BY <2>1, EndKeeps
  <2>2. CASE Accept(q)
    BY <2>2, AcceptKeeps
  <2>3. CASE Retire(q)
    BY <2>3, RetireKeeps
  <2>4. CASE Issue(q)
    BY <2>4, IssueKeeps
  <2>5. CASE Close(q)
    BY <2>5, CloseKeeps
  <2>6. CASE Lock(q)
    BY <2>6, LockKeeps
  <2>7. CASE Commit(q)
    BY <2>7, CommitKeeps
  <2> QED BY <1>2, <2>1, <2>2, <2>3, <2>4, <2>5, <2>6, <2>7 DEF Handle
<1>3. ASSUME NEW q \in Requests, Crash(q) PROVE Inv'
  BY <1>3, EndKeeps
<1>4. ASSUME NEW t \in Requests, Expire(t) PROVE Inv'
  BY <1>4, ExpireKeeps
<1>5. CASE UNCHANGED vars
  BY <1>5, StutterKeeps
<1> QED BY <1>1, <1>2, <1>3, <1>4, <1>5 DEF Next

LEMMA Invariance == Spec => []Inv
BY InitInv, NextKeeps, PTL DEF Spec

\* Every row and every request has its type, whatever overlaps and whoever
\* crashes in refresh.py's transactions.
THEOREM TypeCorrect == Spec => []TypeOK
PROOF
<1>1. Inv => TypeOK
  BY DEF Inv
<1> QED BY <1>1, Invariance, PTL

\* rotate (refresh.py): a successor is stored only with the retirement of the
\* token it replaces, and in its family, for any number of requests.
THEOREM SuccessorReplaces == Spec => []ChainIsClosed
PROOF
<1>1. Inv => ChainIsClosed
  BY DEF Inv
<1> QED BY <1>1, Invariance, PTL

\* rotate (refresh.py): a family has one good token at a time, however many
\* rotations, closings and crashes it saw, unless a rotation retired a token
\* that another had retired since it was read.
THEOREM OneGoodToken == Spec => []OneLiveToken
PROOF
<1>1. Inv => OneLiveToken
  <2> SUFFICES ASSUME Inv, NEW f \in Requests, f \notin forked
               PROVE  Cardinality(LiveIn(f)) <= 1
    BY DEF OneLiveToken
  <2>1. \A s, t \in LiveIn(f) : s = t
    BY DEF Inv, OnlyOne
  <2>2. CASE LiveIn(f) = {}
    BY <2>2, FS_EmptySet
  <2>3. CASE LiveIn(f) # {}
    <3>1. PICK t : t \in LiveIn(f)
      BY <2>3
    <3>2. LiveIn(f) = {t}
      BY <2>1, <3>1
    <3> QED BY <3>2, FS_Singleton
  <2> QED BY <2>2, <2>3
<1> QED BY <1>1, Invariance, PTL

\* revoke_family (refresh.py): once the closing of a family is done and no
\* rotation overlapped it, the family has no good token ever after.
THEOREM NoTokenAfterClosing == Spec => []ClosedForGood
PROOF
<1>1. Inv => ClosedForGood
  BY DEF Inv, NothingAfter, ClosedForGood
<1> QED BY <1>1, Invariance, PTL
=============================================================================
