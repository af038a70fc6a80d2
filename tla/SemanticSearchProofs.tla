------------------------ MODULE SemanticSearchProofs ------------------------
(***************************************************************************)
(* Theorems about SemanticSearch for every number of tasks and every set   *)
(* of scopes, token lifetime and pool.                                     *)
(***************************************************************************)
EXTENDS SemanticSearch, TLAPS

USE KeyAssumption, TimeAssumption, TasksAssumption

Stages == {"out", "wait", "load", "encode", "embedded", "failed"}

-----------------------------------------------------------------------------
(* The model of the process.                                               *)

\* Who holds the lock found no model under it.
LoadsOnce == lock # NoModel => model = NoModel

LoaderInv ==
  /\ queue \in Seq(Tasks) /\ lock \in Tasks \cup {NoModel}
  /\ stage \in [Tasks -> Stages]
  /\ OneLoader
  /\ LoadsOnce

\* A sequence with one place taken out.
LEMMA RemovedAt ==
  ASSUME NEW S, NEW q \in Seq(S), NEW p \in DOMAIN q
  PROVE  /\ RemoveAt(q, p) \in Seq(S)
         /\ Len(RemoveAt(q, p)) = Len(q) - 1
         /\ \A i \in 1..(Len(q) - 1) :
              RemoveAt(q, p)[i] = IF i < p THEN q[i] ELSE q[i + 1]
PROOF
<1> DEFINE a == SubSeq(q, 1, p - 1)
           b == SubSeq(q, p + 1, Len(q))
<1>1. p \in 1..Len(q) /\ Len(q) \in Nat
  OBVIOUS
<1>2. a \in Seq(S) /\ Len(a) = p - 1 /\ \A i \in 1..(p - 1) : a[i] = q[i]
  BY <1>1
<1>3. b \in Seq(S) /\ Len(b) = Len(q) - p /\ \A i \in 1..(Len(q) - p) : b[i] = q[p + i]
  BY <1>1
<1> HIDE DEF a, b
<1>4. a \o b \in Seq(S) /\ Len(a \o b) = Len(q) - 1
  BY <1>1, <1>2, <1>3
<1>5. ASSUME NEW i \in 1..(Len(q) - 1)
      PROVE  (a \o b)[i] = IF i < p THEN q[i] ELSE q[i + 1]
  BY <1>1, <1>2, <1>3, <1>5
<1> QED BY <1>4, <1>5 DEF RemoveAt, a, b

LEMMA LoaderStart == LoaderInit => LoaderInv
PROOF
<1> SUFFICES ASSUME LoaderInit
             PROVE  LoaderInv
  OBVIOUS
<1>1. 0 \notin Tasks
  BY DEF Tasks
<1> QED BY <1>1 DEF LoaderInit, LoaderInv, OneLoader, LoadsOnce, Stages, NoModel

LEMMA LoaderStep ==
  ASSUME LoaderInv, NEW t \in Tasks, EmbedStep(t) \/ Returns(t) \/ CancelEmbed(t)
  PROVE  LoaderInv'
PROOF
<1>1. NoModel \notin Tasks
  BY DEF Tasks, NoModel
<1>2. /\ queue \in Seq(Tasks) /\ lock \in Tasks \cup {NoModel}
      /\ stage \in [Tasks -> Stages]
      /\ \A u \in Tasks : stage[u] = "load" <=> lock = u
      /\ \A u \in Tasks : stage[u] = "wait" <=> \E i \in DOMAIN queue : queue[i] = u
      /\ \A i, j \in DOMAIN queue : queue[i] = queue[j] => i = j
      /\ LoadsOnce
  BY DEF LoaderInv, OneLoader
<1>3. CASE UseCached(t)
  BY <1>1, <1>2, <1>3 DEF UseCached, Moves, LoaderInv, OneLoader, LoadsOnce, Stages
<1>4. CASE Enter(t)
  <2>1. CASE lock = NoModel /\ queue = <<>>
    BY <1>1, <1>2, <1>4, <2>1 DEF Enter, Moves, LoaderInv, OneLoader, LoadsOnce, Stages
  <2>2. CASE ~(lock = NoModel /\ queue = <<>>)
    <3>1. /\ queue' = Append(queue, t) /\ stage' = [stage EXCEPT ![t] = "wait"]
          /\ lock' = lock /\ model' = model /\ stage[t] = "out"
      BY <1>4, <2>2 DEF Enter, Moves
    <3>2. /\ queue' \in Seq(Tasks) /\ Len(queue') = Len(queue) + 1
          /\ \A i \in 1..Len(queue) : queue'[i] = queue[i]
          /\ queue'[Len(queue) + 1] = t
      BY <1>2, <3>1
    <3>3. \A i \in DOMAIN queue : queue[i] # t
      BY <1>2, <3>1
    <3>4. DOMAIN queue = 1..Len(queue) /\ DOMAIN queue' = 1..(Len(queue) + 1) /\ Len(queue) \in Nat
      BY <1>2, <3>2
    <3>5. \A u \in Tasks : stage'[u] = "wait" <=> \E i \in DOMAIN queue' : queue'[i] = u
      BY <1>2, <3>1, <3>2, <3>4
    <3>6. \A i, j \in DOMAIN queue' : queue'[i] = queue'[j] => i = j
      BY <1>2, <3>2, <3>3, <3>4
    <3>7. \A u \in Tasks : stage'[u] = "load" <=> lock' = u
      BY <1>2, <3>1
    <3>8. stage' \in [Tasks -> Stages] /\ LoadsOnce' /\ lock' \in Tasks \cup {NoModel}
      BY <1>2, <3>1 DEF Stages, LoadsOnce
    <3> QED BY <3>2, <3>5, <3>6, <3>7, <3>8 DEF LoaderInv, OneLoader
  <2> QED BY <2>1, <2>2
<1>5. CASE Wake(t)
  <2>1. queue # <<>> /\ queue[1] = t
    BY <1>2, <1>5 DEF Wake
  <2>2. /\ queue' \in Seq(Tasks) /\ Len(queue) \in Nat \ {0} /\ Len(queue') = Len(queue) - 1
        /\ \A i \in 1..(Len(queue) - 1) : queue'[i] = queue[i + 1]
        /\ DOMAIN queue' = 1..(Len(queue) - 1) /\ DOMAIN queue = 1..Len(queue)
    BY <1>2, <1>5, <2>1 DEF Wake
  <2>3. \A u \in Tasks \ {t} : (\E i \in DOMAIN queue : queue[i] = u)
                               <=> \E i \in DOMAIN queue' : queue'[i] = u
    <3> SUFFICES ASSUME NEW u \in Tasks \ {t}
                 PROVE  (\E i \in DOMAIN queue : queue[i] = u)
                        <=> \E i \in DOMAIN queue' : queue'[i] = u
      OBVIOUS
    <3>1. ASSUME NEW i \in DOMAIN queue, queue[i] = u
          PROVE  \E j \in DOMAIN queue' : queue'[j] = u
      <4>1. i # 1
        BY <2>1, <3>1
      <4>2. i - 1 \in DOMAIN queue' /\ queue'[i - 1] = queue[i]
        BY <2>2, <4>1
      <4> QED BY <3>1, <4>2
    <3>2. ASSUME NEW i \in DOMAIN queue', queue'[i] = u
          PROVE  \E j \in DOMAIN queue : queue[j] = u
      <4>1. i + 1 \in DOMAIN queue /\ queue[i + 1] = u
        BY <2>2, <3>2
      <4> QED BY <4>1
    <3> QED BY <3>1, <3>2
  <2>4. \A i \in DOMAIN queue' : queue'[i] # t
    BY <1>2, <2>1, <2>2
  <2>5. ASSUME NEW i \in DOMAIN queue', NEW j \in DOMAIN queue', queue'[i] = queue'[j]
        PROVE  i = j
    <3>1. /\ i + 1 \in DOMAIN queue /\ j + 1 \in DOMAIN queue /\ i \in Nat /\ j \in Nat
          /\ queue[i + 1] = queue[j + 1]
      BY <2>2, <2>5
    <3>2. i + 1 = j + 1
      BY <1>2, <3>1
    <3> QED BY <3>1, <3>2
  <2>6. CASE model = NoModel
    <3>1. /\ stage' = [stage EXCEPT ![t] = "load"] /\ lock' = t /\ lock = NoModel
          /\ model' = model
      BY <1>5, <2>6 DEF Wake, Moves
    <3>2. \A u \in Tasks : stage'[u] = "load" <=> lock' = u
      BY <1>1, <1>2, <3>1
    <3>3. \A u \in Tasks : stage'[u] = "wait" <=> \E i \in DOMAIN queue' : queue'[i] = u
      BY <1>2, <2>3, <2>4, <3>1
    <3>4. stage' \in [Tasks -> Stages] /\ LoadsOnce'
      BY <1>2, <2>6, <3>1 DEF Stages, LoadsOnce
    <3> QED BY <2>2, <2>5, <3>1, <3>2, <3>3, <3>4 DEF LoaderInv, OneLoader
  <2>7. CASE model # NoModel
    <3>1. /\ stage' = [stage EXCEPT ![t] = "encode"] /\ lock' = lock /\ lock = NoModel
      BY <1>5, <2>7 DEF Wake, Moves
    <3>2. \A u \in Tasks : stage'[u] = "load" <=> lock' = u
      BY <1>1, <1>2, <3>1
    <3>3. \A u \in Tasks : stage'[u] = "wait" <=> \E i \in DOMAIN queue' : queue'[i] = u
      BY <1>2, <2>3, <2>4, <3>1
    <3>4. stage' \in [Tasks -> Stages] /\ LoadsOnce'
      BY <1>2, <3>1 DEF Stages, LoadsOnce
    <3> QED BY <1>2, <2>2, <2>5, <3>1, <3>2, <3>3, <3>4 DEF LoaderInv, OneLoader
  <2> QED BY <2>6, <2>7
<1>6. CASE Loaded(t) \/ LoadFails(t) \/ Encoded(t) \/ Returns(t)
  BY <1>1, <1>2, <1>6 DEF Loaded, LoadFails, Encoded, Returns, Moves, LoaderInv, OneLoader, LoadsOnce, Stages
<1>7. CASE CancelEmbed(t)
  <2>1. /\ stage' = [stage EXCEPT ![t] = "out"] /\ model' = model
        /\ lock' = IF lock = t THEN NoModel ELSE lock
        /\ stage[t] \in {"wait", "load", "encode"}
    BY <1>7 DEF CancelEmbed, Moves
  <2>2. \A u \in Tasks : stage'[u] = "load" <=> lock' = u
    BY <1>1, <1>2, <2>1
  <2>3. stage' \in [Tasks -> Stages] /\ LoadsOnce' /\ lock' \in Tasks \cup {NoModel}
    BY <1>2, <2>1 DEF Stages, LoadsOnce
  <2>4. CASE stage[t] # "wait"
    <3>1. queue' = queue
      BY <1>7, <2>4 DEF CancelEmbed
    <3> QED BY <1>2, <2>1, <2>2, <2>3, <2>4, <3>1 DEF LoaderInv, OneLoader
  <2>5. CASE stage[t] = "wait"
    <3> DEFINE p == Place(t)
    <3>1. p \in DOMAIN queue /\ queue[p] = t
      BY <1>2, <2>5 DEF Place
    <3>2. queue' = RemoveAt(queue, p)
      BY <1>7, <2>5 DEF CancelEmbed
    <3> HIDE DEF p
    <3>3. /\ queue' \in Seq(Tasks) /\ Len(queue') = Len(queue) - 1
          /\ \A i \in 1..(Len(queue) - 1) : queue'[i] = IF i < p THEN queue[i] ELSE queue[i + 1]
      BY <1>2, <3>1, <3>2, RemovedAt
    <3>4. /\ DOMAIN queue' = 1..(Len(queue) - 1) /\ DOMAIN queue = 1..Len(queue)
          /\ Len(queue) \in Nat /\ p \in 1..Len(queue)
      BY <1>2, <3>1, <3>3
    <3>5. ASSUME NEW u \in Tasks \ {t}
          PROVE  (\E i \in DOMAIN queue : queue[i] = u)
                 <=> \E i \in DOMAIN queue' : queue'[i] = u
      <4>1. ASSUME NEW i \in DOMAIN queue, queue[i] = u
            PROVE  \E j \in DOMAIN queue' : queue'[j] = u
        <5>1. i # p
          BY <3>1, <4>1
        <5>2. CASE i < p
          <6>1. i \in 1..(Len(queue) - 1) /\ queue'[i] = u
            BY <3>3, <3>4, <4>1, <5>2
          <6> QED BY <3>4, <6>1
        <5>3. CASE i > p
          <6>1. i - 1 \in 1..(Len(queue) - 1) /\ queue'[i - 1] = u
            BY <3>3, <3>4, <4>1, <5>3
          <6> QED BY <3>4, <6>1
        <5> QED BY <3>4, <5>1, <5>2, <5>3
      <4>2. ASSUME NEW i \in DOMAIN queue', queue'[i] = u
            PROVE  \E j \in DOMAIN queue : queue[j] = u
        <5>1. i \in 1..Len(queue) /\ i + 1 \in 1..Len(queue)
          BY <3>4
        <5> QED BY <3>3, <3>4, <4>2, <5>1
      <4> QED BY <4>1, <4>2
    <3> DEFINE at(i) == IF i < p THEN i ELSE i + 1
    <3>moved. ASSUME NEW i \in DOMAIN queue'
          PROVE  at(i) \in DOMAIN queue /\ at(i) # p /\ queue'[i] = queue[at(i)] /\ i \in Int
      BY <3>3, <3>4
    <3>6. ASSUME NEW i \in DOMAIN queue'
          PROVE  queue'[i] # t
      <4>1. at(i) \in DOMAIN queue /\ at(i) # p /\ queue'[i] = queue[at(i)]
        BY <3>moved
      <4> QED BY <1>2, <3>1, <4>1
    <3>7. ASSUME NEW i \in DOMAIN queue', NEW j \in DOMAIN queue', queue'[i] = queue'[j]
          PROVE  i = j
      <4>1. at(i) \in DOMAIN queue /\ at(j) \in DOMAIN queue /\ queue[at(i)] = queue[at(j)]
        BY <3>7, <3>moved
      <4>2. at(i) = at(j)
        <5> HIDE DEF at
        <5> QED BY <1>2, <4>1
      <4>3. i \in Int /\ j \in Int /\ p \in Int
        BY <3>4, <3>moved
      <4> QED BY <4>2, <4>3
    <3>8. \A u \in Tasks : stage'[u] = "wait" <=> \E i \in DOMAIN queue' : queue'[i] = u
      BY <1>2, <2>1, <3>5, <3>6
    <3> QED BY <2>2, <2>3, <3>3, <3>7, <3>8 DEF LoaderInv, OneLoader
  <2> QED BY <2>4, <2>5
<1> QED BY <1>3, <1>4, <1>5, <1>6, <1>7 DEF EmbedStep

LEMMA LoaderNext == LoaderInv /\ [Next]_vars => LoaderInv'
PROOF
<1> SUFFICES ASSUME LoaderInv, [Next]_vars
             PROVE  LoaderInv'
  OBVIOUS
<1>1. ASSUME UNCHANGED <<model, lock, queue, stage>>
      PROVE  LoaderInv'
  BY <1>1 DEF LoaderInv, OneLoader, LoadsOnce
<1>2. CASE UNCHANGED loaderVars \/ OrphanEnds
  BY <1>1, <1>2 DEF loaderVars, OrphanEnds
<1>3. ASSUME NEW t \in Tasks, Embed(t) \/ Embedded(t) \/ Cancel(t)
      PROVE  LoaderInv'
  BY <1>3, LoaderStep DEF Embed, Embedded, Cancel
<1> QED BY <1>2, <1>3
        DEF Next, vars, Handle, Send, Decode, Authorise, PoolTimeout, Query, Environment

\* The lock lets one load run at a time and the queue holds every waiter once,
\* whoever fails or is cancelled (local.py _get_model).
THEOREM LoadsAreSerial == Spec => []OneLoader
PROOF
<1>1. Init => LoaderInv
  BY LoaderStart DEF Init
<1>2. LoaderInv => OneLoader
  BY DEF LoaderInv
<1> QED BY <1>1, <1>2, LoaderNext, PTL DEF Spec

\* The model that was loaded first is the model of the process: the second
\* look, under the lock, keeps later loads out (local.py _get_model).
THEOREM FirstModelStays == Spec => ModelKept
PROOF
<1>1. Init => LoaderInv
  BY LoaderStart DEF Init
<1>2. LoaderInv /\ [Next]_vars => [model # NoModel => model' = model]_vars
  <2> SUFFICES ASSUME LoaderInv, Next, model # NoModel
               PROVE  model' = model
    OBVIOUS
  <2>1. ASSUME NEW t \in Tasks, Loaded(t)
        PROVE  FALSE
    <3>1. lock = t /\ t # NoModel
      BY <2>1 DEF Loaded, LoaderInv, OneLoader, Tasks, NoModel
    <3> QED BY <3>1 DEF LoaderInv, LoadsOnce
  <2>2. ASSUME NEW t \in Tasks, Embed(t) \/ Embedded(t) \/ Cancel(t)
        PROVE  model' = model
    BY <2>1, <2>2 DEF Embed, Embedded, Cancel, EmbedStep, CancelEmbed, UseCached, Enter, Wake,
                      LoadFails, Encoded, Returns
  <2> QED BY <2>2
          DEF Next, OrphanEnds, loaderVars, Handle, Send, Decode, Authorise, PoolTimeout, Query,
              Environment
<1> QED BY <1>1, <1>2, LoaderNext, PTL DEF Spec, ModelKept

-----------------------------------------------------------------------------
(* Who a request is.                                                       *)

\* What was read of the roles at some time holds Needed only if the user has it
\* still or has lost it since.
ReadThen(scopes, read) ==
  read \in Nat /\ read <= now /\ (Needed \in scopes => Needed \in roles \/ held >= read)

Signed(cred) ==
  cred.kind = "user" => cred.exp \in Nat /\ ReadThen(cred.scopes, cred.read)

\* A token was good when its request went to wait for the database.
InTime(r) ==
  r.pc = "auth" /\ r.cred.kind = "user" => r.decoded \in Nat /\ r.decoded < r.cred.exp

CredInv ==
  /\ now \in Nat /\ held \in Nat /\ held <= now
  /\ req = [t \in Tasks |-> req[t]]
  /\ \A l \in logins : ReadThen(l.scopes, l.read)
  /\ Signed(token)
  /\ \A t \in Tasks : Signed(req[t].cred) /\ InTime(req[t])

\* The clock, the roles and their last loss.
RolesStep == /\ UNCHANGED now \/ now' = now + 1
             /\ UNCHANGED <<roles, held>> \/ Grant \/ Withdraw

LEMMA RolesMove ==
  ASSUME [Next]_vars
  PROVE  RolesStep
PROOF
<1>1. CASE UNCHANGED principalVars
  BY <1>1 DEF RolesStep, principalVars
<1>2. CASE Tick \/ ReadScopes \/ Mint \/ Administer
  BY <1>2 DEF RolesStep, Tick, ReadScopes, Mint, Administer, Grant, Withdraw
<1>3. UNCHANGED principalVars \/ Environment
  BY DEF Next, vars, Send, Handle, Decode, Authorise, PoolTimeout, Embed, Embedded, Query, Cancel
<1> QED BY <1>1, <1>2, <1>3 DEF Environment

LEMMA ReadLasts ==
  ASSUME now \in Nat, held \in Nat, held <= now, RolesStep, NEW scopes, NEW read,
         ReadThen(scopes, read)
  PROVE  ReadThen(scopes, read)'
BY DEF RolesStep, Grant, Withdraw, ReadThen

LEMMA SignedLasts ==
  ASSUME now \in Nat, held \in Nat, held <= now, RolesStep, NEW cred, Signed(cred)
  PROVE  Signed(cred)'
BY ReadLasts DEF Signed

LEMMA CredStart == Init => CredInv
PROOF
<1> SUFFICES ASSUME Init
             PROVE  CredInv
  OBVIOUS
<1>1. Signed(token)
  BY DEF Init, PrincipalInit, Token, Never, Signed, ReadThen
<1>2. /\ \A t \in Tasks : req[t] = Request("unsent", NoCred, Never)
      /\ req = [t \in Tasks |-> req[t]]
  BY DEF Init
<1>3. \A t \in Tasks : Signed(req[t].cred) /\ InTime(req[t])
  BY <1>2 DEF Request, NoCred, Signed, InTime
<1>4. now \in Nat /\ held \in Nat /\ held <= now /\ logins = {}
  BY DEF Init, PrincipalInit, Never
<1> QED BY <1>1, <1>2, <1>3, <1>4 DEF CredInv

\* What a step makes of a request: nothing, one that waits for a connection with
\* a token that was just found good, or one that does not wait for one.
StaysOrWaits(t) ==
  \/ req'[t] = req[t]
  \/ req'[t] = Request("auth", req[t].cred, now) /\ Unexpired(req[t].cred)
  \/ req'[t].pc # "auth" /\ req'[t].cred \in {token, ApiKey, NoCred}

LEMMA RequestCases ==
  ASSUME CredInv, [Next]_vars, NEW t \in Tasks
  PROVE  req' = [u \in Tasks |-> req'[u]] /\ StaysOrWaits(t)
PROOF
<1>1. req = [u \in Tasks |-> req[u]]
  BY DEF CredInv
<1>2. CASE req' = req
  BY <1>1, <1>2 DEF StaysOrWaits
<1>3. ASSUME NEW u \in Tasks, NEW pc, NEW cred, NEW time,
             req' = [req EXCEPT ![u] = Request(pc, cred, time)],
             pc # "auth" /\ cred \in {token, ApiKey, NoCred}
      PROVE  req' = [r \in Tasks |-> req'[r]] /\ StaysOrWaits(t)
  BY <1>1, <1>3 DEF Request, StaysOrWaits
<1>4. ASSUME NEW u \in Tasks, NEW pc, Goes(u, pc), pc # "auth"
      PROVE  req' = [r \in Tasks |-> req'[r]] /\ StaysOrWaits(t)
  BY <1>3, <1>4 DEF Goes
<1>5. ASSUME NEW u \in Tasks, Send(u)
      PROVE  req' = [r \in Tasks |-> req'[r]] /\ StaysOrWaits(t)
  BY <1>3, <1>5 DEF Send
<1>6. ASSUME NEW u \in Tasks, Decode(u)
      PROVE  req' = [r \in Tasks |-> req'[r]] /\ StaysOrWaits(t)
  <2>1. CASE Ends(u)
    BY <1>4, <2>1 DEF Ends
  <2>2. CASE ~Ends(u)
    <3>1. Unexpired(req[u].cred) /\ req' = [req EXCEPT ![u] = Request("auth", req[u].cred, now)]
      BY <1>6, <2>2 DEF Decode
    <3> QED BY <1>1, <3>1 DEF StaysOrWaits
  <2> QED BY <2>1, <2>2
<1>7. ASSUME NEW u \in Tasks, Handle(u) \/ Cancel(u), ~Decode(u)
      PROVE  req' = [r \in Tasks |-> req'[r]] /\ StaysOrWaits(t)
  BY <1>2, <1>4, <1>7 DEF Handle, Cancel, Authorise, PoolTimeout, Embed, Embedded, Query, Ends
<1> QED BY <1>2, <1>5, <1>6, <1>7 DEF Next, Environment, vars

LEMMA CredNext == CredInv /\ [Next]_vars => CredInv'
PROOF
<1> SUFFICES ASSUME CredInv, [Next]_vars
             PROVE  CredInv'
  OBVIOUS
<1>1. RolesStep
  BY RolesMove
<1>2. now \in Nat /\ held \in Nat /\ held <= now
  BY DEF CredInv
<1>3. now' \in Nat /\ held' \in Nat /\ held' <= now'
  <2>1. (UNCHANGED held \/ held' = now) /\ (UNCHANGED now \/ now' = now + 1)
    BY <1>1 DEF RolesStep, Grant, Withdraw
  <2> QED BY <1>2, <2>1
<1>4. /\ \A l \in logins' : l \in logins \/ (l = [scopes |-> roles, read |-> now] /\ ReadScopes)
      /\ \/ token' = token
         \/ \E l \in logins : token' = Token(l.scopes, now + TTL, l.read)
  BY DEF Next, vars, Send, Handle, Decode, Authorise, PoolTimeout, Embed, Embedded, Query,
         Cancel, Environment, principalVars, Tick, ReadScopes, Mint, Administer, Grant,
         Withdraw, OrphanEnds
<1>5. \A l \in logins' : ReadThen(l.scopes, l.read)'
  <2> SUFFICES ASSUME NEW l \in logins'
               PROVE  ReadThen(l.scopes, l.read)'
    OBVIOUS
  <2> DEFINE scopes == l.scopes
             read   == l.read
  <2>1. ReadThen(scopes, read)
    BY <1>2, <1>4 DEF CredInv, ReadThen
  <2> HIDE DEF scopes, read
  <2>2. ReadThen(scopes, read)'
    BY <1>1, <1>2, <2>1, ReadLasts
  <2> QED BY <2>2 DEF ReadThen, scopes, read
<1>6. Signed(token)'
  <2>1. PICK cred : cred = token' /\ Signed(cred)
    BY <1>2, <1>4 DEF CredInv, Token, Signed
  <2>2. Signed(cred)'
    BY <1>1, <1>2, <2>1, SignedLasts
  <2> QED BY <2>1, <2>2 DEF Signed, ReadThen
<1>7. ASSUME NEW t \in Tasks
      PROVE  Signed(req[t].cred)' /\ InTime(req[t])'
  <2>1. StaysOrWaits(t)
    BY RequestCases
  <2>2. PICK cred : cred = req'[t].cred /\ Signed(cred)
    BY <2>1 DEF StaysOrWaits, CredInv, Request, ApiKey, NoCred, Signed
  <2>3. Signed(cred)'
    BY <1>1, <1>2, <2>2, SignedLasts
  <2>4. InTime(req'[t])
    BY <1>2, <2>1 DEF StaysOrWaits, CredInv, Request, InTime, Unexpired
  <2> QED BY <2>2, <2>3, <2>4 DEF Signed, ReadThen, InTime
<1>8. (req = [t \in Tasks |-> req[t]])'
  <2>1. CASE Tasks = {}
    BY <2>1 DEF Next, vars, CredInv, OrphanEnds, Environment
  <2>2. CASE Tasks # {}
    BY <2>2, RequestCases
  <2> QED BY <2>1, <2>2
<1> QED BY <1>3, <1>5, <1>6, <1>7, <1>8 DEF CredInv

\* A withdrawn scope is good for one token lifetime more, and for the time the
\* login and the request themselves have waited for the database, and no longer
\* (deps.py _principal_from_jwt, require_scope, auth.py login).
THEOREM ScopesExpire == Spec => StaleForTTL
PROOF
<1>1. CredInv /\ [Next]_vars =>
        [\A t \in Tasks :
           req[t].pc = "auth" /\ req'[t].pc = "embed" /\ req[t].cred.kind = "user" =>
             \/ Needed \in roles
             \/ now - held < TTL + LoginTook(req[t].cred) + Waited(t)]_vars
  <2> SUFFICES ASSUME CredInv, Next, NEW t \in Tasks, req[t].pc = "auth",
                      req'[t].pc = "embed", req[t].cred.kind = "user",
                      Needed \notin roles
               PROVE  now - held < TTL + LoginTook(req[t].cred) + Waited(t)
    OBVIOUS
  <2>1. ASSUME NEW u \in Tasks, NEW pc, Goes(u, pc)
        PROVE  req'[t].pc \in {req[t].pc, pc} /\ (u # t => req'[t] = req[t])
    BY <2>1 DEF Goes, Request, CredInv
  <2>2. PICK u \in Tasks : \/ Authorise(u) \/ Embed(u) \/ Embedded(u) \/ Query(u)
                           \/ Decode(u) \/ PoolTimeout(u) \/ Cancel(u) \/ Send(u)
    BY DEF Next, Handle, Environment
  <2>3. Authorise(t) /\ ~Ends(t)
    <3>1. ~Ends(u)
      BY <2>1 DEF Ends
    <3>2. ~Send(u) /\ ~Decode(u)
      BY <3>1 DEF Send, Decode, Request, CredInv
    <3>3. ~Embed(u)
      BY DEF Embed
    <3>4. ~Embedded(u) /\ ~Query(u)
      BY <2>1, <3>1 DEF Embedded, Query
    <3>5. Authorise(u)
      BY <2>2, <3>1, <3>2, <3>3, <3>4 DEF PoolTimeout, Cancel
    <3>6. u = t
      BY <2>1, <3>1, <3>5 DEF Authorise
    <3> QED BY <3>1, <3>5, <3>6
  <2>4. Needed \in req[t].cred.scopes
    BY <2>3 DEF Authorise, Allowed, EffectiveScopes
  <2> DEFINE exp     == req[t].cred.exp
             read    == req[t].cred.read
             decoded == req[t].decoded
  <2>5. /\ exp \in Nat /\ read \in Nat /\ decoded \in Nat /\ now \in Nat /\ held \in Nat
        /\ held >= read /\ decoded < exp
    BY <2>4 DEF CredInv, Signed, ReadThen, InTime
  <2> HIDE DEF exp, read, decoded
  <2>6. now - held < TTL + ((exp - TTL) - read) + (now - decoded)
    BY <2>5
  <2> QED BY <2>6 DEF LoginTook, Waited, exp, read, decoded
<1> QED BY <1>1, CredStart, CredNext, PTL DEF Spec, StaleForTTL
=============================================================================
