--------------------------- MODULE ServiceProofs ---------------------------
(***************************************************************************)
(* No server verifies a request twice: only the clock matters for that,    *)
(* and the cache forgets a nonce no earlier than the end of the            *)
(* widest window in which a request signed once can be fresh.  And the     *)
(* replies are true to their claims, though other processes run between    *)
(* the transactions a reply is put together from.  In turn the queue keeps *)
(* its promises to these processes.                                        *)
(***************************************************************************)
EXTENDS ServiceProperties, RowProofs, SequenceTheorems

\* Every run of a request fell in its window, and the request is remembered
\* for the ttl that began then.
Fresh(r, x) == r.iat - Skew <= x /\ x <= r.iat + Skew

Kept(r, x) == x + Ttl <= now \/ (r \in DOMAIN seen /\ x + Ttl <= seen[r])

StaysKept(r, x) == x + Ttl <= now' \/ (r \in DOMAIN seen' /\ x + Ttl <= seen'[r])

RanInv ==
    /\ now \in Nat
    /\ \A r \in DOMAIN seen : seen[r] \in Nat
    /\ ran \in [Requests -> Seq(Nat)]
    /\ \A r \in Requests : \A n \in DOMAIN ran[r] :
        ran[r][n] <= now /\ Fresh(r, ran[r][n]) /\ Kept(r, ran[r][n])
    /\ RunsOnce

LEMMA TtlType == Ttl \in Nat /\ 2 * Skew <= Ttl /\ Skew \in Nat
  BY ServiceAssumption DEF Ttl

LEMMA ClockRuns ==
    ASSUME Next, now \in Nat
    PROVE  now' \in {now, now + 1}
  <1>1. CASE WorkerStep \/ OperatorStep
    <2>1. WorkerStep => now' = now
      <3>1. ASSUME NEW d, NEW i, NEW k, NEW u, NEW r, NEW g, FencedWrite(d, i, k, u, r, g)
            PROVE  now' = now
        BY <3>1 DEF FencedWrite, Commit
      <3>2. ASSUME NEW lane, NEW policy, NEW duration,
                   Take(lane, policy, duration) \/ TakeNothing(lane, policy)
            PROVE  now' = now
        BY <3>2, Zenon DEF Take, TakeNothing, Commit
      <3>3. ASSUME NEW i, NEW k, NEW s, SetStatusFenced(i, k, s)
            PROVE  now' = now
        BY <3>1, <3>3 DEF SetStatusFenced
      <3>4. ASSUME NEW i, NEW k, NEW not_before, NEW deps, DeferFenced(i, k, not_before, deps)
            PROVE  now' = now
        BY <3>1, <3>4 DEF DeferFenced
      <3>5. ASSUME NEW i, NEW k, NEW duration,
                   TouchFenced(i, k, duration) \/ ParkFenced(i, k)
            PROVE  now' = now
        BY <3>1, <3>5 DEF TouchFenced, ParkFenced
      <3> QED BY <3>2, <3>3, <3>4, <3>5, Zenon DEF WorkerStep
    <2>2. OperatorStep => now' = now
      BY Zenon DEF OperatorStep, ParkForced, Reprioritize, Reap, Commit
    <2> QED BY <1>1, <2>1, <2>2
  <1>2. ASSUME NEW p \in Procs, CallStep(p)
        PROVE  now' = now
    BY <1>2, Zenon DEF CallStep, Check, Reclaim, Promote, SetStatusForced, DeferForced, Unpark,
                       TouchForced, Push, Abandon, ForcedWrite, Commit
  <1> QED BY <1>1, <1>2 DEF Next, Tick

\* A step that leaves the cache and the history alone only lets time pass.
LEMMA TimePasses ==
    ASSUME RanInv, now' \in {now, now + 1}, seen' = seen, ran' = ran
    PROVE  RanInv'
  <1>1. now' \in Nat /\ now <= now'
    BY DEF RanInv
  <1>2. ASSUME NEW r \in Requests, NEW n \in DOMAIN ran[r]
        PROVE  /\ ran[r][n] <= now'
               /\ ran[r][n] + Ttl <= now' \/ (r \in DOMAIN seen /\ ran[r][n] + Ttl <= seen[r])
    <2>1. ran[r][n] \in Nat /\ now \in Nat
      BY DEF RanInv
    <2> QED BY <1>1, <2>1, TtlType DEF RanInv, Kept
  <1> QED BY <1>1, <1>2 DEF RanInv, Kept, Fresh, RunsOnce

\* What the cache still remembers it keeps; a request let through is new to it
\* and so past the ttl of every earlier run.
LEMMA AuthenticateRan ==
    ASSUME RanInv, NEW r \in Requests, Authenticate(r), now' = now
    PROVE  RanInv'
  <1> USE TtlType
  <1>0. /\ now \in Nat /\ r.iat \in Nat
        /\ \A s \in DOMAIN seen : seen[s] \in Nat
        /\ ran \in [Requests -> Seq(Nat)]
        /\ \A s \in Requests : \A n \in DOMAIN ran[s] : ran[s][n] \in Nat
    <2>1. r.iat \in Nat
      BY ServiceAssumption DEF Request
    <2>2. ran \in [Requests -> Seq(Nat)]
      BY DEF RanInv
    <2>3. ASSUME NEW s \in Requests
          PROVE  \A n \in DOMAIN ran[s] : ran[s][n] \in Nat
      <3>1. ran[s] \in Seq(Nat)
        BY <2>2
      <3> QED BY <3>1
    <2> QED BY <2>1, <2>2, <2>3 DEF RanInv
  <1>1. CASE ~Valid(r)
    BY <1>1, TimePasses DEF Authenticate, Verified
  <1>2. CASE Valid(r)
    <2>1. /\ seen' = [s \in Remembered \cup {r} |->
                        IF s \in Remembered THEN seen[s] ELSE now + Ttl]
          /\ ran' = IF r \notin Remembered THEN [ran EXCEPT ![r] = Append(@, now)] ELSE ran
      BY <1>2 DEF Authenticate, Verified
    <2>2. \A s \in DOMAIN seen' : seen'[s] \in Nat
      BY <1>0, <2>1 DEF Remembered
    <2>3. ASSUME NEW s \in Requests, NEW n \in DOMAIN ran[s]
          PROVE  StaysKept(s, ran[s][n])
      <3>1. CASE ran[s][n] + Ttl <= now
        BY <3>1 DEF StaysKept
      <3>2. CASE s \in Remembered
        <4>1. s \in DOMAIN seen' /\ seen'[s] = seen[s]
          BY <2>1, <3>2
        <4> QED BY <1>0, <3>2, <4>1 DEF RanInv, Kept, StaysKept, Remembered
      <3>3. s \notin Remembered => ran[s][n] + Ttl <= now
        BY <1>0 DEF RanInv, Kept, Remembered
      <3> QED BY <3>1, <3>2, <3>3
    <2>4. CASE r \in Remembered
      <3>1. ran' = ran
        BY <2>1, <2>4
      <3> QED BY <2>2, <2>3, <3>1 DEF RanInv, Fresh, Kept, StaysKept, RunsOnce
    <2>5. CASE r \notin Remembered
      <3> DEFINE q == ran[r]
                 e == Append(q, now)
      <3>1. /\ q \in Seq(Nat) /\ e \in Seq(Nat)
            /\ DOMAIN q = 1..Len(q) /\ Len(q) \in Nat /\ DOMAIN e = 1..(Len(q) + 1)
            /\ e[Len(q) + 1] = now /\ \A n \in 1..Len(q) : e[n] = q[n]
        <4>1. q \in Seq(Nat)
          BY <1>0
        <4> HIDE DEF q
        <4> QED BY <1>0, <4>1
      <3>2. /\ ran' \in [Requests -> Seq(Nat)] /\ ran'[r] = e
            /\ \A s \in Requests \ {r} : ran'[s] = ran[s]
        BY <1>0, <2>1, <2>5, <3>1
      <3>3. \A n \in DOMAIN q : /\ q[n] \in Nat /\ q[n] <= now /\ q[n] + Ttl <= now
                                /\ Fresh(r, q[n])
        BY <1>0, <2>5 DEF RanInv, Kept, Remembered
      <3>4. Fresh(r, now) /\ now + Ttl \in Nat /\ r \in DOMAIN seen' /\ seen'[r] = now + Ttl
        BY <1>0, <1>2, <2>1, <2>5 DEF Valid, Fresh
      <3>5. \A n \in DOMAIN q : now - q[n] = 2 * Skew /\ Ttl = 2 * Skew
        <4>1. ASSUME NEW n \in DOMAIN q
              PROVE  now - q[n] = 2 * Skew /\ Ttl = 2 * Skew
          <5> DEFINE x == q[n]
          <5>1. /\ x \in Nat /\ x + Ttl <= now
                /\ r.iat - Skew <= x /\ now <= r.iat + Skew
            BY <3>3, <3>4, <4>1 DEF Fresh
          <5> HIDE DEF x
          <5>2. now - x = 2 * Skew /\ Ttl = 2 * Skew
            BY <1>0, <5>1
          <5> QED BY <5>2 DEF x
        <4> QED BY <4>1
      <3> HIDE DEF e, q
      <3>6. ASSUME NEW n \in DOMAIN e
            PROVE  /\ e[n] <= now /\ Fresh(r, e[n]) /\ StaysKept(r, e[n])
                   /\ \A m \in DOMAIN e : m < n => e[n] - e[m] = 2 * Skew /\ Ttl = 2 * Skew
        <4>1. CASE n = Len(q) + 1
          <5>1. \A m \in DOMAIN e : m < n => m \in DOMAIN q /\ e[m] = q[m]
            BY <3>1, <4>1
          <5> QED BY <1>0, <3>1, <3>4, <3>5, <4>1, <5>1 DEF StaysKept
        <4>2. CASE n \in DOMAIN q
          <5>1. /\ e[n] = q[n]
                /\ \A m \in DOMAIN e : m < n => m \in DOMAIN q /\ e[m] = q[m]
            BY <3>1, <4>2
          <5>2. \A m \in DOMAIN q : m < n => q[n] - q[m] = 2 * Skew /\ Ttl = 2 * Skew
            BY <4>2 DEF RanInv, RunsOnce, q
          <5>3. StaysKept(r, q[n])
            BY <2>3, <4>2 DEF q
          <5> QED BY <3>3, <4>2, <5>1, <5>2, <5>3
        <4> QED BY <3>1, <4>1, <4>2
      <3>7. ASSUME NEW s \in Requests
            PROVE  /\ \A n \in DOMAIN ran'[s] :
                        ran'[s][n] <= now /\ Fresh(s, ran'[s][n]) /\ StaysKept(s, ran'[s][n])
                   /\ \A m, n \in DOMAIN ran'[s] :
                        m < n => ran'[s][n] - ran'[s][m] = 2 * Skew /\ Ttl = 2 * Skew
        <4>1. CASE s = r
          BY <3>2, <3>6, <4>1
        <4>2. CASE s # r
          BY <2>3, <3>2, <4>2 DEF RanInv, RunsOnce
        <4> QED BY <4>1, <4>2
      <3> QED BY <1>0, <2>2, <3>2, <3>7 DEF RanInv, RunsOnce, Fresh, Kept, StaysKept
    <2> QED BY <2>4, <2>5
  <1> QED BY <1>1, <1>2

LEMMA ServiceNextRan ==
    ASSUME RanInv, [ServiceNext]_svars
    PROVE  RanInv'
  <1>0. now \in Nat
    BY DEF RanInv
  <1>1. CASE Next /\ UNCHANGED <<mode, seen, serve, ran>>
    BY <1>0, <1>1, ClockRuns, TimePasses
  <1>2. ASSUME NEW r \in Requests, Receive(r)
        PROVE  RanInv'
    BY <1>2, AuthenticateRan, TimePasses DEF Receive, vars
  <1>3. CASE ReapFirst \/ TakeOne \/ TouchOne \/ SweepExpired \/ SweepDeferred \/ Select \/ ShowRow
    <2>1. now' = now /\ seen' = seen /\ ran' = ran
      BY <1>3, Zenon DEF ReapFirst, TakeOne, TouchOne, SweepExpired, SweepDeferred, Select,
                         ShowRow, Stage, Reap, Take, TakeNothing, TouchFenced, FencedWrite,
                         Commit, vars
    <2> QED BY <2>1, TimePasses
  <1>4. CASE Restart
    <2>1. /\ now' = now /\ seen' = <<>> /\ ran' = [r \in Requests |-> <<>>]
      BY <1>4 DEF Restart, vars
    <2> QED BY <1>0, <2>1 DEF RanInv, RunsOnce
  <1>5. CASE UNCHANGED svars
    BY <1>5, TimePasses DEF svars, vars
  <1> QED BY <1>1, <1>2, <1>3, <1>4, <1>5 DEF ServiceNext

\* A server never verifies a request twice, and in mode enforce so never runs
\* it twice, however often it arrives and whatever the skew, the ttl and the
\* other processes; the exception is the instant at which the ttl and the window
\* end together.
THEOREM RequestsRunOnce == ServiceSpec => []RunsOnce
  <1>1. ServiceInit => RanInv
    BY DEF ServiceInit, Init, RanInv, RunsOnce
  <1>2. RanInv /\ [ServiceNext]_svars => RanInv'
    BY ServiceNextRan
  <1>3. RanInv => RunsOnce
    BY DEF RanInv
  <1> QED BY <1>1, <1>2, <1>3, PTL DEF ServiceSpec

-----------------------------------------------------------------------------
(***************************************************************************)
(* What the steps of the queue leave of a claim: an old token is on no row *)
(* it was not on, and makes no row taken.                                  *)
(***************************************************************************)
Ages ==
    /\ issued <= issued'
    /\ \A j \in Ids :
        LET k == directives'[j].token
        IN  k # Null /\ k <= issued =>
                /\ directives[j].token = k
                /\ directives'[j].status = "taken" => directives[j].status = "taken"

QueueInv == ClaimsInv /\ LeaseHonoured

LEMMA FallsAge ==
    ASSUME TableFalls(directives, directives'), issued <= issued'
    PROVE  Ages
  BY DEF Ages, TableFalls, Falls

LEMMA QueueAges ==
    ASSUME QueueInv, [Next]_vars
    PROVE  QueueInv' /\ Ages
  <1>0. TypeOK /\ issued \in Nat /\ issued <= issued'
    BY ReadingType, IssuedGrows DEF QueueInv, ClaimsInv
  <1>1. QueueInv'
    BY <1>0, ClaimsInductive, NextHonours DEF QueueInv
  <1>2. ASSUME NEW d, TableFalls(directives, d), GivesToken(d, directives')
        PROVE  Ages
    <2>1. PICK i \in Ids : /\ directives'[i].token = issued + 1
                           /\ \A j \in Ids \ {i} : directives'[j] = d[j]
      BY <1>2 DEF GivesToken
    <2>2. \A j \in Ids \ {i} : Falls(directives[j], directives'[j])
      BY <1>2, <2>1 DEF TableFalls
    <2>3. ~(directives'[i].token <= issued)
      BY <1>0, <2>1
    <2> QED BY <1>0, <2>2, <2>3 DEF Ages, Falls
  <1>3. CASE Tick \/ UNCHANGED vars
    BY <1>0, <1>1, <1>3, FallsNothing, FallsAge DEF Tick, vars
  <1>4. CASE WorkerStep
    BY <1>0, <1>1, <1>2, <1>4, FallsAge, WorkerStepFalls
  <1>5. CASE OperatorStep
    BY <1>0, <1>1, <1>5, FallsAge, OperatorStepFalls
  <1>6. ASSUME NEW p \in Procs, CallStep(p)
        PROVE  Ages
    BY <1>0, <1>6, FallsAge, CallStepFalls
  <1> QED BY <1>1, <1>3, <1>4, <1>5, <1>6, Zenon DEF Next

\* The sweeps of peek and show, outside of a call of core that is followed here.
LEMMA SweepAges ==
    ASSUME QueueInv, NEW t \in EarlyReading,
           \/ Commit(ReclaimExpired(directives, t))
           \/ Commit(ReclaimDeferred(directives, t)),
           UNCHANGED <<issued, call, granted>>
    PROVE  QueueInv' /\ Ages
  <1>0. TypeOK /\ t \in Nat /\ directives \in Table /\ issued \in Nat
    BY ReadingType DEF QueueInv, ClaimsInv
  <1>1. PICK d \in Table : Commit(d) /\ TableFalls(directives, d)
    BY <1>0, ReclaimExpiredType, ReclaimDeferredType, SweepsFall
  <1>2. TypeOK'
    BY <1>0, <1>1, CommitType DEF TypeOK
  <1>3. directives' = d
    BY <1>1 DEF Commit
  <1>4. TokensNameOneDirective'
    <2>1. OneEach(directives, issued)
      BY <1>0 DEF QueueInv, ClaimsInv, TokensNameOneDirective, OneEach, TypeOK, Directive
    <2>2. OneEach(directives', issued)
      BY <1>0, <1>1, <1>3, <2>1, TokensFall
    <2> QED BY <2>2 DEF TokensNameOneDirective, OneEach
  <1>5. PlainStatuses => \A i \in Ids : Columns(directives'[i])
    BY <1>1, <1>3 DEF QueueInv, ClaimsInv, TableFalls, Falls
  <1>6. LeaseHonoured'
    BY <1>0, SweepHonours DEF QueueInv
  <1>7. Ages
    BY <1>0, <1>1, <1>3, FallsAge
  <1> QED BY <1>2, <1>4, <1>5, <1>6, <1>7 DEF QueueInv, ClaimsInv

-----------------------------------------------------------------------------
(***************************************************************************)
(* What is known of the request in hand.                                   *)
(***************************************************************************)
\* Which calls of core are made for which request, and with what found so far.
Asks(s) ==
    /\ s.at \in {"reap", "take", "touch"} => s.request.op # "peek"
    /\ s.at = "read" => s.id # Null
    /\ s.id = Null => s.token = Null
    /\ s.at \in {"reap", "take", "touch", "select"} => s.id = Null

\* The claim it speaks of was handed out, and is on no other row.
Follows(s, d, n) ==
    /\ s.token <= n
    /\ s.at = "touch" => s.request.token <= n
    /\ s.token # Null => \A j \in Ids : d[j].token = s.token => j = s.id

\* What the reply says was read from a row under the claim, or the claim was
\* over when it was read and stays so.
Replies(s, d) ==
    PlainStatuses =>
        /\ s.mine => s.token # Null
        /\ s.at = "replied" /\ s.token # Null =>
            \/ s.mine /\ s.lease # Null
            \/ \A j \in Ids : ~(d[j].status = "taken" /\ d[j].token = s.token)

ServeInv ==
    /\ serve \in Serve
    /\ Asks(serve)
    /\ Follows(serve, directives, issued)
    /\ Replies(serve, directives)

LEMMA ServeFields ==
    ASSUME serve \in Serve
    PROVE  /\ serve.id \in Ids \cup {Null} /\ serve.token \in Tokens \cup {Null}
           /\ serve.token \in Nat /\ serve.request \in Requests
           /\ serve.request.op \in {"take", "peek", "touch"}
           /\ serve.request.lane \in Lanes /\ serve.request.policy \in Policies
           /\ serve.request.id \in Ids /\ serve.request.token \in Tokens
           /\ serve.request.op # "peek" => LeaseSeconds(serve.request.ms) \in Leases
  <1>1. /\ serve.id \in Ids \cup {Null} /\ serve.token \in Tokens \cup {Null}
        /\ serve.request \in Requests
    BY DEF Serve
  <1>2. /\ serve.request \in Request
        /\ serve.request.op # "peek" => LeaseSeconds(serve.request.ms) \in Leases
    BY <1>1, ServiceAssumption
  <1> QED BY <1>1, <1>2 DEF Request, Tokens, Null

\* A step of the queue, or of a sweep, leaves what is known of the request.
LEMMA ServeStays ==
    ASSUME QueueInv, QueueInv', ServeInv, Ages
    PROVE  Follows(serve, directives', issued') /\ Replies(serve, directives')
  <1>1. /\ issued \in Nat /\ issued' \in Nat /\ issued <= issued'
        /\ serve.token \in Nat /\ serve.request.token \in Nat
    <2>1. TypeOK /\ TypeOK' /\ issued <= issued'
      BY DEF QueueInv, ClaimsInv, Ages
    <2>2. issued \in Nat /\ issued' \in Nat
      BY <2>1, QueueAssumption DEF TypeOK
    <2>3. serve.token \in Nat /\ serve.request.token \in Nat
      BY ServeFields DEF ServeInv, Tokens
    <2> QED BY <2>1, <2>2, <2>3
  <1>2. serve.token <= issued /\ (serve.at = "touch" => serve.request.token <= issued)
    BY DEF ServeInv, Follows
  <1>3. serve.token <= issued' /\ (serve.at = "touch" => serve.request.token <= issued')
    BY <1>1, <1>2
  <1>4. \A j \in Ids : serve.token # Null /\ directives'[j].token = serve.token =>
            /\ directives[j].token = serve.token
            /\ directives'[j].status = "taken" => directives[j].status = "taken"
    BY <1>2 DEF Ages
  <1>5. Follows(serve, directives', issued')
    BY <1>3, <1>4 DEF ServeInv, Follows
  <1>6. Replies(serve, directives')
    BY <1>4 DEF ServeInv, Replies
  <1> QED BY <1>5, <1>6

\* A request let in, or none: nothing is known of a claim yet.
LEMMA BeginServes ==
    ASSUME TypeOK, NEW r \in Requests, NEW at \in {"idle", "reap", "take", "touch", "reclaim"},
           at \in {"reap", "take", "touch"} => r.op # "peek",
           at = "touch" => r.token <= issued
    PROVE  /\ Begin(at, r) \in Serve /\ Asks(Begin(at, r))
           /\ Follows(Begin(at, r), directives, issued) /\ Replies(Begin(at, r), directives)
  <1> DEFINE s == Begin(at, r)
  <1>1. /\ s \in Serve /\ s.at = at /\ s.request = r /\ s.id = Null /\ s.token = Null
        /\ s.mine = FALSE
    BY DEF Begin, Serve, Null
  <1>2. issued \in Nat /\ Null <= issued
    BY ReadingType DEF Null
  <1> HIDE DEF s
  <1>3. Asks(s) /\ Follows(s, directives, issued) /\ Replies(s, directives)
    BY <1>1, <1>2 DEF Asks, Follows, Replies
  <1> QED BY <1>1, <1>3 DEF s

LEMMA ReceiveServes ==
    ASSUME TypeOK, ServeInv, NEW r \in Requests, Receive(r)
    PROVE  ServeInv'
  <1>1. directives' = directives /\ issued' = issued
    BY DEF Receive, vars
  <1>2. /\ r.op \in {"take", "peek", "touch"}
        /\ r.op = "touch" => r.token <= issued
    BY ServiceAssumption DEF Request, Receive
  <1>3. \/ serve' = Begin("idle", CHOOSE s \in Requests : TRUE)
        \/ serve' = Begin(FirstStep(r), r)
    BY DEF Receive, Idles
  <1>4. (CHOOSE s \in Requests : TRUE) \in Requests
    BY ServiceAssumption
  <1>5. /\ FirstStep(r) \in {"reap", "take", "touch", "reclaim"}
        /\ FirstStep(r) \in {"reap", "take", "touch"} => r.op # "peek"
        /\ FirstStep(r) = "touch" => r.token <= issued
    BY <1>2 DEF FirstStep
  <1> QED BY <1>1, <1>3, <1>4, <1>5, BeginServes DEF ServeInv

\* The step of a request that has found nothing yet.
LEMMA NextStageServes ==
    ASSUME ServeInv, NEW at \in {"take", "promote", "select", "read", "replied"},
           serve' = [serve EXCEPT !.at = at],
           at = "take" => serve.at = "reap",
           at = "replied" => serve.at \in {"take", "select"},
           at = "select" => serve.id = Null,
           at = "read" => serve.id # Null,
           Follows(serve, directives', issued'), Replies(serve, directives')
    PROVE  ServeInv'
  <1>1. /\ serve' \in Serve /\ serve'.at = at /\ serve'.request = serve.request
        /\ serve'.id = serve.id /\ serve'.token = serve.token
        /\ serve'.lease = serve.lease /\ serve'.mine = serve.mine
    BY DEF ServeInv, Serve
  <1>2. at = "replied" => serve.token = Null
    BY DEF ServeInv, Asks
  <1>3. Asks(serve')
    BY <1>1 DEF ServeInv, Asks
  <1>4. Follows(serve', directives', issued')
    BY <1>1 DEF Follows
  <1>5. Replies(serve', directives')
    BY <1>1, <1>2 DEF Replies
  <1> QED BY <1>1, <1>3, <1>4, <1>5 DEF ServeInv

\* The claim of a Take or a Touch that went through is on the row it names.
LEMMA ClaimServes ==
    ASSUME QueueInv', ServeInv, NEW i \in Ids, NEW k \in Tokens,
           NEW at \in {"reclaim", "read"},
           directives'[i].token = k, k <= issued',
           serve' = [serve EXCEPT !.at = at, !.id = i, !.token = k]
    PROVE  ServeInv'
  <1>1. /\ serve' \in Serve /\ serve'.at = at
        /\ serve'.id = i /\ serve'.token = k
        /\ serve'.lease = serve.lease /\ serve'.mine = serve.mine
    BY DEF ServeInv, Serve
  <1>2. i # Null /\ k # Null
    BY DEF Ids, Tokens, Null
  <1>3. \A j \in Ids : directives'[j].token = k => j = i
    BY <1>2 DEF QueueInv, ClaimsInv, TokensNameOneDirective
  <1>4. Asks(serve')
    BY <1>1, <1>2 DEF Asks
  <1>5. Follows(serve', directives', issued')
    BY <1>1, <1>3 DEF Follows
  <1>6. Replies(serve', directives')
    BY <1>1, <1>2 DEF Replies
  <1> QED BY <1>1, <1>4, <1>5, <1>6 DEF ServeInv

LEMMA RefusedServes ==
    ASSUME TypeOK', serve' = Idles
    PROVE  ServeInv'
  <1>1. issued' \in Nat /\ Null <= issued'
    BY QueueAssumption DEF TypeOK, Null
  <1>2. /\ serve' \in Serve /\ serve'.at = "idle" /\ serve'.id = Null /\ serve'.token = Null
        /\ serve'.mine = FALSE
    <2>1. (CHOOSE r \in Requests : TRUE) \in Requests
      BY ServiceAssumption
    <2> QED BY <2>1 DEF Idles, Begin, Serve, Null
  <1> QED BY <1>1, <1>2 DEF ServeInv, Asks, Follows, Replies

\* ShowRow reads one row once: under the claim, or not any more.
LEMMA ShowServes ==
    ASSUME QueueInv, ServeInv, ShowRow
    PROVE  ServeInv'
  <1> DEFINE i == serve.id
             r == directives[i]
             m == (r.status = "taken" /\ r.token = serve.token)
  <1>1. /\ i \in Ids /\ serve.at = "read" /\ serve.token \in Nat
        /\ directives' = directives /\ issued' = issued
        /\ serve' = [serve EXCEPT !.at = "replied", !.lease = r.lease, !.mine = m]
    <2>1. serve.at = "read"
      BY DEF ShowRow, Stage
    <2>2. i \in Ids \cup {Null} /\ i # Null /\ serve.token \in Nat
      BY <2>1, ServeFields DEF ServeInv, Asks
    <2> QED BY <2>1, <2>2 DEF ShowRow, vars
  <1>2. /\ r.lease \in Nat /\ m \in BOOLEAN
        /\ PlainStatuses /\ m => serve.token # Null /\ r.lease # Null
    BY <1>1, ReadingType DEF QueueInv, ClaimsInv, Table, Directive, Columns
  <1>3. serve.token # Null /\ ~m =>
            \A j \in Ids : ~(directives[j].status = "taken" /\ directives[j].token = serve.token)
    BY <1>1 DEF ServeInv, Follows
  <1> HIDE DEF i, m
  <1>4. /\ serve' \in Serve /\ serve'.at = "replied" /\ serve'.request = serve.request
        /\ serve'.id = serve.id /\ serve'.token = serve.token
        /\ serve'.lease = r.lease /\ serve'.mine = m
    BY <1>1, <1>2 DEF ServeInv, Serve
  <1>5. Asks(serve')
    BY <1>4 DEF ServeInv, Asks
  <1>6. Follows(serve', directives', issued')
    BY <1>1, <1>4 DEF ServeInv, Follows
  <1>7. Replies(serve', directives')
    BY <1>1, <1>2, <1>3, <1>4 DEF Replies
  <1> QED BY <1>4, <1>5, <1>6, <1>7 DEF ServeInv

\* Each call of core a handler makes, and each sweep, is a step of the queue.
LEMMA HandlerServes ==
    ASSUME QueueInv, ServeInv,
           ReapFirst \/ TakeOne \/ TouchOne \/ SweepExpired \/ SweepDeferred
    PROVE  QueueInv' /\ ServeInv'
  <1>0. /\ TypeOK /\ issued \in Nat /\ serve.request \in Requests
        /\ serve.request.lane \in Lanes /\ serve.request.policy \in Policies
        /\ serve.request.id \in Ids /\ serve.request.token \in Tokens
        /\ serve.request.op # "peek" => LeaseSeconds(serve.request.ms) \in Leases
        /\ serve.at \in {"reap", "take", "touch"} => serve.request.op # "peek"
    BY ReadingType, ServeFields DEF QueueInv, ClaimsInv, ServeInv, Asks
  <1>1. CASE ReapFirst
    <2>1. Next /\ serve.at = "reap" /\ serve' = [serve EXCEPT !.at = "take"]
      BY <1>1 DEF ReapFirst, Stage, Next, OperatorStep
    <2>2. QueueInv' /\ Ages
      BY <2>1, QueueAges
    <2> QED BY <2>1, <2>2, ServeStays, NextStageServes
  <1>2. CASE TakeOne
    <2>0. serve.at = "take" /\ serve.request.op # "peek"
          /\ LeaseSeconds(serve.request.ms) \in Leases
      BY <1>0, <1>2 DEF TakeOne, Stage
    <2>1. CASE /\ Take(Asked.lane, Asked.policy, LeaseSeconds(Asked.ms))
               /\ \E i \in Ids :
                    /\ directives'[i].token = issued'
                    /\ serve' = [serve EXCEPT !.at = "reclaim", !.id = i, !.token = issued']
      <3>1. WorkerStep
        BY <1>0, <2>0, <2>1 DEF WorkerStep, Asked
      <3>2. QueueInv' /\ Ages
        BY <3>1, QueueAges DEF Next
      <3>3. issued' \in Tokens
        BY <2>1 DEF Take
      <3>4. issued' <= issued'
        BY <3>3 DEF Tokens
      <3>5. PICK i \in Ids :
              /\ directives'[i].token = issued'
              /\ serve' = [serve EXCEPT !.at = "reclaim", !.id = i, !.token = issued']
        BY <2>1
      <3> QED BY <3>2, <3>3, <3>4, <3>5, ClaimServes
    <2>2. CASE /\ TakeNothing(Asked.lane, Asked.policy)
               /\ serve' = [serve EXCEPT !.at = "replied"]
      <3>1. WorkerStep
        BY <1>0, <2>2 DEF WorkerStep, Asked
      <3>2. QueueInv' /\ Ages
        BY <3>1, QueueAges DEF Next
      <3> QED BY <2>0, <2>2, <3>2, ServeStays, NextStageServes
    <2> QED BY <1>2, <2>1, <2>2 DEF TakeOne
  <1>3. CASE TouchOne
    <2> DEFINE i == serve.request.id
               k == serve.request.token
    <2>1. /\ serve.at = "touch" /\ i \in Ids /\ k \in Tokens /\ k <= issued
          /\ LeaseSeconds(serve.request.ms) \in Leases
          /\ TouchFenced(i, k, LeaseSeconds(serve.request.ms))
          /\ \/ /\ directives'[i].token = k
                /\ serve' = [serve EXCEPT !.at = "read", !.id = i, !.token = k]
             \/ serve' = Idles
      BY <1>0, <1>3 DEF TouchOne, Stage, Asked, ServeInv, Follows
    <2> HIDE DEF i, k
    <2>2. k \in 1..issued
      BY <1>0, <2>1 DEF Tokens
    <2>3. WorkerStep
      BY <2>1, <2>2 DEF WorkerStep
    <2>4. QueueInv' /\ Ages
      BY <2>3, QueueAges DEF Next
    <2>5. k <= issued' /\ TypeOK'
      <3>1. TypeOK' /\ issued <= issued' /\ k \in Nat
        BY <2>1, <2>4 DEF Ages, QueueInv, ClaimsInv, Tokens
      <3>2. issued' \in Nat
        BY <3>1, QueueAssumption DEF TypeOK
      <3> QED BY <1>0, <2>1, <3>1, <3>2
    <2> QED BY <2>1, <2>4, <2>5, ClaimServes, RefusedServes
  <1>4. CASE SweepExpired
    <2>1. PICK t \in EarlyReading : Commit(ReclaimExpired(directives, t))
      BY <1>4 DEF SweepExpired
    <2>2. UNCHANGED <<issued, call, granted>> /\ serve' = [serve EXCEPT !.at = "promote"]
      BY <1>4 DEF SweepExpired
    <2>3. QueueInv' /\ Ages
      BY <2>1, <2>2, SweepAges
    <2> QED BY <2>2, <2>3, ServeStays, NextStageServes
  <1>5. CASE SweepDeferred
    <2>1. PICK t \in EarlyReading : Commit(ReclaimDeferred(directives, t))
      BY <1>5 DEF SweepDeferred
    <2>2. /\ UNCHANGED <<issued, call, granted>>
          /\ serve' = [serve EXCEPT !.at = IF serve.id = Null THEN "select" ELSE "read"]
      BY <1>5 DEF SweepDeferred
    <2>3. QueueInv' /\ Ages
      BY <2>1, <2>2, SweepAges
    <2>4. CASE serve.id = Null
      <3>1. serve' = [serve EXCEPT !.at = "select"]
        BY <2>2, <2>4
      <3> QED BY <2>3, <2>4, <3>1, ServeStays, NextStageServes
    <2>5. CASE serve.id # Null
      <3>1. serve' = [serve EXCEPT !.at = "read"]
        BY <2>2, <2>5
      <3> QED BY <2>3, <2>5, <3>1, ServeStays, NextStageServes
    <2> QED BY <2>4, <2>5
  <1> QED BY <1>1, <1>2, <1>3, <1>4, <1>5

LEMMA QueueInvStays ==
    ASSUME QueueInv, UNCHANGED vars
    PROVE  QueueInv' /\ Ages
  BY QueueAges

LEMMA SelectServes ==
    ASSUME QueueInv, ServeInv, Select
    PROVE  ServeInv'
  <1>1. /\ serve.at = "select" /\ directives' = directives /\ issued' = issued
        /\ \/ \E i \in Ids : serve' = [serve EXCEPT !.at = "reclaim", !.id = i]
           \/ serve' = [serve EXCEPT !.at = "replied"]
    BY DEF Select, Stage, vars
  <1>2. Follows(serve, directives', issued') /\ Replies(serve, directives')
    BY <1>1 DEF ServeInv
  <1>3. ASSUME NEW i \in Ids, serve' = [serve EXCEPT !.at = "reclaim", !.id = i]
        PROVE  ServeInv'
    <2>1. /\ serve' \in Serve /\ serve'.at = "reclaim" /\ serve'.request = serve.request
          /\ serve'.id = i /\ serve'.token = serve.token
          /\ serve'.lease = serve.lease /\ serve'.mine = serve.mine
      BY <1>3 DEF ServeInv, Serve
    <2>2. serve.token = Null /\ i # Null
      <3>1. serve.id = Null /\ (serve.id = Null => serve.token = Null)
        BY <1>1 DEF ServeInv, Asks
      <3>2. i # Null
        BY DEF Ids, Null
      <3> QED BY <3>1, <3>2
    <2>3. Asks(serve')
      BY <2>1, <2>2 DEF Asks
    <2>4. Follows(serve', directives', issued')
      BY <1>2, <2>1, <2>2 DEF Follows
    <2>5. Replies(serve', directives')
      BY <1>2, <2>1, <2>2 DEF Replies
    <2> QED BY <2>1, <2>3, <2>4, <2>5 DEF ServeInv
  <1> QED BY <1>1, <1>2, <1>3, NextStageServes

\* The cache and the mode of the server.
CacheInv == mode \in Modes /\ DOMAIN seen \subseteq Requests

ServiceInv == QueueInv /\ RanInv /\ CacheInv /\ ServeInv

LEMMA NextCaches ==
    ASSUME CacheInv, [ServiceNext]_svars
    PROVE  CacheInv'
  <1>1. ASSUME NEW r \in Requests, Receive(r)
        PROVE  CacheInv'
    <2>1. /\ mode' = mode
          /\ seen' = seen \/ DOMAIN seen' = Remembered \cup {r}
      BY <1>1 DEF Receive, Authenticate
    <2> QED BY <2>1 DEF CacheInv, Remembered
  <1>2. CASE UNCHANGED <<mode, seen>>
    BY <1>2 DEF CacheInv
  <1>3. CASE Restart
    BY <1>3 DEF Restart, CacheInv
  <1>4. ReapFirst \/ TakeOne \/ TouchOne \/ SweepExpired \/ SweepDeferred \/ Select \/ ShowRow
            => UNCHANGED <<mode, seen>>
    BY Zenon DEF ReapFirst, TakeOne, TouchOne, SweepExpired, SweepDeferred, Select, ShowRow, Stage
  <1> QED BY <1>1, <1>2, <1>3, <1>4 DEF ServiceNext, svars

LEMMA ServiceInductive == ServiceInv /\ [ServiceNext]_svars => ServiceInv'
  <1> SUFFICES ASSUME ServiceInv, [ServiceNext]_svars PROVE QueueInv' /\ ServeInv'
    BY ServiceNextRan, NextCaches DEF ServiceInv
  <1>0. QueueInv /\ ServeInv /\ TypeOK
    BY DEF ServiceInv, QueueInv, ClaimsInv
  <1>1. ASSUME [Next]_vars, serve' = serve
        PROVE  QueueInv' /\ ServeInv'
    <2>1. QueueInv' /\ Ages
      BY <1>0, <1>1, QueueAges
    <2>2. Follows(serve, directives', issued') /\ Replies(serve, directives')
      BY <1>0, <2>1, ServeStays
    <2> QED BY <1>0, <1>1, <2>1, <2>2 DEF ServeInv
  <1>2. CASE \E r \in Requests : Receive(r)
    <2>1. UNCHANGED vars
      BY <1>2 DEF Receive
    <2> QED BY <1>0, <1>2, <2>1, QueueInvStays, ReceiveServes
  <1>3. CASE ReapFirst \/ TakeOne \/ TouchOne \/ SweepExpired \/ SweepDeferred
    BY <1>0, <1>3, HandlerServes
  <1>4. CASE Select \/ ShowRow
    <2>1. UNCHANGED vars
      BY <1>4 DEF Select, ShowRow
    <2> QED BY <1>0, <1>4, <2>1, QueueInvStays, SelectServes, ShowServes
  <1>5. CASE Restart
    <2>1. UNCHANGED vars /\ serve' = Idles
      BY <1>5 DEF Restart
    <2>2. QueueInv' /\ TypeOK'
      BY <1>0, <2>1, QueueInvStays DEF QueueInv, ClaimsInv
    <2> QED BY <2>1, <2>2, RefusedServes
  <1>6. CASE UNCHANGED svars
    BY <1>1, <1>6 DEF svars
  <1>7. CASE Next /\ UNCHANGED <<mode, seen, serve, ran>>
    BY <1>1, <1>7
  <1> QED BY <1>2, <1>3, <1>4, <1>5, <1>6, <1>7 DEF ServiceNext

LEMMA ServiceInitially == ServiceInit => ServiceInv
  <1> SUFFICES ASSUME ServiceInit PROVE ServiceInv
    OBVIOUS
  <1>1. QueueInv
    <2>1. Init => LeaseHonoured
      BY QueueAssumption DEF Init, LeaseHonoured, Null
    <2> QED BY <2>1, ClaimsInit DEF ServiceInit, QueueInv
  <1>2. RanInv
    BY DEF ServiceInit, Init, RanInv, RunsOnce
  <1>3. CacheInv
    BY DEF ServiceInit, CacheInv
  <1>4. ServeInv
    <2>1. (CHOOSE r \in Requests : TRUE) \in Requests
      BY ServiceAssumption
    <2>2. serve \in Serve /\ serve.at = "idle" /\ serve.id = Null /\ serve.token = Null
          /\ serve.mine = FALSE
      BY <2>1 DEF ServiceInit, Idles, Begin, Serve, Null
    <2>3. issued = 0
      BY DEF ServiceInit, Init
    <2> QED BY <2>2, <2>3 DEF ServeInv, Asks, Follows, Replies, Null
  <1> QED BY <1>1, <1>2, <1>3, <1>4 DEF ServiceInv

\* The service keeps its cache, its history and the request in hand well formed.
THEOREM ServiceTypesHold == ServiceSpec => []ServiceTypeOK
  <1>1. ServiceInv => ServiceTypeOK
    BY DEF ServiceInv, CacheInv, ServeInv, RanInv, ServiceTypeOK
  <1> QED BY <1>1, ServiceInitially, ServiceInductive, PTL DEF ServiceSpec

\* The reply to a Take or a Touch shows the lease of its own claim, unless that
\* claim ended while the reply was put together: the transactions of other
\* processes in between change nothing else.
THEOREM RepliesAreOfTheirClaims == PlainStatuses => (ServiceSpec => []ReplyIsOfItsClaim)
  <1> SUFFICES ASSUME PlainStatuses PROVE ServiceSpec => []ReplyIsOfItsClaim
    OBVIOUS
  <1>1. ASSUME ServiceInv
        PROVE  ReplyIsOfItsClaim
    <2> SUFFICES ASSUME serve.at = "replied", serve.token # Null,
                        ~(serve.mine /\ serve.lease # Null)
                 PROVE  granted[serve.token] <= now
      BY DEF ReplyIsOfItsClaim
    <2>1. \A j \in Ids : ~(directives[j].status = "taken" /\ directives[j].token = serve.token)
      BY <1>1 DEF ServiceInv, ServeInv, Replies
    <2>2. serve.token \in Tokens
      BY <1>1, ServeFields DEF ServiceInv, ServeInv
    <2>3. granted[serve.token] \in Nat /\ now \in Nat
      BY <1>1, <2>2, ReadingType DEF ServiceInv, QueueInv, ClaimsInv, TypeOK
    <2>4. ~(granted[serve.token] > now)
      BY <1>1, <2>1, <2>2 DEF ServiceInv, QueueInv, LeaseHonoured
    <2> QED BY <2>3, <2>4
  <1> QED BY <1>1, ServiceInitially, ServiceInductive, PTL DEF ServiceSpec

-----------------------------------------------------------------------------
(***************************************************************************)
(* To the queue the service is a worker like any other, and a reader: each *)
(* call of core a handler makes is a step of the queue or reclaims.        *)
(***************************************************************************)
LEMMA HandlersInQueue ==
    ASSUME ServiceInv, [ServiceNext]_svars
    PROVE  [Next]_vars \/ (Reclaims /\ call' = call)
  <1>0. /\ serve.request.lane \in Lanes /\ serve.request.policy \in Policies
        /\ serve.request.id \in Ids /\ serve.request.token \in Tokens
        /\ serve.at \in {"take", "touch"} => LeaseSeconds(serve.request.ms) \in Leases
        /\ serve.at = "touch" => serve.request.token <= issued
        /\ issued \in Nat
    BY ServeFields, ReadingType DEF ServiceInv, QueueInv, ClaimsInv, ServeInv, Asks, Follows
  <1>1. CASE ReapFirst
    BY <1>1 DEF ReapFirst, Next, OperatorStep
  <1>2. CASE TakeOne
    <2>1. /\ serve.at = "take"
          /\ \/ Take(serve.request.lane, serve.request.policy, LeaseSeconds(serve.request.ms))
             \/ TakeNothing(serve.request.lane, serve.request.policy)
      BY <1>2 DEF TakeOne, Stage, Asked
    <2>2. WorkerStep
      BY <1>0, <2>1 DEF WorkerStep
    <2> QED BY <2>2 DEF Next
  <1>3. CASE TouchOne
    <2>1. /\ serve.at = "touch"
          /\ TouchFenced(serve.request.id, serve.request.token, LeaseSeconds(serve.request.ms))
      BY <1>3 DEF TouchOne, Stage, Asked
    <2>2. serve.request.token \in 1..issued
      BY <1>0, <2>1 DEF Tokens
    <2>3. WorkerStep
      BY <1>0, <2>1, <2>2 DEF WorkerStep
    <2> QED BY <2>3 DEF Next
  <1>4. CASE SweepExpired \/ SweepDeferred
    BY <1>4 DEF SweepExpired, SweepDeferred, Reclaims
  <1>5. (\E r \in Requests : Receive(r)) \/ Select \/ ShowRow \/ Restart \/ UNCHANGED svars
            => UNCHANGED vars
    BY DEF Receive, Select, ShowRow, Restart, svars
  <1> QED BY <1>1, <1>2, <1>3, <1>4, <1>5 DEF ServiceNext

ServedQueue ==
    /\ ServiceInv /\ ProtectionInv /\ QueueHolds
    /\ \E n \in 0..MaxId : FirstRows(directives, n)

LEMMA ServedInductive ==
    ASSUME KnownIds, ServedQueue, [ServiceNext]_svars
    PROVE  ServedQueue' /\ [QueueSteps /\ OneClaim]_vars
  <1>1. ServiceInv'
    BY ServiceInductive DEF ServedQueue
  <1>2. CASE [Next]_vars
    <2>1. TypeOK /\ Targets
      BY DEF ServedQueue, ProtectionInv
    <2>2. QueueHolds' /\ QueueSteps
      BY <1>2, <2>1, NextHolds DEF ServedQueue
    <2>3. ProtectionInv' /\ OneClaim
      BY <1>2, <2>1, ProtectionInductive, NextMoves, MovesKeepTheClaim DEF ServedQueue
    <2>4. \E n \in 0..MaxId : FirstRows(directives', n)
      BY <1>2, <2>1, NextKeeps, FirstRowsNext DEF ServedQueue
    <2> QED BY <1>1, <2>2, <2>3, <2>4 DEF ServedQueue
  <1>3. CASE Reclaims /\ call' = call
    <2>1. QueueHolds' /\ QueueSteps
      BY <1>3, ReclaimsKeeps DEF ServedQueue, ProtectionInv
    <2>2. /\ ProtectionInv' /\ OneClaim
          /\ \E n \in 0..MaxId : FirstRows(directives', n)
      BY <1>3, ReclaimsProtect DEF ServedQueue
    <2> QED BY <1>1, <2>1, <2>2 DEF ServedQueue
  <1> QED BY <1>2, <1>3, HandlersInQueue DEF ServedQueue

LEMMA ServedInvariant == KnownIds => (ServiceSpec => []ServedQueue)
  <1> SUFFICES ASSUME KnownIds PROVE ServiceSpec => []ServedQueue
    OBVIOUS
  <1>1. ServiceInit => ServedQueue
    BY ServiceInitially, ProtectionInit, QueueHoldsInit, RowsInit
       DEF ServiceInit, ServedQueue, RowsInv
  <1>2. ServedQueue /\ [ServiceNext]_svars => ServedQueue'
    BY ServedInductive
  <1> QED BY <1>1, <1>2, PTL DEF ServiceSpec

\* The SELECT behind a reply to Take or Touch meets a queue where the row under
\* a claim shows what the claim is promised (LeasePromised), and where a claim
\* that is on no row is promised nothing any more (LeaseHonoured).
TellsThePromise ==
    (serve.at = "read" /\ serve'.at = "replied" /\ serve'.token # Null) =>
        \/ serve'.lease = granted[serve'.token]
        \/ ~serve'.mine /\ granted[serve'.token] <= now

LEMMA ShowRowTells ==
    ASSUME ServedQueue, ShowRow
    PROVE  TellsThePromise
  <1>0. /\ TypeOK /\ LeaseHonoured /\ LeasePromised /\ ServeInv /\ serve \in Serve
    BY DEF ServedQueue, QueueHolds, ServiceInv, QueueInv, ClaimsInv, ServeInv
  <1> DEFINE r == directives[serve.id]
             m == (r.status = "taken" /\ r.token = serve.token)
  <1>1. /\ serve.id \in Ids /\ serve.token \in Tokens \cup {Null}
        /\ serve' = [serve EXCEPT !.at = "replied", !.lease = r.lease, !.mine = m]
    BY <1>0, ServeFields DEF ShowRow, Stage, ServeInv, Asks
  <1>2. serve'.lease = r.lease /\ serve'.token = serve.token /\ serve'.mine = m
    <2>1. r.lease \in Nat /\ m \in BOOLEAN
      BY <1>0, <1>1, ReadingType DEF Table, Directive
    <2> HIDE DEF r, m
    <2> QED BY <1>0, <1>1, <2>1 DEF Serve
  <1>3. CASE serve.token = Null
    BY <1>2, <1>3 DEF TellsThePromise
  <1>4. CASE serve.token # Null /\ m
    <2>1. granted[serve.token] = r.lease
      BY <1>0, <1>1, <1>4 DEF LeasePromised, Promised
    <2> QED BY <1>2, <2>1 DEF TellsThePromise
  <1>5. CASE serve.token # Null /\ ~m
    <2>1. serve.token \in Tokens
      BY <1>1, <1>5
    <2>2. \A j \in Ids : ~(directives[j].status = "taken" /\ directives[j].token = serve.token)
      BY <1>0, <1>1, <1>5 DEF ServeInv, Follows
    <2>3. granted[serve.token] \in Nat /\ now \in Nat
      BY <1>0, <2>1, ReadingType DEF TypeOK
    <2>4. ~(granted[serve.token] > now)
      BY <1>0, <2>1, <2>2 DEF LeaseHonoured
    <2>5. granted[serve.token] <= now
      BY <2>3, <2>4
    <2>6. ~serve'.mine /\ serve'.token = serve.token
      BY <1>2, <1>5
    <2> QED BY <2>5, <2>6 DEF TellsThePromise
  <1> QED BY <1>3, <1>4, <1>5

\* The reply to a Take or a Touch shows exactly the lease its claim is promised
\* at the instant of reading, or is of a claim that is over, for any requests
\* and any other processes between the transactions of a handler.
THEOREM RepliesTellThePromise == KnownIds => (ServiceSpec => ReplyTellsThePromise)
  <1> SUFFICES ASSUME KnownIds PROVE ServiceSpec => ReplyTellsThePromise
    OBVIOUS
  <1>1. ServedQueue /\ [ServiceNext]_svars => [TellsThePromise]_svars
    <2> SUFFICES ASSUME ServedQueue, ServiceNext PROVE TellsThePromise
      OBVIOUS
    <2>1. CASE ShowRow
      BY <2>1, ShowRowTells
    <2>2. ASSUME serve.at = "read"
          PROVE  \/ ShowRow \/ Restart \/ UNCHANGED serve
      BY <2>2 DEF ServiceNext, Receive, ReapFirst, TakeOne, TouchOne, SweepExpired,
                  SweepDeferred, Select, Stage
    <2>3. Restart \/ UNCHANGED serve => TellsThePromise
      BY DEF Restart, Idles, Begin, TellsThePromise
    <2> QED BY <2>1, <2>2, <2>3 DEF TellsThePromise
  <1>2. [][TellsThePromise]_svars => ReplyTellsThePromise
    BY PTL DEF ReplyTellsThePromise, TellsThePromise
  <1> QED BY <1>1, <1>2, ServedInvariant, PTL DEF ServiceSpec

\* Requests of the service, arriving any number of times and cut short by any
\* restart, break no lease and give no token to two directives.
THEOREM ServiceKeepsTheLeases ==
    ServiceSpec => [](/\ LeaseHonoured /\ TokensNameOneDirective
                      /\ PlainStatuses => ClaimColumnsAgree)
  <1>1. ServiceInv => /\ LeaseHonoured /\ TokensNameOneDirective
                      /\ PlainStatuses => ClaimColumnsAgree
    BY DEF ServiceInv, QueueInv, ClaimsInv, Columns, ClaimColumnsAgree
  <1> QED BY <1>1, ServiceInitially, ServiceInductive, PTL DEF ServiceSpec

\* Beside the service a protected directive stays held and a parent precedes
\* its children (Take, Peek and Touch, each several transactions).
THEOREM ServiceKeepsTheRest ==
    KnownIds => (ServiceSpec => [](ProtectedIsHeld /\ ParentsPrecede))
  <1>1. ServedQueue => ProtectedIsHeld /\ ParentsPrecede
    BY DEF ServedQueue, ProtectionInv, QueueHolds
  <1> QED BY <1>1, ServedInvariant, PTL

\* ... and every handler, and the sweeps of a Peek between two of its reads,
\* counts a lost claim when it ends it and never again; none overtakes anybody,
\* reopens what is finished, promotes what is not ready or gives a protected
\* directive a second claim.
THEOREM ServiceKeepsTheSteps ==
    KnownIds => (ServiceSpec => /\ LostClaimCountedOnce /\ TakesTheHead
                                /\ FinishedStaysFinished /\ PromotedOnlyWhenReady
                                /\ ProtectedClaimedOnce)
  <1> SUFFICES ASSUME KnownIds
               PROVE  ServiceSpec => /\ LostClaimCountedOnce /\ TakesTheHead
                                     /\ FinishedStaysFinished /\ PromotedOnlyWhenReady
                                     /\ ProtectedClaimedOnce
    OBVIOUS
  <1>1. ServedQueue /\ [ServiceNext]_svars => [QueueSteps]_vars /\ [OneClaim]_vars
    BY ServedInductive
  <1>2. [][OneClaim]_vars => ProtectedClaimedOnce
    BY PTL DEF ProtectedClaimedOnce, OneClaim
  <1> QED BY <1>1, <1>2, StepsArePromised, ServedInvariant, PTL DEF ServiceSpec
=============================================================================
