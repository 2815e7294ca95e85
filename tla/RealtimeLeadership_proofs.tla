---------------------- MODULE RealtimeLeadership_proofs ----------------------
(***************************************************************************)
(* For every set of instances, families, lease duration and clock skew:    *)
(* the lease fences the market-triggered writers, and an epoch has one     *)
(* owner.  Where no instance's clock is behind the database's, no two      *)
(* running instances see themselves as leader.                             *)
(***************************************************************************)
EXTENDS RealtimeLeadership, TLAPS

\* While a transaction holds the row, the row is the one it asserted.
LockedIsCurrent == \A n \in Nodes, f \in Families :
  trig[n][f].st = "locked" => row.leader = n /\ row.epoch = trig[n][f].epoch

\* Instance n carries epoch e somewhere; no epoch beyond the row's is carried,
\* none by two instances, and the row's epoch by the row's leader alone.
Carries(n, e) == \/ token[n].epoch = e
                 \/ refresh[n].reply.epoch = e
                 \/ expire[n].epoch = e
                 \/ \E f \in Families : trig[n][f].epoch = e
Epochs == Nat \ {0}
CarriedWasGranted == \A n \in Nodes, e \in Epochs : Carries(n, e) => e <= row.epoch
OneCarrier == \A m, n \in Nodes, e \in Epochs : Carries(m, e) /\ Carries(n, e) => m = n
RowCarrier == \A n \in Nodes, e \in Epochs : Carries(n, e) /\ row.epoch = e => row.leader = n
Ownership == CarriedWasGranted /\ OneCarrier /\ RowCarrier

IInv == LockedIsCurrent /\ Ownership

-----------------------------------------------------------------------------
\* Every action keeps the type of every variable.
LEMMA TypeInvariant == Spec => []TypeOK
<1> USE LeadershipAssumption
<1>1. Init => TypeOK
  BY DEF Init, TypeOK, NoToken, NoRefresh, NoExpire, Idle, Tokens
<1>2. TypeOK /\ [Next]_vars => TypeOK'
  <2> SUFFICES ASSUME TypeOK, [Next]_vars PROVE TypeOK'
    OBVIOUS
  <2> USE DEF TypeOK, Tokens, NoToken, NoRefresh, NoExpire, Idle
  <2>1. CASE Tick
    BY <2>1 DEF Tick
  <2>2. ASSUME NEW n \in Nodes, Coordinate(n) PROVE TypeOK'
    <3>1. CASE RefreshBegin(n)
      BY <3>1 DEF RefreshBegin
    <3>2. CASE RefreshCommit(n)
      <4>1. Answer(n, refresh[n].t0) \in Tokens
        BY DEF Answer, Granted, NextEpoch
      <4>2. row' \in [leader: Nodes \cup {NoNode}, epoch: Nat, expires: Nat]
        BY <3>2 DEF RefreshCommit, Acquire, NextEpoch
      <4> QED BY <3>2, <4>1, <4>2 DEF RefreshCommit
    <3>3. CASE RefreshDeliver(n)
      BY <3>3 DEF RefreshDeliver
    <3>4. CASE RefreshFail(n)
      BY <3>4 DEF RefreshFail, CurrentToken
    <3>5. CASE Stop(n)
      BY <3>5 DEF Stop
    <3>6. CASE Expire(n)
      BY <3>6 DEF Expire
    <3>7. CASE Crash(n)
      BY <3>7 DEF Crash
    <3>8. CASE Restart(n)
      BY <3>8 DEF Restart
    <3> QED BY <2>2, <3>1, <3>2, <3>3, <3>4, <3>5, <3>6, <3>7, <3>8 DEF Coordinate
  <2>3. ASSUME NEW n \in Nodes, NEW f \in Families, Trigger(n, f) PROVE TypeOK'
    <3>1. CASE Capture(n, f)
      BY <3>1 DEF Capture
    <3>2. CASE Begin(n, f)
      BY <3>2 DEF Begin
    <3>3. CASE Assert(n, f)
      <4>1. CASE AssertHolds(n, trig[n][f].epoch, trig[n][f].t0)
        BY <3>3, <4>1 DEF Assert
      <4>2. CASE ~AssertHolds(n, trig[n][f].epoch, trig[n][f].t0)
        BY <3>3, <4>2 DEF Assert
      <4> QED BY <4>1, <4>2
    <3>4. CASE Commit(n, f)
      BY <3>4 DEF Commit
    <3>5. CASE Abandon(n, f)
      BY <3>5 DEF Abandon
    <3>6. CASE NextCandidate(n, f)
      <4>1. lastWrite' \in [epoch: Nat, by: Nodes \cup {NoNode}]
        BY <3>6 DEF NextCandidate
      <4> QED BY <3>6, <4>1 DEF NextCandidate
    <3> QED BY <2>3, <3>1, <3>2, <3>3, <3>4, <3>5, <3>6 DEF Trigger
  <2>4. CASE UNCHANGED vars
    BY <2>4 DEF vars
  <2> QED BY <2>1, <2>2, <2>3, <2>4 DEF Next
<1> QED BY <1>1, <1>2, PTL DEF Spec

-----------------------------------------------------------------------------
\* A step that leaves the row's owner and hands nobody an epoch it did not
\* carry already keeps the ownership of epochs.
LEMMA NothingNewCarried ==
  ASSUME Ownership, row'.epoch = row.epoch, row'.leader = row.leader,
         \A m \in Nodes, e \in Epochs : Carries(m, e)' => Carries(m, e)
  PROVE  Ownership'
BY DEF Ownership, CarriedWasGranted, OneCarrier, RowCarrier

\* A refresh that commits keeps the ownership of epochs: it learns nothing,
\* renews an epoch its instance owns, or takes one nobody ever carried.
LEMMA RefreshKeepsOwnership ==
  ASSUME TypeOK, Ownership, NEW n \in Nodes, RefreshCommit(n)
  PROVE  Ownership'
<1> DEFINE t0 == refresh[n].t0
<1>0. /\ t0 \in Nat
      /\ row.epoch \in Nat
      /\ UNCHANGED <<token, expire, trig>>
      /\ refresh'[n].reply = Answer(n, t0)
      /\ \A m \in Nodes \ {n} : refresh'[m] = refresh[m]
  BY DEF TypeOK, RefreshCommit
<1>1. CASE HeldByAnother(n, t0)
  <2>1. row' = row /\ Answer(n, t0) = NoToken
    BY <1>1 DEF RefreshCommit, Acquire, Answer
  <2>2. \A m \in Nodes, e \in Epochs : Carries(m, e)' => Carries(m, e)
    BY <1>0, <2>1 DEF Carries, Epochs, NoToken
  <2> QED BY <2>1, <2>2, NothingNewCarried
<1>2. CASE ~HeldByAnother(n, t0)
  <2>1. /\ row'.leader = n
        /\ row'.epoch = NextEpoch(n, t0)
        /\ refresh'[n].reply.epoch = NextEpoch(n, t0)
    BY <1>0, <1>2 DEF RefreshCommit, Acquire, Answer, Granted
  <2>2. \A m \in Nodes, e \in Epochs :
          Carries(m, e)' => Carries(m, e) \/ (m = n /\ e = NextEpoch(n, t0))
    BY <1>0, <2>1 DEF Carries
  <2>3. CASE RenewingCurrentLease(n, t0)
    <3>1. NextEpoch(n, t0) = row.epoch /\ row.leader = n
      BY <2>3 DEF NextEpoch, RenewingCurrentLease
    <3> QED BY <1>0, <2>1, <2>2, <3>1
            DEF Ownership, CarriedWasGranted, OneCarrier, RowCarrier, Epochs
  <2>4. CASE ~RenewingCurrentLease(n, t0)
    <3>1. NextEpoch(n, t0) = row.epoch + 1
      BY <2>4 DEF NextEpoch
    <3> QED BY <1>0, <2>1, <2>2, <3>1
            DEF Ownership, CarriedWasGranted, OneCarrier, RowCarrier, Epochs
  <2> QED BY <2>3, <2>4
<1> QED BY <1>1, <1>2

\* Every reachable state satisfies the inductive invariant.
THEOREM LeaseInvariant == Spec => []IInv
<1>1. Init => IInv
  BY DEF Init, IInv, LockedIsCurrent, Ownership, CarriedWasGranted, OneCarrier,
         RowCarrier, Carries, Epochs, NoToken, NoRefresh, NoExpire, Idle
<1>2. TypeOK /\ TypeOK' /\ IInv /\ [Next]_vars => IInv'
  <2> SUFFICES ASSUME TypeOK, TypeOK', IInv, [Next]_vars PROVE IInv'
    OBVIOUS
  <2>0. Ownership /\ LockedIsCurrent
    BY DEF IInv
  <2> USE DEF TypeOK
  <2>1. CASE Tick \/ UNCHANGED vars
    <3>1. UNCHANGED <<row, token, refresh, expire, trig>>
      BY <2>1 DEF Tick, vars
    <3>2. Ownership'
      BY <2>0, <3>1, NothingNewCarried DEF Carries
    <3>3. LockedIsCurrent'
      BY <2>0, <3>1 DEF LockedIsCurrent
    <3> QED BY <3>2, <3>3 DEF IInv
  <2>2. ASSUME NEW n \in Nodes, Coordinate(n) PROVE IInv'
    <3>1. CASE RefreshBegin(n)
      <4>1. Ownership'
        BY <2>0, <3>1, NothingNewCarried DEF RefreshBegin, Carries, Epochs, NoToken
      <4>2. LockedIsCurrent'
        BY <2>0, <3>1 DEF RefreshBegin, LockedIsCurrent
      <4> QED BY <4>1, <4>2 DEF IInv
    <3>2. CASE RefreshCommit(n)
      <4>1. Ownership'
        BY <2>0, <3>2, RefreshKeepsOwnership
      <4>2. LockedIsCurrent'
        BY <3>2 DEF RefreshCommit, RowFree, LockedIsCurrent
      <4> QED BY <4>1, <4>2 DEF IInv
    <3>3. CASE RefreshDeliver(n)
      <4>1. Ownership'
        BY <2>0, <3>3, NothingNewCarried DEF RefreshDeliver, Carries, Epochs, NoRefresh, NoToken
      <4>2. LockedIsCurrent'
        BY <2>0, <3>3 DEF RefreshDeliver, LockedIsCurrent
      <4> QED BY <4>1, <4>2 DEF IInv
    <3>4. CASE RefreshFail(n)
      <4>1. Ownership'
        BY <2>0, <3>4, NothingNewCarried
           DEF RefreshFail, Carries, Epochs, NoRefresh, NoToken, CurrentToken
      <4>2. LockedIsCurrent'
        BY <2>0, <3>4 DEF RefreshFail, LockedIsCurrent
      <4> QED BY <4>1, <4>2 DEF IInv
    <3>5. CASE Stop(n)
      <4>1. Ownership'
        BY <2>0, <3>5, NothingNewCarried DEF Stop, Carries, Epochs, NoToken, NoExpire
      <4>2. LockedIsCurrent'
        BY <2>0, <3>5 DEF Stop, LockedIsCurrent
      <4> QED BY <4>1, <4>2 DEF IInv
    <3>6. CASE Expire(n)
      <4>1. row'.epoch = row.epoch /\ row'.leader = row.leader
        BY <3>6 DEF Expire
      <4>2. Ownership'
        BY <2>0, <3>6, <4>1, NothingNewCarried DEF Expire, Carries, Epochs, NoExpire
      <4>3. LockedIsCurrent'
        BY <2>0, <3>6, <4>1 DEF Expire, LockedIsCurrent
      <4> QED BY <4>2, <4>3 DEF IInv
    <3>7. CASE Crash(n)
      <4>1. Ownership'
        BY <2>0, <3>7, NothingNewCarried
           DEF Crash, Carries, Epochs, NoToken, NoRefresh, NoExpire, Idle
      <4>2. LockedIsCurrent'
        BY <2>0, <3>7 DEF Crash, LockedIsCurrent, Idle
      <4> QED BY <4>1, <4>2 DEF IInv
    <3>8. CASE Restart(n)
      <4>1. Ownership'
        BY <2>0, <3>8, NothingNewCarried DEF Restart, Carries, Epochs, NoToken
      <4>2. LockedIsCurrent'
        BY <2>0, <3>8 DEF Restart, LockedIsCurrent
      <4> QED BY <4>1, <4>2 DEF IInv
    <3> QED BY <2>2, <3>1, <3>2, <3>3, <3>4, <3>5, <3>6, <3>7, <3>8 DEF Coordinate
  <2>3. ASSUME NEW n \in Nodes, NEW f \in Families, Trigger(n, f) PROVE IInv'
    <3>0. UNCHANGED <<row, token, refresh, expire>>
      BY <2>3 DEF Trigger, Capture, Begin, Assert, Commit, Abandon, NextCandidate
    <3>1. /\ \A m \in Nodes, g \in Families :
               trig'[m][g].epoch \in {0, trig[m][g].epoch, token[m].epoch}
          /\ \A m \in Nodes, g \in Families : trig'[m][g].st = "locked" =>
               /\ trig'[m][g].epoch = trig[m][g].epoch
               /\ \/ trig[m][g].st = "locked"
                  \/ row.leader = m /\ row.epoch = trig[m][g].epoch
      <4>1. CASE Capture(n, f)
        BY <4>1 DEF Capture
      <4>2. CASE Begin(n, f)
        BY <4>2 DEF Begin
      <4>3. CASE Assert(n, f)
        <5>1. CASE AssertHolds(n, trig[n][f].epoch, trig[n][f].t0)
          BY <4>3, <5>1 DEF Assert, AssertHolds
        <5>2. CASE ~AssertHolds(n, trig[n][f].epoch, trig[n][f].t0)
          BY <4>3, <5>2 DEF Assert, Idle
        <5> QED BY <5>1, <5>2
      <4>4. CASE Commit(n, f)
        BY <4>4 DEF Commit, Idle
      <4>5. CASE Abandon(n, f)
        BY <4>5 DEF Abandon, Idle
      <4>6. CASE NextCandidate(n, f)
        BY <4>6 DEF NextCandidate
      <4> QED BY <2>3, <4>1, <4>2, <4>3, <4>4, <4>5, <4>6 DEF Trigger
    <3>2. \A m \in Nodes, e \in Epochs : Carries(m, e)' => Carries(m, e)
      BY <3>0, <3>1 DEF Carries, Epochs
    <3>3. Ownership'
      BY <2>0, <3>0, <3>2, NothingNewCarried
    <3>4. LockedIsCurrent'
      BY <2>0, <3>0, <3>1 DEF LockedIsCurrent
    <3> QED BY <3>3, <3>4 DEF IInv
  <2> QED BY <2>1, <2>2, <2>3 DEF Next
<1> QED BY <1>1, <1>2, TypeInvariant, PTL DEF Spec

-----------------------------------------------------------------------------
\* An epoch belongs to one instance for ever.
THEOREM EpochOwnership == Spec => []EpochHasOneOwner
<1>1. TypeOK /\ IInv => EpochHasOneOwner
  <2> SUFFICES ASSUME TypeOK, IInv PROVE EpochHasOneOwner
    OBVIOUS
  <2>1. \A n \in Nodes : \A e \in Carried(n) : e \in Nat /\ Carries(n, e)
    BY DEF TypeOK, Tokens, Carried, Carries
  <2>2. \A m, n \in Nodes : m # n => Carried(m) \cap Carried(n) \subseteq {0}
    BY <2>1 DEF IInv, Ownership, OneCarrier, Epochs
  <2>3. \A n \in Nodes : row.epoch \in Carried(n) \ {0} => row.leader = n
    BY <2>1 DEF IInv, Ownership, RowCarrier, Epochs
  <2> QED BY <2>2, <2>3 DEF EpochHasOneOwner
<1> QED BY <1>1, TypeInvariant, LeaseInvariant, PTL

\* The lease implements the fenced writer: a market-triggered mutation commits
\* under the epoch and instance of the row, and epochs only grow.
THEOREM Fencing == Spec => Fenced
<1>1. Init => Fence!Init
  BY DEF Init, Fence!Init
<1>2. TypeOK /\ IInv /\ [Next]_vars => [Fence!Next]_Fence!vars
  <2> SUFFICES ASSUME TypeOK, IInv, [Next]_vars PROVE [Fence!Next]_Fence!vars
    OBVIOUS
  <2> USE DEF Fence!Next, Fence!Grant, Fence!Commit, Fence!vars
  <2>1. CASE Tick \/ UNCHANGED vars
    BY <2>1 DEF Tick, vars
  <2>2. ASSUME NEW n \in Nodes, Coordinate(n) PROVE [Fence!Next]_Fence!vars
    <3>0. UNCHANGED lastWrite
      BY <2>2 DEF Coordinate, RefreshBegin, RefreshCommit, RefreshDeliver, RefreshFail,
                  Stop, Expire, Crash, Restart
    <3>1. CASE RefreshCommit(n)
      <4>1. CASE HeldByAnother(n, refresh[n].t0)
        BY <3>0, <3>1, <4>1 DEF RefreshCommit, Acquire
      <4>2. CASE ~HeldByAnother(n, refresh[n].t0)
        <5>1. row'.leader = n /\ row'.epoch = NextEpoch(n, refresh[n].t0)
          BY <3>1, <4>2 DEF RefreshCommit, Acquire
        <5> QED BY <3>0, <5>1 DEF NextEpoch, RenewingCurrentLease
      <4> QED BY <4>1, <4>2
    <3>2. CASE Expire(n)
      BY <3>0, <3>2 DEF Expire
    <3>3. CASE ~RefreshCommit(n) /\ ~Expire(n)
      <4>1. UNCHANGED row
        BY <2>2, <3>3 DEF Coordinate, RefreshBegin, RefreshDeliver, RefreshFail,
                          Stop, Crash, Restart
      <4> QED BY <3>0, <4>1
    <3> QED BY <3>1, <3>2, <3>3
  <2>3. ASSUME NEW n \in Nodes, NEW f \in Families, Trigger(n, f)
        PROVE [Fence!Next]_Fence!vars
    <3>0. UNCHANGED row
      BY <2>3 DEF Trigger, Capture, Begin, Assert, Commit, Abandon, NextCandidate
    <3>1. \/ UNCHANGED lastWrite
          \/ /\ trig[n][f].st = "locked"
             /\ lastWrite' = [epoch |-> trig[n][f].epoch, by |-> n]
      BY <2>3 DEF Trigger, Capture, Begin, Assert, Commit, Abandon, NextCandidate
    <3> QED BY <3>0, <3>1 DEF IInv, LockedIsCurrent
  <2> QED BY <2>1, <2>2, <2>3 DEF Next
<1> QED BY <1>1, <1>2, TypeInvariant, LeaseInvariant, PTL DEF Spec, Fenced, Fence!Spec
-----------------------------------------------------------------------------
(* Leaders in time: with epochs alone two instances might both believe they *)
(* lead; that they do not rests on the clocks of the transactions.          *)

\* An unexpired token is covered by the row: its instance holds the lease, and
\* for no shorter than the token says.
Covered(n, t) == t.expires > now => row.leader = n /\ row.expires >= t.expires
TokensAreCovered == \A n \in Nodes :
  process[n] = "up" => Covered(n, token[n]) /\ Covered(n, refresh[n].reply)

\* What a refresh brings is never older than what it replaces, and it is never
\* granted beyond a lease from its own clock.
TimesAreOrdered == \A n \in Nodes :
  /\ refresh[n].t0 <= now
  /\ token[n].expires <= now + Lease
  /\ refresh[n].st = "begun" => token[n].expires <= refresh[n].t0 + Lease
  /\ refresh[n].st = "replied" => refresh[n].reply.expires <= refresh[n].t0 + Lease
  /\ refresh[n].st # "replied" => refresh[n].reply = NoToken

TInv == TokensAreCovered /\ TimesAreOrdered

\* A transaction that takes the row decides with a clock that is behind: what
\* it finds expired has expired, so it deprives no instance of its lease.
LEMMA RefreshKeepsCover ==
  ASSUME TypeOK, TypeOK', TInv, NEW n \in Nodes, RefreshCommit(n)
  PROVE  TInv'
<1> DEFINE t0 == refresh[n].t0
<1> USE LeadershipAssumption DEF TypeOK, Tokens, NoToken
<1>0. /\ refresh[n].st = "begun" /\ UNCHANGED <<now, process, token>>
      /\ refresh' = [refresh EXCEPT ![n] =
                       [st |-> "replied", t0 |-> t0, reply |-> Answer(n, t0)]]
      /\ t0 \in Nat /\ t0 <= now /\ now \in Nat /\ Lease \in Nat /\ row.expires \in Nat
      /\ token[n].expires <= t0 + Lease
  BY DEF RefreshCommit, TInv, TimesAreOrdered
<1>1. Answer(n, t0) \in Tokens /\ Answer(n, t0).expires <= t0 + Lease
  BY <1>0 DEF Answer, Granted, NextEpoch
<1>2. TimesAreOrdered'
  BY <1>0, <1>1 DEF TInv, TimesAreOrdered
<1>3. CASE HeldByAnother(n, t0)
  <2>1. row' = row /\ Answer(n, t0) = NoToken
    BY <1>3 DEF RefreshCommit, Acquire, Answer
  <2> QED BY <1>0, <1>2, <2>1 DEF TInv, TokensAreCovered, Covered
<1>4. CASE ~HeldByAnother(n, t0)
  <2>1. row'.leader = n /\ row'.expires = t0 + Lease /\ Answer(n, t0).expires = t0 + Lease
    BY <1>4 DEF RefreshCommit, Acquire, Answer, Granted
  <2>2. ASSUME NEW m \in Nodes, process[m] = "up", m # n
        PROVE  token[m].expires <= now /\ refresh[m].reply.expires <= now
    <3>1. Covered(m, token[m]) /\ Covered(m, refresh[m].reply)
      BY <2>2 DEF TInv, TokensAreCovered
    <3>2. row.leader = m => row.expires <= now
      BY <1>0, <1>4, <2>2 DEF HeldByAnother, LeaseIsCurrent
    <3>3. token[m] \in Tokens /\ refresh[m].reply \in Tokens
      OBVIOUS
    <3> QED BY <1>0, <3>1, <3>2, <3>3 DEF Covered
  <2>3. ASSUME NEW m \in Nodes, process'[m] = "up"
        PROVE  Covered(m, token[m])' /\ Covered(m, refresh[m].reply)'
    <3>1. CASE m = n
      BY <1>0, <2>1, <3>1 DEF Covered
    <3>2. CASE m # n
      BY <1>0, <2>2, <2>3, <3>2 DEF Covered
    <3> QED BY <3>1, <3>2
  <2> QED BY <1>2, <2>3 DEF TInv, TokensAreCovered
<1> QED BY <1>3, <1>4

\* Tokens stay covered by the row, and times in order, under every action and
\* for every clock skew, crash, restart and lost refresh.
THEOREM CoverInvariant == Spec => []TInv
<1> USE LeadershipAssumption
<1>1. Init => TInv
  BY DEF Init, TInv, TokensAreCovered, Covered, TimesAreOrdered, NoToken, NoRefresh
<1>2. TypeOK /\ TypeOK' /\ TInv /\ [Next]_vars => TInv'
  <2> SUFFICES ASSUME TypeOK, TypeOK', TInv, [Next]_vars PROVE TInv'
    OBVIOUS
  <2> USE DEF TypeOK, Tokens, NoToken, NoRefresh
  <2>1. CASE Tick
    BY <2>1 DEF Tick, TInv, TokensAreCovered, Covered, TimesAreOrdered
  <2>2. CASE UNCHANGED vars
    BY <2>2 DEF vars, TInv, TokensAreCovered, Covered, TimesAreOrdered
  <2>3. ASSUME NEW n \in Nodes, Coordinate(n) PROVE TInv'
    <3>1. CASE RefreshBegin(n)
      BY <3>1 DEF RefreshBegin, TInv, TokensAreCovered, Covered, TimesAreOrdered
    <3>2. CASE RefreshCommit(n)
      BY <3>2, RefreshKeepsCover
    <3>3. CASE RefreshDeliver(n)
      BY <3>3 DEF RefreshDeliver, TInv, TokensAreCovered, Covered, TimesAreOrdered
    <3>4. CASE RefreshFail(n)
      <4>1. token'[n] \in {token[n], NoToken} /\ \A m \in Nodes \ {n} : token'[m] = token[m]
        BY <3>4 DEF RefreshFail, CurrentToken
      <4> QED BY <3>4, <4>1 DEF RefreshFail, TInv, TokensAreCovered, Covered, TimesAreOrdered
    <3>5. CASE Stop(n)
      <4>1. process'[n] # "up" /\ \A m \in Nodes \ {n} : process'[m] = process[m]
        BY <3>5 DEF Stop
      <4> QED BY <3>5, <4>1 DEF Stop, TInv, TokensAreCovered, Covered, TimesAreOrdered
    <3>6. CASE Expire(n)
      <4>1. /\ row'.leader = row.leader
            /\ row.leader # n => row' = row
            /\ process'[n] # "up" /\ \A m \in Nodes \ {n} : process'[m] = process[m]
            /\ UNCHANGED <<now, token, refresh>>
        BY <3>6 DEF Expire
      <4> QED BY <4>1 DEF TInv, TokensAreCovered, Covered, TimesAreOrdered
    <3>7. CASE Crash(n)
      BY <3>7 DEF Crash, TInv, TokensAreCovered, Covered, TimesAreOrdered
    <3>8. CASE Restart(n)
      BY <3>8 DEF Restart, TInv, TokensAreCovered, Covered, TimesAreOrdered
    <3> QED BY <2>3, <3>1, <3>2, <3>3, <3>4, <3>5, <3>6, <3>7, <3>8 DEF Coordinate
  <2>4. ASSUME NEW n \in Nodes, NEW f \in Families, Trigger(n, f) PROVE TInv'
    <3>1. UNCHANGED <<now, row, process, token, refresh>>
      BY <2>4 DEF Trigger, Capture, Begin, Assert, Commit, Abandon, NextCandidate
    <3> QED BY <3>1 DEF TInv, TokensAreCovered, Covered, TimesAreOrdered
  <2> QED BY <2>1, <2>2, <2>3, <2>4 DEF Next
<1> QED BY <1>1, <1>2, TypeInvariant, PTL DEF Spec

\* With instance clocks that are not behind the database's, two running
\* instances never both see themselves as leader, for any lease and any number
\* of outages: both would hold the one row.
THEOREM LeadershipIsExclusive ==
  ASSUME \A n \in Nodes : Skew[n] >= 0
  PROVE  Spec => []OneLeader
<1>1. TypeOK /\ TInv => OneLeader
  <2> SUFFICES ASSUME TypeOK, TInv, NEW m \in Nodes, NEW n \in Nodes, Leads(m), Leads(n)
               PROVE  m = n
    BY DEF OneLeader
  <2>1. ASSUME NEW i \in Nodes, Leads(i) PROVE row.leader = i
    <3>1. process[i] = "up" /\ token[i].expires > now + Skew[i]
      BY <2>1, LeadershipAssumption DEF Leads, CurrentToken, TypeOK, Tokens
    <3>2. now + Skew[i] >= now
      BY LeadershipAssumption DEF TypeOK
    <3> QED BY <3>1, <3>2, LeadershipAssumption
            DEF TInv, TokensAreCovered, Covered, TypeOK, Tokens
  <2> QED BY <2>1
<1> QED BY <1>1, TypeInvariant, CoverInvariant, PTL
=============================================================================
