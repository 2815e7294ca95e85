------------------------- MODULE RealtimeLeadership -------------------------
(***************************************************************************)
(* The leadership lease of the realtime service: the row of                *)
(* app.realtime_leadership, the coordinator of every instance and the      *)
(* market-triggered transactions fenced by the lease.                      *)
(*                                                                         *)
(* A transaction reads current_timestamp, which PostgreSQL fixes when the  *)
(* transaction begins, and may then wait for the row's FOR UPDATE lock: it *)
(* decides with a clock older than the row it sees.  A coordinator's       *)
(* refresh is three steps, because the code awaits between them: BEGIN,    *)
(* the locked read-decide-update, and the delivery of the answer.          *)
(***************************************************************************)
EXTENDS Integers

CONSTANTS Nodes,      \* the realtime instances, one per INSTANCE_ID
          NoNode,     \* the leader of the seeded row
          Families,   \* the trigger families an accepted tick starts
          Lease,      \* LEADER_LEASE_DURATION_MS
          Skew,       \* an instance's Date.now() minus the database's clock
          MaxTime,    \* bound: the last instant of the clock
          MaxOutages  \* bound: how many crashes, stops and lost refreshes

ASSUME LeadershipAssumption ==
  /\ NoNode \notin Nodes
  /\ Lease \in Nat \ {0}
  /\ Skew \in [Nodes -> Int]
  /\ MaxTime \in Nat
  /\ MaxOutages \in Nat

VARIABLES now,        \* the database's clock
          row,        \* leader_instance_id, fencing_epoch, lease_expires_at
          process,    \* up, stopping (expire sent), stopped, or killed
          token,      \* RealtimeLeadershipCoordinator.token
          refresh,    \* the refresh in flight (refreshInFlight and its answer)
          expire,     \* the expire statement stop() has sent
          trig,       \* the transaction of each trigger family of an instance
          lastWrite,  \* the last market-triggered mutation committed
          outages     \* outages so far

vars == <<now, row, process, token, refresh, expire, trig, lastWrite, outages>>

Tokens == [epoch: Nat, expires: Nat]
NoToken == [epoch |-> 0, expires |-> 0]   \* null: every epoch granted is positive

Idle == [st |-> "idle", t0 |-> 0, epoch |-> 0]
NoRefresh == [st |-> "idle", t0 |-> 0, reply |-> NoToken]
NoExpire == [epoch |-> 0, t0 |-> 0]

TypeOK ==
  /\ now \in Nat
  /\ row \in [leader: Nodes \cup {NoNode}, epoch: Nat, expires: Nat]
  /\ process \in [Nodes -> {"up", "stopping", "stopped", "killed"}]
  /\ token \in [Nodes -> Tokens]
  /\ refresh \in [Nodes -> [st: {"idle", "begun", "replied"}, t0: Nat, reply: Tokens]]
  /\ expire \in [Nodes -> [epoch: Nat, t0: Nat]]
  /\ trig \in [Nodes -> [Families -> [st: {"idle", "captured", "begun", "locked"}, t0: Nat, epoch: Nat]]]
  /\ lastWrite \in [epoch: Nat, by: Nodes \cup {NoNode}]
  /\ outages \in Nat

\* The migration seeds the row expired, without a leader, at epoch 0.
Init ==
  /\ now = 0
  /\ row = [leader |-> NoNode, epoch |-> 0, expires |-> 0]
  /\ process = [n \in Nodes |-> "up"]
  /\ token = [n \in Nodes |-> NoToken]
  /\ refresh = [n \in Nodes |-> NoRefresh]
  /\ expire = [n \in Nodes |-> NoExpire]
  /\ trig = [n \in Nodes |-> [f \in Families |-> Idle]]
  /\ lastWrite = [epoch |-> 0, by |-> NoNode]
  /\ outages = 0

-----------------------------------------------------------------------------
(* The row.                                                                *)

\* A wrong lock: assertCurrentLeadershipInTransaction reads without FOR UPDATE.
RowUnlocked == TRUE
\* Every locked access waits for the trigger transaction that holds the row.
RowFree == \A n \in Nodes, f \in Families : trig[n][f].st # "locked"

LeaseIsCurrent(t0) == row.expires > t0
RenewingCurrentLease(n, t0) == LeaseIsCurrent(t0) /\ row.leader = n
\* A wrong epoch: a restarted leader's epoch also serves whoever takes over.
EpochKept(n, t0) == IF row.leader = NoNode THEN row.epoch + 1 ELSE row.epoch
NextEpoch(n, t0) == IF RenewingCurrentLease(n, t0) THEN row.epoch ELSE row.epoch + 1

\* acquireOrRenewRealtimeLeadership, once the row is locked: the row it leaves
\* and the token it answers with.
HeldByAnother(n, t0) == LeaseIsCurrent(t0) /\ row.leader # n
Granted(n, t0) == [epoch |-> NextEpoch(n, t0), expires |-> t0 + Lease]
Acquire(n, t0) ==
  IF HeldByAnother(n, t0)
  THEN UNCHANGED row
  ELSE row' = [leader |-> n, epoch |-> NextEpoch(n, t0), expires |-> t0 + Lease]
Answer(n, t0) == IF HeldByAnother(n, t0) THEN NoToken ELSE Granted(n, t0)

\* assertCurrentLeadershipInTransaction, for a transaction that began at t0.
AssertHolds(n, e, t0) == row.leader = n /\ row.epoch = e /\ row.expires > t0

-----------------------------------------------------------------------------
(* The coordinator.                                                        *)

\* A wrong currentToken(): the token, expired or not.
TokenAsStored(n) == token[n]
\* currentToken(): the token, unless the instance's own clock says it expired.
CurrentToken(n) == IF token[n].expires <= now + Skew[n] THEN NoToken ELSE token[n]
Leads(n) == process[n] = "up" /\ CurrentToken(n) # NoToken

\* The timer calls refresh(); refreshInFlight lets one run at a time.
RefreshBegin(n) ==
  /\ process[n] = "up"
  /\ refresh[n].st = "idle"
  /\ refresh' = [refresh EXCEPT ![n] = [st |-> "begun", t0 |-> now, reply |-> NoToken]]
  /\ UNCHANGED <<now, row, process, token, expire, trig, lastWrite, outages>>

\* The transaction takes the row and commits.  clearInterval does not reach a
\* refresh already in flight, so this runs in a stopping process too.
RefreshCommit(n) ==
  /\ refresh[n].st = "begun"
  /\ RowFree
  /\ Acquire(n, refresh[n].t0)
  /\ refresh' = [refresh EXCEPT ![n] =
       [st |-> "replied", t0 |-> refresh[n].t0, reply |-> Answer(n, refresh[n].t0)]]
  /\ UNCHANGED <<now, process, token, expire, trig, lastWrite, outages>>

\* this.token = result.token
RefreshDeliver(n) ==
  /\ refresh[n].st = "replied"
  /\ token' = [token EXCEPT ![n] = refresh[n].reply]
  /\ refresh' = [refresh EXCEPT ![n] = NoRefresh]
  /\ UNCHANGED <<now, row, process, expire, trig, lastWrite, outages>>

\* A wrong catch: refreshInFlight is never cleared, the timer finds it set.
FailStaysInFlight(n) ==
  /\ refresh[n].st # "idle"
  /\ outages < MaxOutages
  /\ outages' = outages + 1
  /\ token' = [token EXCEPT ![n] = CurrentToken(n)]
  /\ refresh' = [refresh EXCEPT ![n] = [st |-> "settled", t0 |-> 0, reply |-> NoToken]]
  /\ UNCHANGED <<now, row, process, expire, trig, lastWrite>>
\* The query throws, before or after the database committed: an unexpired
\* token is kept, an expired one dropped, and refreshInFlight is cleared.
RefreshFail(n) ==
  /\ refresh[n].st # "idle"
  /\ outages < MaxOutages
  /\ outages' = outages + 1
  /\ token' = [token EXCEPT ![n] = CurrentToken(n)]
  /\ refresh' = [refresh EXCEPT ![n] = NoRefresh]
  /\ UNCHANGED <<now, row, process, expire, trig, lastWrite>>

\* stop(), from the onClose hook of a SIGTERM: the token is dropped at once
\* and, when there was one, the statement that expires the lease is sent.
Stop(n) ==
  /\ process[n] = "up"
  /\ outages < MaxOutages
  /\ outages' = outages + 1
  /\ token' = [token EXCEPT ![n] = NoToken]
  /\ process' = [process EXCEPT ![n] =
       IF token[n] = NoToken THEN "stopped" ELSE "stopping"]
  /\ expire' = [expire EXCEPT ![n] =
       IF token[n] = NoToken THEN NoExpire
       ELSE [epoch |-> token[n].epoch, t0 |-> now]]
  /\ UNCHANGED <<now, row, refresh, trig, lastWrite>>

\* expireRealtimeLeadership: an update guarded by instance and epoch.
Expire(n) ==
  /\ process[n] = "stopping"
  /\ RowFree
  /\ row' = IF row.leader = n /\ row.epoch = expire[n].epoch
            THEN [row EXCEPT !.expires = expire[n].t0]
            ELSE row
  /\ process' = [process EXCEPT ![n] = "stopped"]
  /\ expire' = [expire EXCEPT ![n] = NoExpire]
  /\ UNCHANGED <<now, token, refresh, trig, lastWrite, outages>>

\* SIGKILL: memory is lost and the database rolls back what was open.
Crash(n) ==
  /\ process[n] # "killed"
  /\ outages < MaxOutages
  /\ outages' = outages + 1
  /\ process' = [process EXCEPT ![n] = "killed"]
  /\ token' = [token EXCEPT ![n] = NoToken]
  /\ refresh' = [refresh EXCEPT ![n] = NoRefresh]
  /\ expire' = [expire EXCEPT ![n] = NoExpire]
  /\ trig' = [trig EXCEPT ![n] = [f \in Families |-> Idle]]
  /\ UNCHANGED <<now, row, lastWrite>>

\* The replica comes back under the same INSTANCE_ID; a stopping one has to
\* finish what it has in flight first (the pool drains before the exit).
Restart(n) ==
  /\ process[n] \in {"stopped", "killed"}
  /\ refresh[n].st = "idle"
  /\ \A f \in Families : trig[n][f].st = "idle"
  /\ process' = [process EXCEPT ![n] = "up"]
  /\ token' = [token EXCEPT ![n] = NoToken]
  /\ UNCHANGED <<now, row, refresh, expire, trig, lastWrite, outages>>

-----------------------------------------------------------------------------
(* The market-triggered transactions.                                      *)

\* An accepted tick captures currentToken() and hands it to the families.
Capture(n, f) ==
  /\ Leads(n)
  /\ trig[n][f].st = "idle"
  /\ trig' = [trig EXCEPT ![n][f] =
       [st |-> "captured", t0 |-> 0, epoch |-> token[n].epoch]]
  /\ UNCHANGED <<now, row, process, token, refresh, expire, lastWrite, outages>>

\* The family opens a transaction for a candidate it found.
Begin(n, f) ==
  /\ trig[n][f].st = "captured"
  /\ trig' = [trig EXCEPT ![n][f] =
       [st |-> "begun", t0 |-> now, epoch |-> trig[n][f].epoch]]
  /\ UNCHANGED <<now, row, process, token, refresh, expire, lastWrite, outages>>

\* The transaction locks the row and proves its epoch, or throws
\* StaleLeadershipError and rolls back.
Assert(n, f) ==
  /\ trig[n][f].st = "begun"
  /\ RowFree
  /\ trig' = [trig EXCEPT ![n][f] =
       IF AssertHolds(n, trig[n][f].epoch, trig[n][f].t0)
       THEN [st |-> "locked", t0 |-> trig[n][f].t0, epoch |-> trig[n][f].epoch]
       ELSE Idle]
  /\ UNCHANGED <<now, row, process, token, refresh, expire, lastWrite, outages>>

\* The mutation commits and the row is released.
Commit(n, f) ==
  /\ trig[n][f].st = "locked"
  /\ lastWrite' = [epoch |-> trig[n][f].epoch, by |-> n]
  /\ trig' = [trig EXCEPT ![n][f] = Idle]
  /\ UNCHANGED <<now, row, process, token, refresh, expire, outages>>

\* Nothing to do for the candidate, or an error: rolled back, row released.
\* The scan may go on to its next candidate with the token it captured.
Abandon(n, f) ==
  /\ trig[n][f].st # "idle"
  /\ trig' = [trig EXCEPT ![n][f] = Idle]
  /\ UNCHANGED <<now, row, process, token, refresh, expire, lastWrite, outages>>

NextCandidate(n, f) ==
  /\ trig[n][f].st = "locked"
  /\ trig' = [trig EXCEPT ![n][f] =
       [st |-> "captured", t0 |-> 0, epoch |-> trig[n][f].epoch]]
  /\ lastWrite' \in {lastWrite, [epoch |-> trig[n][f].epoch, by |-> n]}
  /\ UNCHANGED <<now, row, process, token, refresh, expire, outages>>

Tick == /\ now < MaxTime
        /\ now' = now + 1
        /\ UNCHANGED <<row, process, token, refresh, expire, trig, lastWrite, outages>>

-----------------------------------------------------------------------------
Coordinate(n) == \/ RefreshBegin(n) \/ RefreshCommit(n) \/ RefreshDeliver(n)
                 \/ RefreshFail(n) \/ Stop(n) \/ Expire(n) \/ Crash(n) \/ Restart(n)

Trigger(n, f) == \/ Capture(n, f) \/ Begin(n, f) \/ Assert(n, f)
                 \/ Commit(n, f) \/ Abandon(n, f) \/ NextCandidate(n, f)

Next == \/ Tick
        \/ \E n \in Nodes : Coordinate(n)
        \/ \E n \in Nodes, f \in Families : Trigger(n, f)

Spec == Init /\ [][Next]_vars

\* The timer keeps calling refresh(), the database keeps serving its answers
\* and a transaction, once begun, ends.
Fairness ==
  /\ \A n \in Nodes : /\ WF_vars(RefreshBegin(n))
                     /\ WF_vars(RefreshCommit(n))
                     /\ WF_vars(RefreshDeliver(n))
                     /\ WF_vars(Expire(n))
  /\ \A n \in Nodes, f \in Families : WF_vars(Assert(n, f) \/ Commit(n, f) \/ NextCandidate(n, f))

FairSpec == Spec /\ Fairness

-----------------------------------------------------------------------------
(* Properties.                                                             *)

\* An epoch belongs to one instance for ever: whatever two instances carry,
\* in memory, in an answer on its way or in a transaction, never has the same
\* epoch, nor the epoch another instance holds in the row
\* (acquireOrRenewRealtimeLeadership: renewing keeps it, taking over adds one).
Carried(n) == {token[n].epoch, refresh[n].reply.epoch, expire[n].epoch}
                \cup {trig[n][f].epoch : f \in Families}
EpochHasOneOwner ==
  /\ \A m, n \in Nodes : m # n => Carried(m) \cap Carried(n) \subseteq {0}
  /\ \A n \in Nodes : row.epoch \in Carried(n) \ {0} => row.leader = n

\* With clocks that agree, two running instances never both see themselves as
\* leader through currentToken(), however answers and takeovers interleave.
OneLeader == \A m, n \in Nodes : Leads(m) /\ Leads(n) => m = n

\* The fence: a market-triggered mutation commits only under the epoch and
\* the instance of the row at that moment, whatever the transaction read and
\* however long it waited (assertCurrentLeadershipInTransaction).
Fence == INSTANCE FencedWriter WITH epoch <- row.epoch, holder <- row.leader
Fenced == Fence!Spec

\* An expired lease does not stay expired while an instance runs: the timer's
\* refresh takes it, even after refreshes that failed.
LeaseIsTaken == \A n \in Nodes :
  (process[n] = "up" /\ row.expires <= now) ~> (row.expires > now \/ process[n] # "up")
=============================================================================
