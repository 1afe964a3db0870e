----------------------------- MODULE CacheLock -----------------------------
(***************************************************************************)
(* InProcessLock of packages/cache/src/manager.ts: withLock acquires, runs *)
(* its function and releases, all for one key. acquire and release have no *)
(* await and are one step each. An entry holds its expiry and not its      *)
(* holder, so that release deletes whatever entry is there.                *)
(***************************************************************************)
EXTENDS Integers, FiniteSets

CONSTANTS
  Workers,   \* callers of withLock
  NoLock,    \* no entry, no holder
  LockTtl,   \* ttlMs
  LastMoment \* bound on the clock

ASSUME CacheLockConstantsOK ==
  /\ LockTtl \in Nat \ {0} /\ LastMoment \in Nat
  /\ NoLock \notin Nat /\ NoLock \notin [expires : Nat, holder : Workers]

VARIABLES
  lock,    \* the entry: its expiry, and (history) who acquired it
  within,  \* worker -> when its hold expires, NoLock when not in its function
  moment,  \* Date.now()
  stolen   \* history: a worker has released an entry that was another's
lockVars == <<lock, within, moment, stolen>>

CacheLockInit ==
  /\ lock = NoLock /\ within = [w \in Workers |-> NoLock]
  /\ moment = 0 /\ stolen = FALSE

\* Fault: acquire takes an entry that expires now for a dead one.
CanAcquireEarly == lock # NoLock => moment + 1 >= lock.expires

CanAcquire == lock # NoLock => moment >= lock.expires

\* withLock throws when it cannot acquire.
Acquire(w) ==
  /\ within[w] = NoLock /\ CanAcquire
  /\ lock' = [expires |-> moment + LockTtl, holder |-> w]
  /\ within' = [within EXCEPT ![w] = moment + LockTtl]
  /\ UNCHANGED <<moment, stolen>>

\* The function has returned or thrown.
Release(w) ==
  /\ within[w] # NoLock
  /\ stolen' = (stolen \/ (lock # NoLock /\ lock.holder # w))
  /\ lock' = NoLock
  /\ within' = [within EXCEPT ![w] = NoLock]
  /\ UNCHANGED moment

MomentPasses ==
  /\ moment < LastMoment
  /\ moment' = moment + 1
  /\ UNCHANGED <<lock, within, stolen>>

CacheLockNext == (\E w \in Workers : Acquire(w) \/ Release(w)) \/ MomentPasses

CacheLockSpec == CacheLockInit /\ [][CacheLockNext]_lockVars

-----------------------------------------------------------------------------
CacheLockTypeOK ==
  /\ lock = NoLock \/ lock \in [expires : Nat, holder : Workers]
  /\ \A w \in Workers : within[w] = NoLock \/ within[w] \in Nat
  /\ moment \in 0 .. LastMoment /\ stolen \in BOOLEAN

Inside == {w \in Workers : within[w] # NoLock}

(* Two workers hold the lock at once only when one of them has stayed past *)
(* its ttl, or one that had done so has released the entry of another; and *)
(* the entry is gone when the last one leaves (manager.ts:50 finally).     *)
LockExcludes ==
  /\ \A v, w \in Inside : v # w => \/ moment >= within[v] \/ moment >= within[w]
                                   \/ stolen
  /\ Inside = {} => lock = NoLock
=============================================================================
