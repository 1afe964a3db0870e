-------------------------- MODULE PoolTransactions --------------------------
(***************************************************************************)
(* query, borrow and transaction over a connection pool: PostgresDriver    *)
(* (packages/driver-postgres/src/index.ts) and MysqlDriver                 *)
(* (packages/driver-mysql/src/index.ts), called through Db.query and       *)
(* Db.transaction (packages/core/src/index.ts).                            *)
(*                                                                         *)
(* A slot is one of the pool's connections with the server session behind  *)
(* it. Statements are writes with an identity; reads are left out. A step  *)
(* is what happens between two awaits; connections die at any moment.      *)
(***************************************************************************)
EXTENDS Integers, FiniteSets

CONSTANTS
  Callers,        \* concurrent callers, one call each at a time
  Slots,          \* connections the pool may open (pg: 10)
  MaxWrites,      \* bound: writes per caller
  AbortsOnError,  \* a failed statement aborts its transaction (Postgres)
  Null

ASSUME PoolOK ==
  /\ Null \notin Callers \cup Slots
  /\ MaxWrites \in Nat
  /\ AbortsOnError \in BOOLEAN

VARIABLES slot, call, made, durable, told

vars == <<slot, call, made, durable, told>>

Writes == Callers \X (1 .. MaxWrites)

\* saved: what was staged at the savepoint, while there is one.
\* tx "unbegun": BEGIN failed, and the client is never released.
Fresh == [holder |-> Null, live |-> TRUE, tx |-> "none", staged |-> {}, saved |-> Null]

\* main: the slot of the query or transaction; inner: the slot of a query the
\* transaction's function makes through db.query. did: the writes the function
\* saw succeed; failed: it saw one fail since; outside: what inner queries wrote.
Idle == [pc |-> "idle", main |-> Null, inner |-> Null, did |-> {}, failed |-> FALSE, outside |-> {}]

\* A statement on slot s gets through.
Works(s) == slot[s].live /\ slot[s].tx # "failed"

CanWrite(c) == made[c] < MaxWrites
NextWrite(c) == <<c, made[c] + 1>>
Issue(c) == made' = [made EXCEPT ![c] = @ + 1]

Go(c, pc) == call' = [call EXCEPT ![c].pc = pc]
At(c, pc) == call[c].pc = pc

Init ==
  /\ slot = [s \in Slots |-> Fresh]
  /\ call = [c \in Callers |-> Idle]
  /\ made = [c \in Callers |-> 0]
  /\ durable = {}
  /\ told = {}

-----------------------------------------------------------------------------
(* The pool and its connections.                                           *)

Waiting == {"connect", "connectTx", "connectHandle", "connectInner"}

Start(c) ==
  /\ At(c, "idle")
  /\ CanWrite(c)
  /\ \/ Go(c, "connect") \/ Go(c, "connectTx")
     \/ AbortsOnError /\ Go(c, "connectHandle")   \* borrow: Postgres alone
  /\ UNCHANGED <<slot, made, durable, told>>

\* pool.connect() resolves: the caller holds the slot from now on.
Connect(c, s) ==
  /\ slot[s].holder = Null
  /\ slot' = [slot EXCEPT ![s].holder = c]
  /\ \/ At(c, "connect") /\ call' = [call EXCEPT ![c].pc = "query", ![c].main = s]
     \/ At(c, "connectTx") /\ call' = [call EXCEPT ![c].pc = "begin", ![c].main = s]
     \/ At(c, "connectHandle") /\ call' = [call EXCEPT ![c].pc = "held", ![c].main = s]
     \/ At(c, "connectInner") /\ call' = [call EXCEPT ![c].pc = "inner", ![c].inner = s]
  /\ UNCHANGED <<made, durable, told>>

\* A new connection is refused; in a transaction its function sees the error.
ConnectFails(c) ==
  /\ call[c].pc \in Waiting
  /\ \E s \in Slots : slot[s].holder = Null
  /\ IF At(c, "connectInner") THEN Go(c, "body") \/ Go(c, "rollback") ELSE call' = [call EXCEPT ![c] = Idle]
  /\ UNCHANGED <<slot, made, durable, told>>

\* A connection dies, and the server rolls its transaction back.
Die(s) ==
  /\ slot[s].live
  /\ slot[s].holder # Null
  /\ slot[s].tx # "unbegun"
  /\ slot' = [slot EXCEPT ![s] = [Fresh EXCEPT !.holder = slot[s].holder, !.live = FALSE]]
  /\ UNCHANGED <<call, made, durable, told>>

\* client.release(): the pool discards a dead connection.
Released(s) == IF slot[s].live THEN [slot EXCEPT ![s].holder = Null] ELSE [slot EXCEPT ![s] = Fresh]

-----------------------------------------------------------------------------
(* query                                                                   *)

\* Outside a transaction a statement is durable when it succeeds, whether or
\* not the answer arrives; the client is released whatever happens.
Execute(c) ==
  LET s == call[c].main
  IN  /\ At(c, "query")
      /\ CanWrite(c)
      /\ slot' = Released(s)
      /\ call' = [call EXCEPT ![c] = Idle]
      /\ Issue(c)
      /\ \/ /\ slot[s].live
            /\ durable' = durable \cup {NextWrite(c)}
            /\ UNCHANGED told \/ told' = told \cup {NextWrite(c)}
         \/ UNCHANGED <<durable, told>>

-----------------------------------------------------------------------------
(* borrow: a handle whose queries share a client until it is released. A   *)
(* handle that was released is not used again (its query would not refuse).*)

QueryHandle(c) ==
  /\ At(c, "held")
  /\ CanWrite(c)
  /\ Issue(c)
  /\ \/ /\ slot[call[c].main].live
        /\ durable' = durable \cup {NextWrite(c)}
        /\ UNCHANGED told \/ told' = told \cup {NextWrite(c)}
     \/ UNCHANGED <<durable, told>>
  /\ UNCHANGED <<slot, call>>

\* The flag `released` makes of a second release() a step that does nothing.
GiveBack(c) ==
  /\ At(c, "held")
  /\ slot' = Released(call[c].main)
  /\ call' = [call EXCEPT ![c] = Idle]
  /\ UNCHANGED <<made, durable, told>>

-----------------------------------------------------------------------------
(* transaction                                                             *)

Begin(c) ==
  /\ At(c, "begin")
  /\ slot[call[c].main].live
  /\ slot' = [slot EXCEPT ![call[c].main].tx = "open"]
  /\ Go(c, "body")
  /\ UNCHANGED <<made, durable, told>>

\* BEGIN is sent outside the try: its failure leaves the client unreleased.
BeginFails(c) ==
  /\ At(c, "begin")
  /\ slot' = [slot EXCEPT ![call[c].main].tx = "unbegun"]
  /\ call' = [call EXCEPT ![c] = Idle]
  /\ UNCHANGED <<made, durable, told>>

\* tx.query in the function.
Write(c) ==
  LET s == call[c].main
  IN  /\ At(c, "body")
      /\ CanWrite(c)
      /\ Works(s)
      /\ slot' = [slot EXCEPT ![s].staged = @ \cup {NextWrite(c)}]
      /\ call' = [call EXCEPT ![c].did = @ \cup {NextWrite(c)}]
      /\ Issue(c)
      /\ UNCHANGED <<durable, told>>

\* The function lets the error through or goes on.
WriteFails(c) ==
  LET s == call[c].main
  IN  /\ At(c, "body")
      /\ CanWrite(c)
      /\ Issue(c)
      /\ slot' = IF AbortsOnError /\ slot[s].live THEN [slot EXCEPT ![s].tx = "failed"] ELSE slot
      /\ \E pc \in {"body", "rollback"} :
           call' = [call EXCEPT ![c].pc = pc, ![c].failed = TRUE]
      /\ UNCHANGED <<durable, told>>

Savepoint(c) ==
  LET s == call[c].main
  IN  /\ At(c, "body")
      /\ Works(s)
      /\ slot[s].saved = Null
      /\ slot' = [slot EXCEPT ![s].saved = slot[s].staged]
      /\ UNCHANGED <<call, made, durable, told>>

\* The savepoint survives; in Postgres this also revives a failed transaction.
RollbackTo(c) ==
  LET s == call[c].main
  IN  /\ At(c, "body")
      /\ slot[s].live
      /\ slot[s].saved # Null
      /\ slot' = [slot EXCEPT ![s].tx = "open", ![s].staged = slot[s].saved]
      /\ call' = [call EXCEPT ![c].did = slot[s].saved, ![c].failed = FALSE]
      /\ UNCHANGED <<made, durable, told>>

ReleaseSavepoint(c) ==
  LET s == call[c].main
  IN  /\ At(c, "body")
      /\ Works(s)
      /\ slot[s].saved # Null
      /\ slot' = [slot EXCEPT ![s].saved = Null]
      /\ UNCHANGED <<call, made, durable, told>>

\* The function calls db.query(table): Db.transaction replaces sql and raw, but
\* not query, which goes to the driver and takes a connection of its own.
QueryOutside(c) ==
  /\ At(c, "body")
  /\ CanWrite(c)
  /\ Go(c, "connectInner")
  /\ UNCHANGED <<slot, made, durable, told>>

ExecuteOutside(c) ==
  LET s == call[c].inner
  IN  /\ At(c, "inner")
      /\ CanWrite(c)
      /\ slot' = Released(s)
      /\ Issue(c)
      /\ \/ /\ slot[s].live
            /\ durable' = durable \cup {NextWrite(c)}
            /\ told' = told \cup {NextWrite(c)}
            /\ call' = [call EXCEPT ![c].pc = "body", ![c].inner = Null,
                                    ![c].outside = @ \cup {NextWrite(c)}]
         \/ /\ \E pc \in {"body", "rollback"} :
                 call' = [call EXCEPT ![c].pc = pc, ![c].inner = Null]
            /\ UNCHANGED <<durable, told>>

\* The function returns, or throws.
Leave(c) ==
  /\ At(c, "body")
  /\ Go(c, "commit") \/ Go(c, "rollback")
  /\ UNCHANGED <<slot, made, durable, told>>

\* Fault: the end of the transaction leaves its savepoint behind.
EndTxKeepsSavepoint(s) == [slot EXCEPT ![s].tx = "none", ![s].staged = {}]

EndTx(s) == [slot EXCEPT ![s].tx = "none", ![s].staged = {}, ![s].saved = Null]

\* COMMIT succeeds. It succeeds in a failed Postgres transaction too, and rolls
\* back: transaction() then resolves although nothing was written, which only a
\* function that goes on after an error can bring about. Such a function is not
\* counted as told.
Acknowledged(c) == IF AbortsOnError /\ call[c].failed THEN {} ELSE call[c].did

Commit(c) ==
  LET s == call[c].main
  IN  /\ At(c, "commit")
      /\ slot[s].live
      /\ durable' = IF slot[s].tx = "failed" THEN durable ELSE durable \cup slot[s].staged
      /\ told' = told \cup Acknowledged(c)
      /\ slot' = EndTx(s)
      /\ Go(c, "release")
      /\ UNCHANGED made

\* Fault: the error of COMMIT is swallowed, and transaction() resolves.
CommitErrorSwallowed(c) ==
  /\ At(c, "commit")
  /\ slot' = EndTx(call[c].main)
  /\ told' = told \cup Acknowledged(c)
  /\ Go(c, "release")
  /\ UNCHANGED <<made, durable>>

\* COMMIT is refused, or the connection dies on the way: before the server has
\* committed, or after.
CommitFails(c) ==
  LET s == call[c].main
  IN  /\ At(c, "commit")
      /\ \/ slot' = EndTx(s) /\ UNCHANGED durable
         \/ /\ slot' = [slot EXCEPT ![s] = [Fresh EXCEPT !.holder = c, !.live = FALSE]]
            /\ \/ UNCHANGED durable
               \/ slot[s].tx = "open" /\ durable' = durable \cup slot[s].staged
      /\ Go(c, "rollback")
      /\ UNCHANGED <<made, told>>

\* Fault: the client goes back without ROLLBACK.
RollbackSkipped(c) ==
  /\ At(c, "rollback")
  /\ Go(c, "release")
  /\ UNCHANGED <<slot, made, durable, told>>

\* Fault: the client is released in the catch, and again in the finally.
RollbackAndRelease(c) ==
  LET s == call[c].main
  IN  /\ At(c, "rollback")
      /\ slot' = [slot EXCEPT ![s] = Fresh]
      /\ Go(c, "release")
      /\ UNCHANGED <<made, durable, told>>

\* Best effort: on a dead connection there is nothing left to roll back.
Rollback(c) ==
  LET s == call[c].main
  IN  /\ At(c, "rollback")
      /\ slot' = EndTx(s)
      /\ Go(c, "release")
      /\ UNCHANGED <<made, durable, told>>

\* Fault: transaction() has no finally.
ReleaseForgotten(c) ==
  /\ At(c, "release")
  /\ call' = [call EXCEPT ![c] = Idle]
  /\ UNCHANGED <<slot, made, durable, told>>

Release(c) ==
  /\ At(c, "release")
  /\ slot' = Released(call[c].main)
  /\ call' = [call EXCEPT ![c] = Idle]
  /\ UNCHANGED <<made, durable, told>>

-----------------------------------------------------------------------------
Body(c) ==
  \/ Write(c) \/ WriteFails(c)
  \/ Savepoint(c) \/ RollbackTo(c) \/ ReleaseSavepoint(c)
  \/ QueryOutside(c) \/ Leave(c)

Proceed(c) ==
  \/ Execute(c) \/ GiveBack(c) \/ Begin(c) \/ BeginFails(c) \/ ExecuteOutside(c)
  \/ Commit(c) \/ CommitFails(c) \/ Rollback(c) \/ Release(c)

Next ==
  \/ \E s \in Slots : Die(s)
  \/ \E c \in Callers, s \in Slots : Connect(c, s)
  \/ \E c \in Callers : Start(c) \/ ConnectFails(c) \/ QueryHandle(c) \/ Body(c) \/ Proceed(c)

Spec == Init /\ [][Next]_vars

\* Statements are answered or fail, a transaction's function ends, whoever
\* borrowed a client gives it back, and pg-pool and mysql2 serve those who wait for a connection in turn.
Fairness ==
  \A c \in Callers :
    /\ WF_vars(Proceed(c))
    /\ SF_vars(Leave(c))
    /\ SF_vars(\E s \in Slots : Connect(c, s))
FairSpec == Spec /\ Fairness

-----------------------------------------------------------------------------
TypeOK ==
  /\ slot \in [Slots -> [holder : Callers \cup {Null}, live : BOOLEAN, tx : {"none", "open", "failed", "unbegun"},
                          staged : SUBSET Writes, saved : (SUBSET Writes) \cup {Null}]]
  /\ call \in [Callers -> [pc : Waiting \cup {"idle", "query", "held", "begin", "body", "inner", "commit",
                                             "rollback", "release"},
                            main : Slots \cup {Null}, inner : Slots \cup {Null},
                            did : SUBSET Writes, failed : BOOLEAN, outside : SUBSET Writes]]
  /\ made \in [Callers -> 0 .. MaxWrites]
  /\ durable \subseteq Writes
  /\ told \subseteq Writes
  /\ \A s \in Slots : slot[s].tx \notin {"open", "failed"} => slot[s].staged = {} /\ slot[s].saved = Null

(* A connection in the pool, or held by a call that has not begun or has   *)
(* ended its transaction, carries no open transaction that the next holder *)
(* would write into, whatever failed before (the finally of transaction).  *)
InTx(c) == call[c].pc \in {"body", "connectInner", "inner", "commit", "rollback"}
PoolClean ==
  \A s \in Slots : slot[s].tx \in {"open", "failed"} => \E c \in Callers : call[c].main = s /\ InTx(c)

(* Two calls never share a connection, and a transaction's own connection  *)
(* is not the one its function's db.query takes.                           *)
Exclusive ==
  \A s \in Slots, c \in Callers :
    /\ s \in {call[c].main, call[c].inner} => slot[s].holder = c
    /\ call[c].main = s => call[c].inner # s

(* Pool slots that no call will ever release: BEGIN failed outside the try *)
(* (driver-postgres/src/index.ts:339, driver-mysql/src/index.ts:370).      *)
Leaked(s) == slot[s].tx = "unbegun"

(* Nothing moves any more: the connections are leaked, or held by          *)
(* transactions whose functions wait for one more.                         *)
Exhausted == \A s \in Slots : Leaked(s) \/ (slot[s].holder # Null /\ At(slot[s].holder, "connectInner"))

(* As long as the pool is not exhausted, whoever waits for a connection    *)
(* gets one or is refused, however many transactions and failures go by.   *)
WaitersServed ==
  []~Exhausted => \A c \in Callers : (call[c].pc \in Waiting) ~> (call[c].pc \notin Waiting)

(* query and transaction keep the drivers' promise: a transaction's writes *)
(* become durable together or not at all, and a call that resolves has     *)
(* written what its function saw succeed, connections lost or not.         *)
Promise == INSTANCE Transactions WITH
  staged <- [c \in Callers |-> IF call[c].main = Null THEN {} ELSE slot[call[c].main].staged]
KeepsPromise == Promise!Spec

(* "all queries use the transaction's connection"                          *)
(* (packages/core/src/index.ts:43-46): nothing that the function of an     *)
(* open transaction has written is durable before the commit.              *)
AllInside == \A c \in Callers : InTx(c) => call[c].outside \cap durable = {}
=============================================================================
