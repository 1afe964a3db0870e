----------------------- MODULE PoolTransactionsProofs -----------------------
(* PoolTransactions keeps connections apart and clean, and implements      *)
(* Transactions, for any number of callers, connections and writes.        *)
EXTENDS PoolTransactions, TLAPS

SlotType == [holder : Callers \cup {Null}, live : BOOLEAN,
             tx : {"none", "open", "failed", "unbegun"},
             staged : SUBSET Writes, saved : (SUBSET Writes) \cup {Null}]
PCs == {"idle", "connect", "connectTx", "connectHandle", "connectInner", "query", "held", "begin", "body", "inner",
        "commit", "rollback", "release"}
CallType == [pc : PCs, main : Slots \cup {Null}, inner : Slots \cup {Null},
             did : SUBSET Writes, failed : BOOLEAN, outside : SUBSET Writes]

(* A call has a connection of its own from connect() to release(), and a   *)
(* second one only while its function queries the database directly.       *)
Places ==
  \A c \in Callers :
    /\ call[c].pc \in {"idle", "connect", "connectTx", "connectHandle"} <=> call[c].main = Null
    /\ call[c].pc = "inner" <=> call[c].inner # Null

(* Nothing has been written before BEGIN; from then to the end, what the   *)
(* function saw succeed is staged on its connection, unless that died or   *)
(* the transaction was aborted by a failure the function saw.              *)
Seen ==
  \A c \in Callers :
    /\ call[c].pc \in {"idle", "connect", "connectTx", "connectHandle", "query", "held", "begin"} => call[c].did = {}
    /\ call[c].pc \in {"body", "connectInner", "inner", "commit"} /\ slot[call[c].main].live =>
         /\ slot[call[c].main].tx \in {"open", "failed"}
         /\ slot[call[c].main].tx = "failed" => AbortsOnError /\ call[c].failed
         /\ ~(AbortsOnError /\ call[c].failed) => call[c].did \subseteq slot[call[c].main].staged

(* A connection without a transaction has nothing staged, and a savepoint  *)
(* is a part of what is staged.                                            *)
Unused == \A s \in Slots : slot[s].tx \notin {"open", "failed"} => slot[s].staged = {} /\ slot[s].saved = Null
Savepoints == \A s \in Slots : slot[s].saved # Null => slot[s].saved \subseteq slot[s].staged

Types ==
  /\ slot \in [Slots -> SlotType]
  /\ call \in [Callers -> CallType]
  /\ made \in [Callers -> 0 .. MaxWrites]
  /\ durable \subseteq Writes
  /\ told \subseteq Writes

IInv == Types /\ Unused /\ Places /\ Exclusive /\ PoolClean /\ Seen /\ Savepoints

-----------------------------------------------------------------------------
LEMMA TypesOK == Types /\ Unused <=> TypeOK
BY DEF TypeOK, Types, SlotType, CallType, PCs, Waiting, Unused

LEMMA Records == Fresh \in SlotType /\ Idle \in CallType
<1>1. Fresh \in SlotType
  BY DEF Fresh, SlotType
<1>2. Idle \in CallType
  BY DEF Idle, CallType, PCs
<1> QED
  BY <1>1, <1>2

LEMMA InitIInv == Init => IInv
<1> SUFFICES ASSUME Init PROVE IInv
  OBVIOUS
<1>1. Types
  BY PoolOK, Records DEF Init, Types
<1>4. Unused
  BY DEF Init, Unused, Fresh
<1>2. Places /\ Exclusive
  BY PoolOK DEF Init, Places, Exclusive, Fresh, Idle
<1>3. PoolClean /\ Seen /\ Savepoints
  BY PoolOK DEF Init, PoolClean, Seen, Savepoints, Fresh, Idle
<1> QED
  BY <1>1, <1>2, <1>3, <1>4 DEF IInv

(* A connection in hand has one holder, and its caller is in one place.    *)
LEMMA InHand ==
  ASSUME IInv, NEW c \in Callers, call[c].pc \notin {"idle", "connect", "connectTx", "connectHandle"}
  PROVE  /\ call[c].main \in Slots
         /\ slot[call[c].main].holder = c
         /\ \A d \in Callers : call[d].main = call[c].main \/ call[d].inner = call[c].main => d = c
         /\ call[c].inner # call[c].main
<1>1. call[c].main \in Slots
  BY DEF IInv, Types, CallType, Places
<1> QED
  BY <1>1 DEF IInv, Exclusive

(* The writes a caller issues are new to it and within the bound.          *)
LEMMA Issued ==
  ASSUME Types, NEW c \in Callers, CanWrite(c)
  PROVE  /\ NextWrite(c) \in Writes
         /\ Issue(c) => made' \in [Callers -> 0 .. MaxWrites]
BY PoolOK DEF Types, CanWrite, Issue, NextWrite, Writes

(* What release() and the end of a transaction do to the connections.      *)
LEMMA Slotwise ==
  ASSUME Types, NEW s \in Slots
  PROVE  /\ Released(s) \in [Slots -> SlotType]
         /\ EndTx(s) \in [Slots -> SlotType]
         /\ \A r \in Slots \ {s} : Released(s)[r] = slot[r] /\ EndTx(s)[r] = slot[r]
         /\ slot[s].live => /\ Released(s)[s].holder = Null /\ Released(s)[s].tx = slot[s].tx
                            /\ Released(s)[s].staged = slot[s].staged
                            /\ Released(s)[s].saved = slot[s].saved
         /\ ~slot[s].live => Released(s)[s] = Fresh
         /\ EndTx(s)[s].holder = slot[s].holder /\ EndTx(s)[s].live = slot[s].live
         /\ EndTx(s)[s].tx = "none" /\ EndTx(s)[s].staged = {} /\ EndTx(s)[s].saved = Null
<1>1. Released(s) \in [Slots -> SlotType]
  BY Records DEF Types, Released, SlotType
<1>2. EndTx(s) \in [Slots -> SlotType]
  <2> DEFINE ended == [[[slot[s] EXCEPT !.tx = "none"] EXCEPT !.staged = {}] EXCEPT !.saved = Null]
  <2>1. slot[s] \in SlotType
    BY DEF Types
  <2>2. ended \in SlotType
    BY <2>1 DEF SlotType
  <2>3. EndTx(s) = [slot EXCEPT ![s] = ended]
    BY DEF Types, EndTx
  <2> QED
    BY <2>2, <2>3 DEF Types
<1>3. \A r \in Slots \ {s} : Released(s)[r] = slot[r] /\ EndTx(s)[r] = slot[r]
  BY DEF Types, Released, EndTx
<1>4. /\ slot[s].live => /\ Released(s)[s].holder = Null /\ Released(s)[s].tx = slot[s].tx
                        /\ Released(s)[s].staged = slot[s].staged
                        /\ Released(s)[s].saved = slot[s].saved
      /\ ~slot[s].live => Released(s)[s] = Fresh
  <2>1. slot[s] \in SlotType
    BY DEF Types
  <2>2. CASE slot[s].live
    <3>1. Released(s)[s] = [slot[s] EXCEPT !.holder = Null]
      BY <2>2 DEF Types, Released
    <3> QED
      BY <2>1, <2>2, <3>1 DEF SlotType
  <2>3. CASE ~slot[s].live
    BY <2>3 DEF Types, Released
  <2> QED
    BY <2>2, <2>3
<1>5. /\ EndTx(s)[s].holder = slot[s].holder /\ EndTx(s)[s].live = slot[s].live
      /\ EndTx(s)[s].tx = "none" /\ EndTx(s)[s].staged = {} /\ EndTx(s)[s].saved = Null
  <2>1. slot[s] \in SlotType
    BY DEF Types
  <2>2. EndTx(s)[s] = [[[slot[s] EXCEPT !.tx = "none"] EXCEPT !.staged = {}] EXCEPT !.saved = Null]
    BY DEF Types, EndTx
  <2> QED
    BY <2>1, <2>2 DEF SlotType
<1> QED
  BY <1>1, <1>2, <1>3, <1>4, <1>5

-----------------------------------------------------------------------------
(* A step that moves one caller on and touches no connection.              *)
LEMMA MoveStep ==
  ASSUME IInv, NEW c \in Callers, Start(c) \/ ConnectFails(c) \/ Leave(c) \/ QueryOutside(c)
  PROVE  IInv'
<1>1. /\ UNCHANGED <<slot, made, durable, told>>
      /\ \/ At(c, "idle") /\ (Go(c, "connect") \/ Go(c, "connectTx") \/ Go(c, "connectHandle"))
         \/ call[c].pc \in {"connect", "connectTx", "connectHandle"} /\ call' = [call EXCEPT ![c] = Idle]
         \/ At(c, "connectInner") /\ (Go(c, "body") \/ Go(c, "rollback"))
         \/ At(c, "body") /\ (Go(c, "commit") \/ Go(c, "rollback") \/ Go(c, "connectInner"))
  BY DEF Start, ConnectFails, Leave, QueryOutside, Waiting, At
<1>2. Types' /\ Unused'
  <2>1. call' \in [Callers -> CallType]
    BY <1>1, Records DEF IInv, Types, Go, CallType, PCs
  <2> QED
    BY <1>1, <2>1 DEF IInv, Types, Unused
<1>3. Places'
  BY <1>1 DEF IInv, Types, Places, Go, At, CallType, Idle
<1>4. Exclusive'
  BY <1>1, PoolOK DEF IInv, Types, Exclusive, Go, CallType, Idle
<1>5. PoolClean'
  BY <1>1 DEF IInv, Types, Places, PoolClean, InTx, Go, At, CallType, Idle
<1>6. Seen'
  <2>1. \A d \in Callers \ {c} : call'[d] = call[d]
    BY <1>1 DEF IInv, Types, Go
  <2>2. \/ call'[c] = Idle
        \/ /\ call'[c].main = call[c].main /\ call'[c].did = call[c].did
           /\ call'[c].failed = call[c].failed
           /\ \/ call[c].pc = "idle" /\ call'[c].pc \in {"connect", "connectTx", "connectHandle"}
              \/ /\ call[c].pc \in {"body", "connectInner"}
                 /\ call'[c].pc \in {"body", "connectInner", "commit", "rollback"}
    BY <1>1 DEF IInv, Types, Go, At, CallType
  <2> QED
    BY <1>1, <2>1, <2>2 DEF IInv, Seen, Idle
<1>7. Savepoints'
  BY <1>1 DEF IInv, Savepoints
<1> QED
  BY <1>2, <1>3, <1>4, <1>5, <1>6, <1>7 DEF IInv

(* The server rolls back what a dying connection had staged.               *)
LEMMA DieStep ==
  ASSUME IInv, NEW s \in Slots, Die(s)
  PROVE  IInv'
<1>1. /\ UNCHANGED <<call, made, durable, told>>
      /\ slot' \in [Slots -> SlotType]
      /\ \A r \in Slots \ {s} : slot'[r] = slot[r]
      /\ slot'[s].holder = slot[s].holder /\ ~slot'[s].live /\ slot'[s].tx = "none"
      /\ slot'[s].staged = {} /\ slot'[s].saved = Null
  BY Records DEF IInv, Types, Die, Fresh, SlotType
<1>2. Types' /\ Unused'
  BY <1>1 DEF IInv, Types, Unused
<1>3. Places' /\ Exclusive'
  BY <1>1 DEF IInv, Places, Exclusive
<1>4. PoolClean'
  BY <1>1 DEF IInv, PoolClean, InTx
<1>5. Seen'
  BY <1>1, InHand DEF IInv, Seen
<1>6. Savepoints'
  BY <1>1 DEF IInv, Savepoints
<1> QED
  BY <1>2, <1>3, <1>4, <1>5, <1>6 DEF IInv

(* A free connection is in nobody's hand, so it carries no transaction.    *)
LEMMA ConnectStep ==
  ASSUME IInv, NEW c \in Callers, NEW s \in Slots, Connect(c, s)
  PROVE  IInv'
<1>1. /\ UNCHANGED <<made, durable, told>>
      /\ slot[s].holder = Null
      /\ slot' = [slot EXCEPT ![s].holder = c]
      /\ slot' \in [Slots -> SlotType]
  BY DEF IInv, Types, Connect, SlotType
<1>2. /\ \A r \in Slots \ {s} : slot'[r] = slot[r]
      /\ slot'[s].holder = c /\ slot'[s].live = slot[s].live /\ slot'[s].tx = slot[s].tx
      /\ slot'[s].staged = slot[s].staged /\ slot'[s].saved = slot[s].saved
  BY <1>1 DEF IInv, Types, SlotType
<1>3. \A d \in Callers : call[d].main # s /\ call[d].inner # s
  BY <1>1, PoolOK DEF IInv, Exclusive
<1>4. /\ \A d \in Callers \ {c} : call'[d] = call[d]
      /\ call'[c].did = call[c].did /\ call'[c].failed = call[c].failed
      /\ \/ /\ call[c].pc \in {"connect", "connectTx", "connectHandle"}
            /\ call'[c].main = s /\ call'[c].inner = call[c].inner
            /\ call'[c].pc \in {"query", "held", "begin"}
         \/ /\ call[c].pc = "connectInner"
            /\ call'[c].inner = s /\ call'[c].main = call[c].main /\ call'[c].pc = "inner"
  BY DEF IInv, Types, Connect, At, CallType
<1>5. call' \in [Callers -> CallType]
  <2>1. PICK pc \in {"query", "begin", "held", "inner"} :
          \/ call' = [call EXCEPT ![c].pc = pc, ![c].main = s]
          \/ call' = [call EXCEPT ![c].pc = pc, ![c].inner = s]
    BY DEF Connect
  <2>2. pc \in PCs
    BY DEF PCs
  <2>3. call[c] \in CallType
    BY DEF IInv, Types
  <2>4. [call[c] EXCEPT !.pc = pc, !.main = s] \in CallType
    BY <2>2, <2>3 DEF CallType
  <2>5. [call[c] EXCEPT !.pc = pc, !.inner = s] \in CallType
    BY <2>2, <2>3 DEF CallType
  <2> QED
    BY <2>1, <2>4, <2>5 DEF IInv, Types
<1>6. Types' /\ Unused'
  BY <1>1, <1>2, <1>5 DEF IInv, Types, Unused
<1>7. Places'
  BY <1>4, PoolOK DEF IInv, Places
<1>8. Exclusive'
  BY <1>2, <1>3, <1>4, PoolOK DEF IInv, Places, Exclusive
<1>9. PoolClean'
  BY <1>2, <1>3, <1>4 DEF IInv, PoolClean, InTx
<1>10. Seen'
  BY <1>2, <1>3, <1>4, InHand DEF IInv, Seen
<1>11. Savepoints'
  BY <1>2 DEF IInv, Savepoints
<1> QED
  BY <1>6, <1>7, <1>8, <1>9, <1>10, <1>11 DEF IInv

(* The client is released: by a query, by whoever borrowed it, or at the   *)
(* end of a transaction.                                                   *)
LEMMA ReleaseStep ==
  ASSUME IInv, NEW c \in Callers, Execute(c) \/ GiveBack(c) \/ Release(c)
  PROVE  IInv'
<1> DEFINE s == call[c].main
<1>1. /\ call[c].pc \in {"query", "held", "release"}
      /\ slot' = Released(s)
      /\ call' = [call EXCEPT ![c] = Idle]
  BY DEF Execute, GiveBack, Release, At
<1>2. made' \in [Callers -> 0 .. MaxWrites] /\ durable' \subseteq Writes /\ told' \subseteq Writes
  <2>1. CASE GiveBack(c) \/ Release(c)
    BY <2>1 DEF IInv, Types, GiveBack, Release
  <2>2. CASE Execute(c)
    BY <2>2, Issued DEF IInv, Types, Execute
  <2> QED
    BY <2>1, <2>2
<1>3. /\ s \in Slots
      /\ call[c].inner = Null
      /\ slot[s].holder = c
      /\ \A d \in Callers \ {c} : call[d].main # s /\ call[d].inner # s
  BY <1>1, InHand DEF IInv, Places
<1>4. slot[s].tx \notin {"open", "failed"}
  BY <1>1, <1>3 DEF IInv, PoolClean, InTx
<1>5. /\ slot' \in [Slots -> SlotType]
      /\ \A r \in Slots \ {s} : slot'[r] = slot[r]
      /\ slot'[s].tx \notin {"open", "failed"} /\ slot'[s].staged = {} /\ slot'[s].saved = Null
  <2>1. /\ slot' \in [Slots -> SlotType]
        /\ \A r \in Slots \ {s} : slot'[r] = slot[r]
        /\ slot[s].live => /\ slot'[s].tx = slot[s].tx
                           /\ slot'[s].staged = slot[s].staged
                           /\ slot'[s].saved = slot[s].saved
        /\ ~slot[s].live => slot'[s] = Fresh
    BY <1>1, <1>3, Slotwise DEF IInv
  <2>2. CASE slot[s].live
    BY <1>3, <1>4, <2>1, <2>2 DEF IInv, Unused
  <2>3. CASE ~slot[s].live
    BY <2>1, <2>3 DEF Fresh
  <2> QED
    BY <2>1, <2>2, <2>3
<1>6. /\ call' \in [Callers -> CallType]
      /\ call'[c] = Idle
      /\ \A d \in Callers \ {c} : call'[d] = call[d]
  BY <1>1, Records DEF IInv, Types
<1>7. Types' /\ Unused'
  BY <1>2, <1>5, <1>6 DEF IInv, Types, Unused
<1>8. Places' /\ Exclusive'
  BY <1>3, <1>5, <1>6, PoolOK DEF IInv, Places, Exclusive, Idle
<1>9. PoolClean'
  BY <1>1, <1>5, <1>6 DEF IInv, PoolClean, InTx, Idle
<1>10. Seen'
  BY <1>3, <1>5, <1>6, InHand DEF IInv, Seen, Idle
<1>11. Savepoints'
  BY <1>5 DEF IInv, Savepoints
<1> QED
  BY <1>7, <1>8, <1>9, <1>10, <1>11 DEF IInv

(* A query of a borrowed client changes what is durable, and nothing else. *)
LEMMA HandleStep ==
  ASSUME IInv, NEW c \in Callers, QueryHandle(c)
  PROVE  IInv'
<1>1. UNCHANGED <<slot, call>>
  BY DEF QueryHandle
<1>2. /\ made' \in [Callers -> 0 .. MaxWrites] /\ durable' \subseteq Writes /\ told' \subseteq Writes
  BY Issued DEF IInv, Types, QueryHandle
<1> QED
  BY <1>1, <1>2 DEF IInv, Types, Unused, Places, Exclusive, PoolClean, InTx, Seen, Savepoints

(* The second connection of a transaction's caller is released.            *)
LEMMA OutsideStep ==
  ASSUME IInv, NEW c \in Callers, ExecuteOutside(c)
  PROVE  IInv'
<1> DEFINE s == call[c].inner
<1>1. /\ call[c].pc = "inner"
      /\ slot' = Released(s)
      /\ call'[c].pc \in {"body", "rollback"}
      /\ call'[c].inner = Null /\ call'[c].main = call[c].main
      /\ call'[c].did = call[c].did /\ call'[c].failed = call[c].failed
      /\ \A d \in Callers \ {c} : call'[d] = call[d]
  BY DEF IInv, Types, CallType, ExecuteOutside, At
<1>2. /\ made' \in [Callers -> 0 .. MaxWrites] /\ durable' \subseteq Writes /\ told' \subseteq Writes
      /\ call' \in [Callers -> CallType]
  BY Issued DEF IInv, Types, CallType, PCs, ExecuteOutside
<1>3. /\ s \in Slots
      /\ slot[s].holder = c
      /\ call[c].main # s
      /\ \A d \in Callers \ {c} : call[d].main # s /\ call[d].inner # s
  BY <1>1, InHand DEF IInv, Types, CallType, Places, Exclusive
<1>4. slot[s].tx \notin {"open", "failed"}
  BY <1>3 DEF IInv, PoolClean
<1>5. /\ slot' \in [Slots -> SlotType]
      /\ \A r \in Slots \ {s} : slot'[r] = slot[r]
      /\ slot'[s].tx \notin {"open", "failed"} /\ slot'[s].staged = {} /\ slot'[s].saved = Null
  <2>1. /\ slot' \in [Slots -> SlotType]
        /\ \A r \in Slots \ {s} : slot'[r] = slot[r]
        /\ slot[s].live => /\ slot'[s].tx = slot[s].tx
                           /\ slot'[s].staged = slot[s].staged
                           /\ slot'[s].saved = slot[s].saved
        /\ ~slot[s].live => slot'[s] = Fresh
    BY <1>1, <1>3, Slotwise DEF IInv
  <2>2. CASE slot[s].live
    BY <1>3, <1>4, <2>1, <2>2 DEF IInv, Unused
  <2>3. CASE ~slot[s].live
    BY <2>1, <2>3 DEF Fresh
  <2> QED
    BY <2>1, <2>2, <2>3
<1>6. Types' /\ Unused'
  BY <1>2, <1>5 DEF IInv, Types, Unused
<1>7. Places'
  BY <1>1 DEF IInv, Places
<1>8. Exclusive'
  BY <1>1, <1>3, <1>5, PoolOK DEF IInv, Exclusive
<1>9. PoolClean'
  BY <1>1, <1>5 DEF IInv, PoolClean, InTx
<1>10. Seen'
  BY <1>1, <1>3, <1>5, InHand DEF IInv, Seen
<1>11. Savepoints'
  BY <1>5 DEF IInv, Savepoints
<1> QED
  BY <1>6, <1>7, <1>8, <1>9, <1>10, <1>11 DEF IInv

(* A step of a transaction that changes its own connection alone.          *)
LEMMA OwnStep ==
  ASSUME IInv, NEW c \in Callers,
         call[c].pc \in {"begin", "body", "commit", "rollback"},
         made' \in [Callers -> 0 .. MaxWrites], durable' \subseteq Writes, told' \subseteq Writes,
         slot' \in [Slots -> SlotType],
         \A r \in Slots \ {call[c].main} : slot'[r] = slot[r],
         slot'[call[c].main].holder = slot[call[c].main].holder,
         call' \in [Callers -> CallType],
         \A d \in Callers \ {c} : call'[d] = call[d],
         call'[c].main = call[c].main, call'[c].inner = call[c].inner,
         call'[c].pc \in {"body", "rollback", "release"},
         slot'[call[c].main].tx \in {"open", "failed"} => call'[c].pc \in {"body", "rollback"},
         slot'[call[c].main].tx \notin {"open", "failed"} =>
           slot'[call[c].main].staged = {} /\ slot'[call[c].main].saved = Null,
         slot'[call[c].main].saved # Null => slot'[call[c].main].saved \subseteq slot'[call[c].main].staged,
         call'[c].pc = "body" /\ slot'[call[c].main].live =>
           /\ slot'[call[c].main].tx \in {"open", "failed"}
           /\ slot'[call[c].main].tx = "failed" => AbortsOnError /\ call'[c].failed
           /\ ~(AbortsOnError /\ call'[c].failed) => call'[c].did \subseteq slot'[call[c].main].staged
  PROVE  IInv'
<1> DEFINE s == call[c].main
<1>1. /\ s \in Slots
      /\ slot[s].holder = c
      /\ call[c].inner = Null
      /\ \A d \in Callers \ {c} : call[d].main # s /\ call[d].inner # s
  BY InHand DEF IInv, Places
<1>2. Types' /\ Unused'
  BY DEF IInv, Types, Unused
<1>3. Places'
  BY <1>1, PoolOK DEF IInv, Places
<1>4. Exclusive'
  BY <1>1, PoolOK DEF IInv, Exclusive
<1>5. PoolClean'
  BY <1>1 DEF IInv, PoolClean, InTx
<1>6. Seen'
  BY <1>1, InHand DEF IInv, Seen
<1>7. Savepoints'
  BY DEF IInv, Savepoints
<1> QED
  BY <1>2, <1>3, <1>4, <1>5, <1>6, <1>7 DEF IInv

(* BEGIN: nothing has been staged and nothing seen yet.                    *)
LEMMA BeginStep ==
  ASSUME IInv, NEW c \in Callers, Begin(c)
  PROVE  IInv'
<1> DEFINE s == call[c].main
<1>1. /\ call[c].pc = "begin"
      /\ slot[s].live
      /\ slot' = [slot EXCEPT ![s].tx = "open"]
      /\ call' = [call EXCEPT ![c].pc = "body"]
      /\ UNCHANGED <<made, durable, told>>
  BY DEF Begin, At, Go
<1>2. s \in Slots /\ slot[s] \in SlotType /\ call[c].did = {}
  BY <1>1, InHand DEF IInv, Types, Seen
<1>3. /\ slot' \in [Slots -> SlotType]
      /\ \A r \in Slots \ {s} : slot'[r] = slot[r]
      /\ slot'[s].holder = slot[s].holder /\ slot'[s].tx = "open"
      /\ slot'[s].staged = slot[s].staged /\ slot'[s].saved = slot[s].saved
  BY <1>1, <1>2 DEF IInv, Types, SlotType
<1>4. /\ call' \in [Callers -> CallType]
      /\ \A d \in Callers \ {c} : call'[d] = call[d]
      /\ call'[c].main = s /\ call'[c].inner = call[c].inner /\ call'[c].pc = "body"
      /\ call'[c].did = {}
  BY <1>1, <1>2 DEF IInv, Types, CallType, PCs
<1>5. slot'[s].saved # Null => slot'[s].saved \subseteq slot'[s].staged
  BY <1>2, <1>3 DEF IInv, Savepoints
<1>6. made' \in [Callers -> 0 .. MaxWrites] /\ durable' \subseteq Writes /\ told' \subseteq Writes
  BY <1>1 DEF IInv, Types
<1> QED
  BY <1>1, <1>3, <1>4, <1>5, <1>6, OwnStep

(* A failed BEGIN leaves the connection with its holder, and the call ends. *)
LEMMA BeginFailsStep ==
  ASSUME IInv, NEW c \in Callers, BeginFails(c)
  PROVE  IInv'
<1> DEFINE s == call[c].main
<1>1. /\ call[c].pc = "begin"
      /\ slot' = [slot EXCEPT ![s].tx = "unbegun"]
      /\ call' = [call EXCEPT ![c] = Idle]
      /\ UNCHANGED <<made, durable, told>>
  BY DEF BeginFails, At
<1>2. /\ s \in Slots /\ slot[s] \in SlotType
      /\ call[c].inner = Null
      /\ \A d \in Callers \ {c} : call[d].main # s /\ call[d].inner # s
  BY <1>1, InHand DEF IInv, Types, Places
<1>3. slot[s].tx \notin {"open", "failed"}
  BY <1>1, <1>2 DEF IInv, PoolClean, InTx
<1>4. /\ slot' \in [Slots -> SlotType]
      /\ \A r \in Slots \ {s} : slot'[r] = slot[r]
      /\ slot'[s].tx = "unbegun"
      /\ slot'[s].staged = slot[s].staged /\ slot'[s].saved = slot[s].saved
  BY <1>1, <1>2 DEF IInv, Types, SlotType
<1>5. slot'[s].staged = {} /\ slot'[s].saved = Null
  BY <1>2, <1>3, <1>4 DEF IInv, Unused
<1>6. /\ call' \in [Callers -> CallType]
      /\ call'[c] = Idle
      /\ \A d \in Callers \ {c} : call'[d] = call[d]
  BY <1>1, Records DEF IInv, Types
<1>7. Types' /\ Unused'
  BY <1>1, <1>4, <1>5, <1>6 DEF IInv, Types, Unused
<1>8. Places' /\ Exclusive'
  BY <1>2, <1>4, <1>6, PoolOK DEF IInv, Places, Exclusive, Idle
<1>9. PoolClean'
  BY <1>1, <1>4, <1>6 DEF IInv, PoolClean, InTx, Idle
<1>10. Seen'
  BY <1>2, <1>4, <1>6, InHand DEF IInv, Seen, Idle
<1>11. Savepoints'
  BY <1>4, <1>5 DEF IInv, Savepoints
<1> QED
  BY <1>7, <1>8, <1>9, <1>10, <1>11 DEF IInv

(* The end of a transaction, its commit refused or lost included.          *)
LEMMA EndStep ==
  ASSUME IInv, NEW c \in Callers, Commit(c) \/ CommitFails(c) \/ Rollback(c)
  PROVE  IInv'
<1> DEFINE s == call[c].main
           Dead == [Fresh EXCEPT !.holder = c, !.live = FALSE]
<1>1. /\ call[c].pc \in {"commit", "rollback"}
      /\ slot' = EndTx(s) \/ slot' = [slot EXCEPT ![s] = Dead]
      /\ Go(c, "rollback") \/ Go(c, "release")
      /\ UNCHANGED made
  BY DEF Commit, CommitFails, Rollback, At
<1>2. s \in Slots /\ slot[s] \in SlotType /\ slot[s].holder = c
  BY <1>1, InHand DEF IInv, Types
<1>3. /\ slot' \in [Slots -> SlotType]
      /\ \A r \in Slots \ {s} : slot'[r] = slot[r]
      /\ slot'[s].holder = slot[s].holder /\ slot'[s].tx = "none"
      /\ slot'[s].staged = {} /\ slot'[s].saved = Null
  <2>1. CASE slot' = EndTx(s)
    BY <1>2, <2>1, Slotwise DEF IInv
  <2>2. CASE slot' = [slot EXCEPT ![s] = Dead]
    <3>1. /\ Dead \in SlotType
          /\ Dead.holder = c /\ Dead.tx = "none" /\ Dead.staged = {} /\ Dead.saved = Null
      BY DEF Fresh, SlotType
    <3> HIDE DEF Dead
    <3> QED
      BY <1>2, <2>2, <3>1 DEF IInv, Types
  <2> QED
    BY <1>1, <2>1, <2>2
<1>4. /\ call' \in [Callers -> CallType]
      /\ \A d \in Callers \ {c} : call'[d] = call[d]
      /\ call'[c].main = s /\ call'[c].inner = call[c].inner
      /\ call'[c].pc \in {"rollback", "release"}
  BY <1>1 DEF IInv, Types, Go, CallType, PCs
<1>5. durable' \subseteq Writes /\ told' \subseteq Writes
  <2>1. slot[s].staged \subseteq Writes /\ Acknowledged(c) \subseteq Writes
    BY <1>2 DEF IInv, Types, Acknowledged, SlotType, CallType
  <2> QED
    BY <2>1 DEF IInv, Types, Commit, CommitFails, Rollback
<1>6. made' \in [Callers -> 0 .. MaxWrites]
  BY <1>1 DEF IInv, Types
<1> QED
  BY <1>1, <1>3, <1>4, <1>5, <1>6, OwnStep

LEMMA WriteStep ==
  ASSUME IInv, NEW c \in Callers, Write(c)
  PROVE  IInv'
<1> DEFINE s == call[c].main
           w == NextWrite(c)
<1>1. /\ call[c].pc = "body" /\ slot[s].live /\ slot[s].tx # "failed"
      /\ slot' = [slot EXCEPT ![s].staged = @ \cup {w}]
      /\ call' = [call EXCEPT ![c].did = @ \cup {w}]
      /\ UNCHANGED <<durable, told>>
  BY DEF Write, At, Works
<1>2. s \in Slots /\ slot[s] \in SlotType /\ call[c] \in CallType
  BY <1>1, InHand DEF IInv, Types
<1>3. w \in Writes /\ made' \in [Callers -> 0 .. MaxWrites]
  BY Issued DEF IInv, Write
<1> HIDE DEF w
<1>4. /\ slot' \in [Slots -> SlotType]
      /\ \A r \in Slots \ {s} : slot'[r] = slot[r]
      /\ slot'[s].holder = slot[s].holder /\ slot'[s].tx = slot[s].tx /\ slot'[s].live
      /\ slot'[s].staged = slot[s].staged \cup {w} /\ slot'[s].saved = slot[s].saved
  BY <1>1, <1>2, <1>3 DEF IInv, Types, SlotType
<1>5. /\ call' \in [Callers -> CallType]
      /\ \A d \in Callers \ {c} : call'[d] = call[d]
      /\ call'[c].main = s /\ call'[c].inner = call[c].inner /\ call'[c].pc = "body"
      /\ call'[c].failed = call[c].failed /\ call'[c].did = call[c].did \cup {w}
  BY <1>1, <1>2, <1>3 DEF IInv, Types, CallType
<1>6. /\ slot[s].tx = "open"
      /\ ~(AbortsOnError /\ call[c].failed) => call[c].did \subseteq slot[s].staged
      /\ slot[s].saved # Null => slot[s].saved \subseteq slot[s].staged
  BY <1>1, <1>2 DEF IInv, Seen, Savepoints
<1>7. durable' \subseteq Writes /\ told' \subseteq Writes
  BY <1>1 DEF IInv, Types
<1>8. /\ slot'[s].tx \in {"open", "failed"} => call'[c].pc \in {"body", "rollback"}
      /\ slot'[s].tx \notin {"open", "failed"} => slot'[s].staged = {} /\ slot'[s].saved = Null
      /\ slot'[s].saved # Null => slot'[s].saved \subseteq slot'[s].staged
      /\ call'[c].pc = "body" /\ slot'[s].live =>
           /\ slot'[s].tx \in {"open", "failed"}
           /\ slot'[s].tx = "failed" => AbortsOnError /\ call'[c].failed
           /\ ~(AbortsOnError /\ call'[c].failed) => call'[c].did \subseteq slot'[s].staged
  BY <1>4, <1>5, <1>6
<1> QED
  BY <1>1, <1>3, <1>4, <1>5, <1>7, <1>8, OwnStep

(* An error the function sees is remembered; Postgres aborts.              *)
LEMMA WriteFailsStep ==
  ASSUME IInv, NEW c \in Callers, WriteFails(c)
  PROVE  IInv'
<1> DEFINE s == call[c].main
<1>1. /\ call[c].pc = "body"
      /\ slot' = IF AbortsOnError /\ slot[s].live THEN [slot EXCEPT ![s].tx = "failed"] ELSE slot
      /\ UNCHANGED <<durable, told>>
  BY DEF WriteFails, At
<1>2. s \in Slots /\ slot[s] \in SlotType /\ call[c] \in CallType
  BY <1>1, InHand DEF IInv, Types
<1>3. /\ made' \in [Callers -> 0 .. MaxWrites]
      /\ durable' \subseteq Writes /\ told' \subseteq Writes
  BY <1>1, Issued DEF IInv, Types, WriteFails
<1>4. /\ slot' \in [Slots -> SlotType]
      /\ \A r \in Slots \ {s} : slot'[r] = slot[r]
      /\ slot'[s].holder = slot[s].holder /\ slot'[s].live = slot[s].live
      /\ slot'[s].tx = (IF AbortsOnError /\ slot[s].live THEN "failed" ELSE slot[s].tx)
      /\ slot'[s].staged = slot[s].staged /\ slot'[s].saved = slot[s].saved
  <2>1. CASE AbortsOnError /\ slot[s].live
    BY <1>1, <1>2, <2>1 DEF IInv, Types, SlotType
  <2>2. CASE ~(AbortsOnError /\ slot[s].live)
    BY <1>1, <2>2 DEF IInv, Types
  <2> QED
    BY <2>1, <2>2
<1>5. /\ call' \in [Callers -> CallType]
      /\ \A d \in Callers \ {c} : call'[d] = call[d]
      /\ call'[c].main = s /\ call'[c].inner = call[c].inner
      /\ call'[c].pc \in {"body", "rollback"}
      /\ call'[c].failed = TRUE /\ call'[c].did = call[c].did
  <2>1. PICK pc \in {"body", "rollback"} : call' = [call EXCEPT ![c].pc = pc, ![c].failed = TRUE]
    BY DEF WriteFails
  <2> DEFINE after == [[call[c] EXCEPT !.pc = pc] EXCEPT !.failed = TRUE]
  <2>2. /\ after \in CallType
        /\ after.main = s /\ after.inner = call[c].inner /\ after.pc = pc
        /\ after.failed = TRUE /\ after.did = call[c].did
    BY <1>2 DEF CallType, PCs
  <2>3. call' = [call EXCEPT ![c] = after]
    BY <2>1 DEF IInv, Types
  <2> HIDE DEF after
  <2> QED
    BY <2>2, <2>3 DEF IInv, Types
<1>6. /\ slot[s].live => slot[s].tx \in {"open", "failed"}
      /\ slot[s].live /\ ~(AbortsOnError /\ call[c].failed) => call[c].did \subseteq slot[s].staged
      /\ slot[s].saved # Null => slot[s].saved \subseteq slot[s].staged
      /\ slot[s].tx \notin {"open", "failed"} => slot[s].staged = {} /\ slot[s].saved = Null
      /\ slot[s].live /\ slot[s].tx = "failed" => AbortsOnError
  BY <1>1, <1>2 DEF IInv, Seen, Savepoints, Unused
<1>7. /\ slot'[s].tx \in {"open", "failed"} => call'[c].pc \in {"body", "rollback"}
      /\ slot'[s].tx \notin {"open", "failed"} => slot'[s].staged = {} /\ slot'[s].saved = Null
      /\ slot'[s].saved # Null => slot'[s].saved \subseteq slot'[s].staged
      /\ call'[c].pc = "body" /\ slot'[s].live =>
           /\ slot'[s].tx \in {"open", "failed"}
           /\ slot'[s].tx = "failed" => AbortsOnError /\ call'[c].failed
           /\ ~(AbortsOnError /\ call'[c].failed) => call'[c].did \subseteq slot'[s].staged
  BY <1>1, <1>4, <1>5, <1>6
<1> QED
  BY <1>1, <1>3, <1>4, <1>5, <1>7, OwnStep

(* SAVEPOINT and RELEASE SAVEPOINT.                                        *)
LEMMA SavepointStep ==
  ASSUME IInv, NEW c \in Callers, Savepoint(c) \/ ReleaseSavepoint(c)
  PROVE  IInv'
<1> DEFINE s == call[c].main
<1>1. /\ call[c].pc = "body" /\ slot[s].live /\ slot[s].tx # "failed"
      /\ \/ slot' = [slot EXCEPT ![s].saved = slot[s].staged]
         \/ slot' = [slot EXCEPT ![s].saved = Null]
      /\ UNCHANGED <<call, made, durable, told>>
  BY DEF Savepoint, ReleaseSavepoint, At, Works
<1>2. s \in Slots /\ slot[s] \in SlotType
  BY <1>1, InHand DEF IInv, Types
<1>3. /\ slot' \in [Slots -> SlotType]
      /\ \A r \in Slots \ {s} : slot'[r] = slot[r]
      /\ slot'[s].holder = slot[s].holder /\ slot'[s].tx = slot[s].tx /\ slot'[s].live
      /\ slot'[s].staged = slot[s].staged /\ slot'[s].saved \in {slot[s].staged, Null}
  BY <1>1, <1>2 DEF IInv, Types, SlotType
<1>4. /\ slot[s].tx = "open"
      /\ ~(AbortsOnError /\ call[c].failed) => call[c].did \subseteq slot[s].staged
  BY <1>1, <1>2 DEF IInv, Seen
<1>5. /\ made' \in [Callers -> 0 .. MaxWrites] /\ durable' \subseteq Writes /\ told' \subseteq Writes
      /\ call' \in [Callers -> CallType]
      /\ \A d \in Callers : call'[d] = call[d]
  BY <1>1 DEF IInv, Types
<1> QED
  BY <1>1, <1>3, <1>4, <1>5, OwnStep

(* ROLLBACK TO SAVEPOINT: what the function may count on is what was saved. *)
LEMMA RollbackToStep ==
  ASSUME IInv, NEW c \in Callers, RollbackTo(c)
  PROVE  IInv'
<1> DEFINE s == call[c].main
           kept == slot[s].saved
<1>1. /\ call[c].pc = "body" /\ slot[s].live /\ kept # Null
      /\ slot' = [slot EXCEPT ![s].tx = "open", ![s].staged = kept]
      /\ call' = [call EXCEPT ![c].did = kept, ![c].failed = FALSE]
      /\ UNCHANGED <<made, durable, told>>
  BY DEF RollbackTo, At
<1>2. s \in Slots /\ slot[s] \in SlotType /\ call[c] \in CallType
  BY <1>1, InHand DEF IInv, Types
<1>3. kept \in SUBSET Writes
  BY <1>1, <1>2 DEF SlotType
<1>4. /\ slot' \in [Slots -> SlotType]
      /\ \A r \in Slots \ {s} : slot'[r] = slot[r]
      /\ slot'[s].holder = slot[s].holder /\ slot'[s].tx = "open"
      /\ slot'[s].staged = kept /\ slot'[s].saved = kept
  <2> DEFINE back == [[slot[s] EXCEPT !.tx = "open"] EXCEPT !.staged = kept]
  <2>1. /\ back \in SlotType
        /\ back.holder = slot[s].holder /\ back.tx = "open"
        /\ back.staged = kept /\ back.saved = kept
    BY <1>2, <1>3 DEF SlotType
  <2>2. slot' = [slot EXCEPT ![s] = back]
    BY <1>1 DEF IInv, Types
  <2> HIDE DEF back, kept
  <2> QED
    BY <1>2, <2>1, <2>2 DEF IInv, Types
<1>5. /\ call' \in [Callers -> CallType]
      /\ \A d \in Callers \ {c} : call'[d] = call[d]
      /\ call'[c].main = s /\ call'[c].inner = call[c].inner /\ call'[c].pc = "body"
      /\ call'[c].failed = FALSE /\ call'[c].did = kept
  <2> DEFINE after == [[call[c] EXCEPT !.did = kept] EXCEPT !.failed = FALSE]
  <2>1. /\ after \in CallType
        /\ after.main = s /\ after.inner = call[c].inner /\ after.pc = "body"
        /\ after.failed = FALSE /\ after.did = kept
    BY <1>1, <1>2, <1>3 DEF CallType
  <2>2. call' = [call EXCEPT ![c] = after]
    BY <1>1 DEF IInv, Types
  <2> HIDE DEF after, kept
  <2> QED
    BY <2>1, <2>2 DEF IInv, Types
<1>6. made' \in [Callers -> 0 .. MaxWrites] /\ durable' \subseteq Writes /\ told' \subseteq Writes
  BY <1>1 DEF IInv, Types
<1>7. /\ slot'[s].tx \in {"open", "failed"} => call'[c].pc \in {"body", "rollback"}
      /\ slot'[s].tx \notin {"open", "failed"} => slot'[s].staged = {} /\ slot'[s].saved = Null
      /\ slot'[s].saved # Null => slot'[s].saved \subseteq slot'[s].staged
      /\ call'[c].pc = "body" /\ slot'[s].live =>
           /\ slot'[s].tx \in {"open", "failed"}
           /\ slot'[s].tx = "failed" => AbortsOnError /\ call'[c].failed
           /\ ~(AbortsOnError /\ call'[c].failed) => call'[c].did \subseteq slot'[s].staged
  BY <1>4, <1>5
<1> QED
  BY <1>1, <1>4, <1>5, <1>6, <1>7, OwnStep

-----------------------------------------------------------------------------
LEMMA NextIInv == IInv /\ [Next]_vars => IInv'
<1> SUFFICES ASSUME IInv, [Next]_vars PROVE IInv'
  OBVIOUS
<1>1. CASE \E s \in Slots : Die(s)
  BY <1>1, DieStep
<1>2. CASE \E c \in Callers, s \in Slots : Connect(c, s)
  BY <1>2, ConnectStep
<1>3. ASSUME NEW c \in Callers, Start(c) \/ ConnectFails(c) \/ QueryHandle(c) \/ Body(c) PROVE IInv'
  BY <1>3, MoveStep, HandleStep, WriteStep, WriteFailsStep, SavepointStep, RollbackToStep DEF Body
<1>4. ASSUME NEW c \in Callers, Proceed(c) PROVE IInv'
  BY <1>4, ReleaseStep, BeginStep, BeginFailsStep, OutsideStep, EndStep DEF Proceed
<1>5. CASE UNCHANGED vars
  BY <1>5 DEF vars, IInv, Types, Unused, Places, Exclusive, PoolClean, InTx, Seen, Savepoints
<1> QED
  BY <1>1, <1>2, <1>3, <1>4, <1>5 DEF Next

LEMMA SpecIInv == Spec => []IInv
BY InitIInv, NextIInv, PTL DEF Spec

(* Every variable of the pooled drivers keeps its type, and a connection   *)
(* without a transaction has nothing staged.                               *)
THEOREM PoolTypeCorrect == Spec => []TypeOK
<1>1. IInv => TypeOK
  BY TypesOK DEF IInv
<1> QED
  BY <1>1, SpecIInv, PTL

(* transaction() returns no connection with an open transaction to the     *)
(* pool, whatever failed before its finally.                               *)
THEOREM PoolIsClean == Spec => []PoolClean
<1>1. IInv => PoolClean
  BY DEF IInv
<1> QED
  BY <1>1, SpecIInv, PTL

(* No two calls of query and transaction hold one connection, and none is  *)
(* released while another call works on it.                                *)
THEOREM NeverShared == Spec => []Exclusive
<1>1. IInv => Exclusive
  BY DEF IInv
<1> QED
  BY <1>1, SpecIInv, PTL

-----------------------------------------------------------------------------
(* What a caller's transaction has staged, as Transactions sees it.        *)
Part(c) == IF call[c].main = Null THEN {} ELSE slot[call[c].main].staged
Parts == [c \in Callers |-> Part(c)]
Promised == [Promise!Next]_<<durable, Parts, told>>

LEMMA Stutter ==
  ASSUME \A c \in Callers : Part(c)' = Part(c), UNCHANGED <<durable, told>>
  PROVE  Promised
<1>1. Parts' = Parts
  BY DEF Parts
<1> QED
  BY <1>1 DEF Promised

(* Only c's part changes.                                                  *)
LEMMA OnePart ==
  ASSUME NEW c \in Callers, NEW part, Part(c)' = part,
         \A d \in Callers \ {c} : Part(d)' = Part(d)
  PROVE  Parts' = [Parts EXCEPT ![c] = part]
BY DEF Parts

LEMMA UndoStep ==
  ASSUME NEW c \in Callers, NEW kept \in SUBSET Part(c), Part(c)' = kept,
         \A d \in Callers \ {c} : Part(d)' = Part(d),
         UNCHANGED <<durable, told>>
  PROVE  Promised
<1>1. Parts' = [Parts EXCEPT ![c] = kept]
  BY OnePart
<1>2. Promise!Undo(c, kept) /\ kept \in SUBSET Parts[c]
  BY <1>1 DEF Promise!Undo, Parts, Part
<1> QED
  BY <1>2 DEF Promised, Promise!Next, Parts, Part

LEMMA CommitStep ==
  ASSUME NEW c \in Callers, NEW ws \in SUBSET Part(c), Part(c)' = {},
         \A d \in Callers \ {c} : Part(d)' = Part(d),
         durable' = durable \cup Part(c), told' = told \cup ws
  PROVE  Promised
<1>1. Parts' = [Parts EXCEPT ![c] = {}]
  BY OnePart
<1>2. Promise!Commit(c, ws) /\ ws \in SUBSET Parts[c]
  BY <1>1 DEF Promise!Commit, Parts, Part
<1> QED
  BY <1>2 DEF Promised, Promise!Next, Parts, Part

LEMMA ApplyStep ==
  ASSUME NEW w \in Writes, \A d \in Callers : Part(d)' = Part(d),
         durable' = durable \cup {w}, told' = told \/ told' = told \cup {w}
  PROVE  Promised
<1>1. Parts' = Parts
  BY DEF Parts
<1>2. Promise!Apply(w)
  BY <1>1 DEF Promise!Apply, Parts, Part
<1> QED
  BY <1>2 DEF Promised, Promise!Next

LEMMA StageStep ==
  ASSUME NEW c \in Callers, NEW w \in Writes, Part(c)' = Part(c) \cup {w},
         \A d \in Callers \ {c} : Part(d)' = Part(d),
         UNCHANGED <<durable, told>>
  PROVE  Promised
<1>1. Parts' = [Parts EXCEPT ![c] = @ \cup {w}]
  BY DEF Parts
<1>2. Promise!Stage(c, w)
  BY <1>1 DEF Promise!Stage, Parts, Part
<1> QED
  BY <1>2 DEF Promised, Promise!Next

(* Work on one's own connections leaves the other callers' parts alone.    *)
LEMMA OtherParts ==
  ASSUME IInv, NEW c \in Callers, NEW s \in Slots,
         slot' = [slot EXCEPT ![s] = slot'[s]],
         \A d \in Callers \ {c} : call'[d] = call[d] /\ call[d].main # s
  PROVE  \A d \in Callers \ {c} : Part(d)' = Part(d)
<1> SUFFICES ASSUME NEW d \in Callers \ {c} PROVE Part(d)' = Part(d)
  OBVIOUS
<1>1. CASE call[d].main = Null
  BY <1>1 DEF Part
<1>2. CASE call[d].main # Null
  <2>1. call[d].main \in Slots \ {s}
    BY <1>2 DEF IInv, Types, CallType
  <2>2. slot'[call[d].main] = slot[call[d].main]
    BY <2>1 DEF IInv, Types
  <2> QED
    BY <2>2 DEF Part
<1> QED
  BY <1>1, <1>2

(* Steps that touch no connection, or only one that no transaction is on.  *)
LEMMA MoveMaps ==
  ASSUME IInv, NEW c \in Callers, Start(c) \/ ConnectFails(c) \/ Leave(c) \/ QueryOutside(c)
  PROVE  Promised
<1>1. /\ UNCHANGED <<slot, durable, told>>
      /\ \/ \E pc \in PCs : Go(c, pc)
         \/ call[c].pc \in {"connect", "connectTx", "connectHandle"} /\ call' = [call EXCEPT ![c] = Idle]
  BY DEF Start, ConnectFails, Leave, QueryOutside, Waiting, At, PCs
<1>2. \A d \in Callers : call'[d].main = call[d].main
  <2>1. CASE \E pc \in PCs : Go(c, pc)
    BY <2>1 DEF IInv, Types, Go, CallType
  <2>2. CASE call[c].pc \in {"connect", "connectTx", "connectHandle"} /\ call' = [call EXCEPT ![c] = Idle]
    BY <2>2 DEF IInv, Types, Places, Idle
  <2> QED
    BY <1>1, <2>1, <2>2
<1> QED
  BY <1>1, <1>2, Stutter DEF Part

LEMMA DieMaps ==
  ASSUME IInv, NEW s \in Slots, Die(s)
  PROVE  Promised
<1>1. /\ UNCHANGED <<call, durable, told>>
      /\ slot' = [slot EXCEPT ![s] = slot'[s]]
      /\ slot'[s].staged = {}
  BY Records DEF IInv, Types, Die, Fresh, SlotType
<1>2. CASE \E c \in Callers : call[c].main = s
  <2>1. PICK c \in Callers : call[c].main = s
    BY <1>2
  <2>2. \A d \in Callers \ {c} : call'[d] = call[d] /\ call[d].main # s
    BY <1>1, <2>1 DEF IInv, Exclusive
  <2>3. \A d \in Callers \ {c} : Part(d)' = Part(d)
    BY <1>1, <2>2, OtherParts
  <2>4. Part(c)' = {}
    BY <1>1, <2>1 DEF Part
  <2> QED
    BY <1>1, <2>3, <2>4, UndoStep
<1>3. CASE \A c \in Callers : call[c].main # s
  <2>1. ASSUME NEW c \in Callers PROVE Part(c)' = Part(c)
    BY <1>1, <1>3 DEF Part, IInv, Types, CallType
  <2> QED
    BY <1>1, <2>1, Stutter
<1> QED
  BY <1>2, <1>3

LEMMA ConnectMaps ==
  ASSUME IInv, NEW c \in Callers, NEW s \in Slots, Connect(c, s)
  PROVE  Promised
<1>1. /\ UNCHANGED <<durable, told>>
      /\ slot[s].holder = Null
      /\ slot' = [slot EXCEPT ![s].holder = c]
  BY DEF Connect
<1>2. /\ slot' = [slot EXCEPT ![s] = slot'[s]]
      /\ \A r \in Slots : slot'[r].staged = slot[r].staged
  BY <1>1 DEF IInv, Types, SlotType
<1>3. \A d \in Callers : call[d].main # s
  BY <1>1, PoolOK DEF IInv, Exclusive
<1>4. slot[s].staged = {}
  BY <1>3 DEF IInv, PoolClean, Unused
<1>5. /\ \A d \in Callers \ {c} : call'[d] = call[d]
      /\ \/ call[c].pc \in {"connect", "connectTx", "connectHandle"} /\ call'[c].main = s
         \/ call'[c].main = call[c].main
  BY DEF IInv, Types, Connect, At, CallType
<1>6. \A d \in Callers \ {c} : Part(d)' = Part(d)
  BY <1>2, <1>3, <1>5, OtherParts
<1>7. Part(c)' = Part(c)
  <2>1. CASE call[c].pc \in {"connect", "connectTx", "connectHandle"} /\ call'[c].main = s
    BY <1>2, <1>4, <2>1, PoolOK DEF Part, IInv, Places
  <2>2. CASE call'[c].main = call[c].main
    BY <1>2, <2>2 DEF Part, IInv, Types, CallType
  <2> QED
    BY <1>5, <2>1, <2>2
<1> QED
  BY <1>1, <1>6, <1>7, Stutter

(* A call that ends had nothing staged on its connection.                  *)
LEMMA LeavingParts ==
  ASSUME IInv, NEW c \in Callers, call[c].pc \in {"query", "held", "release", "begin"},
         slot' = [slot EXCEPT ![call[c].main] = slot'[call[c].main]],
         call' = [call EXCEPT ![c] = Idle]
  PROVE  \A d \in Callers : Part(d)' = Part(d)
<1>1. /\ call[c].main \in Slots
      /\ \A d \in Callers \ {c} : call'[d] = call[d] /\ call[d].main # call[c].main
  BY InHand DEF IInv, Types
<1>2. \A d \in Callers \ {c} : Part(d)' = Part(d)
  BY <1>1, OtherParts
<1>3. Part(c) = {}
  BY <1>1 DEF Part, IInv, PoolClean, InTx, Unused
<1>4. Part(c)' = {}
  BY DEF Part, IInv, Types, Idle
<1> QED
  BY <1>2, <1>3, <1>4

LEMMA ReleaseMaps ==
  ASSUME IInv, NEW c \in Callers, Execute(c) \/ GiveBack(c) \/ Release(c) \/ BeginFails(c)
  PROVE  Promised
<1>1. /\ call[c].pc \in {"query", "held", "release", "begin"}
      /\ slot' = [slot EXCEPT ![call[c].main] = slot'[call[c].main]]
      /\ call' = [call EXCEPT ![c] = Idle]
  <2>1. call[c].pc \in {"query", "held", "release", "begin"} /\ call' = [call EXCEPT ![c] = Idle]
    BY DEF Execute, GiveBack, Release, BeginFails, At
  <2>2. call[c].main \in Slots
    BY <2>1, InHand
  <2> QED
    BY <2>1, <2>2 DEF IInv, Types, Execute, GiveBack, Release, BeginFails, Released
<1>2. \A d \in Callers : Part(d)' = Part(d)
  BY <1>1, LeavingParts
<1>3. CASE UNCHANGED <<durable, told>>
  BY <1>2, <1>3, Stutter
<1>4. CASE ~UNCHANGED <<durable, told>>
  <2>1. /\ Execute(c)
        /\ durable' = durable \cup {NextWrite(c)}
        /\ told' = told \/ told' = told \cup {NextWrite(c)}
    BY <1>4 DEF Execute, GiveBack, Release, BeginFails
  <2>2. NextWrite(c) \in Writes
    BY <2>1, Issued DEF IInv, Execute
  <2> QED
    BY <1>2, <2>1, <2>2, ApplyStep
<1> QED
  BY <1>3, <1>4

LEMMA HandleMaps ==
  ASSUME IInv, NEW c \in Callers, QueryHandle(c)
  PROVE  Promised
<1>1. \A d \in Callers : Part(d)' = Part(d)
  BY DEF QueryHandle, Part
<1>2. NextWrite(c) \in Writes
  BY Issued DEF IInv, QueryHandle
<1>3. CASE UNCHANGED <<durable, told>>
  BY <1>1, <1>3, Stutter
<1>4. CASE durable' = durable \cup {NextWrite(c)} /\ (told' = told \/ told' = told \cup {NextWrite(c)})
  BY <1>1, <1>2, <1>4, ApplyStep
<1> QED
  BY <1>3, <1>4 DEF QueryHandle

(* A step of a transaction on its own connection changes its own part.     *)
LEMMA OwnPart ==
  ASSUME IInv, NEW c \in Callers, call[c].pc \in {"begin", "body", "commit", "rollback"},
         slot' = [slot EXCEPT ![call[c].main] = slot'[call[c].main]],
         \A d \in Callers \ {c} : call'[d] = call[d],
         call'[c].main = call[c].main
  PROVE  /\ \A d \in Callers \ {c} : Part(d)' = Part(d)
         /\ Part(c) = slot[call[c].main].staged
         /\ Part(c)' = slot'[call[c].main].staged
<1>1. /\ call[c].main \in Slots
      /\ call[c].main # Null
      /\ \A d \in Callers \ {c} : call'[d] = call[d] /\ call[d].main # call[c].main
  BY InHand, PoolOK DEF IInv, Types
<1>2. \A d \in Callers \ {c} : Part(d)' = Part(d)
  BY <1>1, OtherParts
<1> QED
  BY <1>1, <1>2 DEF Part

LEMMA QuietMaps ==
  ASSUME IInv, NEW c \in Callers,
         Begin(c) \/ WriteFails(c) \/ Savepoint(c) \/ ReleaseSavepoint(c)
  PROVE  Promised
<1> DEFINE s == call[c].main
<1>1. call[c].pc \in {"begin", "body"} /\ UNCHANGED <<durable, told>>
  BY DEF Begin, WriteFails, Savepoint, ReleaseSavepoint, At
<1>2. s \in Slots /\ slot[s] \in SlotType
  BY <1>1, InHand DEF IInv, Types
<1>3. /\ slot' = [slot EXCEPT ![s] = slot'[s]]
      /\ slot'[s].staged = slot[s].staged
  <2>1. \/ slot' = slot \/ slot' = [slot EXCEPT ![s].tx = "open"]
        \/ slot' = [slot EXCEPT ![s].tx = "failed"]
        \/ slot' = [slot EXCEPT ![s].saved = slot[s].staged] \/ slot' = [slot EXCEPT ![s].saved = Null]
    BY DEF Begin, WriteFails, Savepoint, ReleaseSavepoint
  <2> QED
    BY <1>2, <2>1 DEF IInv, Types, SlotType
<1>4. /\ \A d \in Callers \ {c} : call'[d] = call[d]
      /\ call'[c].main = s
  <2>1. CASE WriteFails(c)
    <3>1. PICK pc \in {"body", "rollback"} : call' = [call EXCEPT ![c].pc = pc, ![c].failed = TRUE]
      BY <2>1 DEF WriteFails
    <3> QED
      BY <3>1 DEF IInv, Types, CallType
  <2>2. CASE Begin(c) \/ Savepoint(c) \/ ReleaseSavepoint(c)
    BY <2>2 DEF IInv, Types, CallType, Begin, Go, Savepoint, ReleaseSavepoint
  <2> QED
    BY <2>1, <2>2
<1>5. \A d \in Callers : Part(d)' = Part(d)
  BY <1>1, <1>3, <1>4, OwnPart
<1> QED
  BY <1>1, <1>5, Stutter

LEMMA WriteMaps ==
  ASSUME IInv, NEW c \in Callers, Write(c)
  PROVE  Promised
<1> DEFINE s == call[c].main
           w == NextWrite(c)
<1>1. /\ call[c].pc = "body"
      /\ slot' = [slot EXCEPT ![s].staged = @ \cup {w}]
      /\ call' = [call EXCEPT ![c].did = @ \cup {w}]
      /\ UNCHANGED <<durable, told>>
  BY DEF Write, At
<1>2. s \in Slots /\ slot[s] \in SlotType /\ w \in Writes
  BY <1>1, InHand, Issued DEF IInv, Types, Write
<1> HIDE DEF w
<1>3. /\ slot' = [slot EXCEPT ![s] = slot'[s]]
      /\ slot'[s].staged = slot[s].staged \cup {w}
  BY <1>1, <1>2 DEF IInv, Types, SlotType
<1>4. /\ \A d \in Callers \ {c} : call'[d] = call[d]
      /\ call'[c].main = s
  BY <1>1 DEF IInv, Types, CallType
<1>5. /\ \A d \in Callers \ {c} : Part(d)' = Part(d)
      /\ Part(c)' = Part(c) \cup {w}
  BY <1>1, <1>3, <1>4, OwnPart
<1> QED
  BY <1>1, <1>2, <1>5, StageStep

(* What is kept is a part of what was staged: Savepoints.                  *)
LEMMA RollbackToMaps ==
  ASSUME IInv, NEW c \in Callers, RollbackTo(c)
  PROVE  Promised
<1> DEFINE s == call[c].main
           kept == slot[s].saved
<1>1. /\ call[c].pc = "body" /\ kept # Null
      /\ slot' = [slot EXCEPT ![s].tx = "open", ![s].staged = kept]
      /\ call' = [call EXCEPT ![c].did = kept, ![c].failed = FALSE]
      /\ UNCHANGED <<durable, told>>
  BY DEF RollbackTo, At
<1>2. s \in Slots /\ slot[s] \in SlotType /\ kept \subseteq slot[s].staged
  BY <1>1, InHand DEF IInv, Types, Savepoints
<1>3. /\ slot' = [slot EXCEPT ![s] = slot'[s]]
      /\ slot'[s].staged = kept
  <2> DEFINE back == [[slot[s] EXCEPT !.tx = "open"] EXCEPT !.staged = kept]
  <2>1. back.staged = kept
    BY <1>2 DEF SlotType
  <2>2. slot' = [slot EXCEPT ![s] = back]
    BY <1>1 DEF IInv, Types
  <2> HIDE DEF back, kept
  <2> QED
    BY <1>2, <2>1, <2>2 DEF IInv, Types
<1>4. /\ \A d \in Callers \ {c} : call'[d] = call[d]
      /\ call'[c].main = s
  <2> HIDE DEF kept
  <2> QED
    BY <1>1 DEF IInv, Types, CallType
<1>5. /\ \A d \in Callers \ {c} : Part(d)' = Part(d)
      /\ Part(c)' = kept /\ kept \in SUBSET Part(c)
  BY <1>1, <1>2, <1>3, <1>4, OwnPart
<1> QED
  BY <1>1, <1>5, UndoStep

(* The query goes over a connection that is not the transaction's own.     *)
LEMMA OutsideMaps ==
  ASSUME IInv, NEW c \in Callers, ExecuteOutside(c)
  PROVE  Promised
<1> DEFINE s == call[c].inner
<1>1. /\ call[c].pc = "inner"
      /\ slot' = Released(s)
      /\ call'[c].main = call[c].main
      /\ \A d \in Callers \ {c} : call'[d] = call[d]
  BY DEF IInv, Types, CallType, ExecuteOutside, At
<1>2. /\ s \in Slots
      /\ \A d \in Callers : call'[d].main = call[d].main /\ call[d].main # s
  BY <1>1, InHand DEF IInv, Types, CallType, Places, Exclusive
<1>3. \A r \in Slots \ {s} : slot'[r] = slot[r]
  BY <1>1, <1>2, Slotwise DEF IInv
<1>4. \A d \in Callers : Part(d)' = Part(d)
  BY <1>2, <1>3 DEF Part, IInv, Types, CallType
<1>5. NextWrite(c) \in Writes
  BY Issued DEF IInv, ExecuteOutside
<1>6. CASE UNCHANGED <<durable, told>>
  BY <1>4, <1>6, Stutter
<1>7. CASE durable' = durable \cup {NextWrite(c)} /\ told' = told \cup {NextWrite(c)}
  BY <1>4, <1>5, <1>7, ApplyStep
<1> QED
  BY <1>6, <1>7 DEF ExecuteOutside

(* COMMIT makes all of the caller's part durable or none of it, and tells  *)
(* the caller only what is then durable: Seen.                             *)
LEMMA EndMaps ==
  ASSUME IInv, NEW c \in Callers, Commit(c) \/ CommitFails(c) \/ Rollback(c)
  PROVE  Promised
<1> DEFINE s == call[c].main
           Dead == [Fresh EXCEPT !.holder = c, !.live = FALSE]
<1>1. /\ call[c].pc \in {"commit", "rollback"}
      /\ slot' = EndTx(s) \/ slot' = [slot EXCEPT ![s] = Dead]
      /\ Go(c, "rollback") \/ Go(c, "release")
  BY DEF Commit, CommitFails, Rollback, At
<1>2. s \in Slots /\ slot[s] \in SlotType
  BY <1>1, InHand DEF IInv, Types
<1>3. /\ slot' = [slot EXCEPT ![s] = slot'[s]]
      /\ slot'[s].staged = {}
  <2>1. CASE slot' = EndTx(s)
    BY <1>2, <2>1, Slotwise DEF IInv, Types, EndTx
  <2>2. CASE slot' = [slot EXCEPT ![s] = Dead]
    <3>1. Dead.staged = {}
      BY DEF Fresh
    <3> HIDE DEF Dead
    <3> QED
      BY <1>2, <2>2, <3>1 DEF IInv, Types
  <2> QED
    BY <1>1, <2>1, <2>2
<1>4. /\ \A d \in Callers \ {c} : call'[d] = call[d]
      /\ call'[c].main = s
  BY <1>1 DEF IInv, Types, Go, CallType
<1>5. /\ \A d \in Callers \ {c} : Part(d)' = Part(d)
      /\ Part(c)' = {}
      /\ Part(c) = slot[s].staged
  BY <1>1, <1>3, <1>4, OwnPart
<1>6. CASE UNCHANGED <<durable, told>>
  BY <1>5, <1>6, UndoStep
<1>7. CASE durable' = durable \cup slot[s].staged /\ UNCHANGED told
  <2>1. {} \in SUBSET Part(c) /\ durable' = durable \cup Part(c) /\ told' = told \cup {}
    BY <1>5, <1>7
  <2> QED
    BY <1>5, <2>1, CommitStep
<1>8. CASE Commit(c)
  <2>1. /\ call[c].pc = "commit" /\ slot[s].live
        /\ durable' = IF slot[s].tx = "failed" THEN durable ELSE durable \cup slot[s].staged
        /\ told' = told \cup Acknowledged(c)
    BY <1>8 DEF Commit, At
  <2>2. /\ slot[s].tx = "failed" => Acknowledged(c) = {}
        /\ Acknowledged(c) \subseteq slot[s].staged
    BY <2>1 DEF IInv, Seen, Acknowledged
  <2>3. CASE slot[s].tx = "failed"
    BY <1>6, <2>1, <2>2, <2>3
  <2>4. CASE slot[s].tx # "failed"
    BY <1>5, <2>1, <2>2, <2>4, CommitStep
  <2> QED
    BY <2>3, <2>4
<1>9. CASE CommitFails(c) \/ Rollback(c)
  BY <1>6, <1>7, <1>9 DEF CommitFails, Rollback
<1> QED
  BY <1>8, <1>9

LEMMA NextMaps == IInv /\ [Next]_vars => Promised
<1> SUFFICES ASSUME IInv, [Next]_vars PROVE Promised
  OBVIOUS
<1>1. CASE \E s \in Slots : Die(s)
  BY <1>1, DieMaps
<1>2. CASE \E c \in Callers, s \in Slots : Connect(c, s)
  BY <1>2, ConnectMaps
<1>3. ASSUME NEW c \in Callers, Start(c) \/ ConnectFails(c) \/ QueryHandle(c) \/ Body(c) PROVE Promised
  BY <1>3, MoveMaps, HandleMaps, WriteMaps, QuietMaps, RollbackToMaps DEF Body
<1>4. ASSUME NEW c \in Callers, Proceed(c) PROVE Promised
  BY <1>4, ReleaseMaps, QuietMaps, OutsideMaps, EndMaps DEF Proceed
<1>5. CASE UNCHANGED vars
  BY <1>5, Stutter DEF vars, Part
<1> QED
  BY <1>1, <1>2, <1>3, <1>4, <1>5 DEF Next

(* The drivers keep what Transactions promises: a transaction's writes     *)
(* become durable together or not at all, and nobody is told of a write    *)
(* that is not durable, connections dying and statements failing anywhere. *)
THEOREM DriversKeepPromise == Spec => KeepsPromise
<1>1. Init => Promise!Init
  BY DEF Init, Promise!Init, Idle
<1>2. IInv /\ [Next]_vars => [Promise!Next]_<<durable, Parts, told>>
  BY NextMaps DEF Promised
<1> QED
  BY <1>1, <1>2, SpecIInv, PTL DEF Spec, KeepsPromise, Promise!Spec, Parts, Part
=============================================================================
