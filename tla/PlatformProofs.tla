--------------------------- MODULE PlatformProofs ---------------------------
(***************************************************************************)
(* The example application, and all the components together: MCPlatform    *)
(* keeps the invariants that TLC checks of it. They are what was shown of  *)
(* each component (QueryProofs, ComponentProofs and the first part here),  *)
(* since a behaviour of the platform is a behaviour of each of them.       *)
(***************************************************************************)
EXTENDS MCPlatform, QueryProofs, ComponentProofs, SumsProofs, SequenceTheorems,
        FiniteSetTheorems, TLAPS

-----------------------------------------------------------------------------
(* ExampleApp                                                              *)

TransferRecord == [pc : {"none", "begun", "checked", "debited", "found", "credited"},
                   from : Account \cup {"none"}, to : Account \cup {"none"}, amount : Nat, seen : Nat]
Carried == SumOf(Amount, InTransit)

\* What a handler has read is still so, or the row is gone.
ReadsHold ==
  \A c \in Payers :
    /\ transfers[c].pc = "checked" =>
         /\ transfers[c].amount <= transfers[c].seen
         /\ transfers[c].from \in DOMAIN points => points[transfers[c].from] = transfers[c].seen
    /\ transfers[c].pc = "found" /\ transfers[c].to \in DOMAIN points =>
         points[transfers[c].to] = transfers[c].seen

ExampleIInv ==
  /\ ExampleTypeOK /\ transfers \in [Payers -> TransferRecord]
  /\ ~disturbed => ReadsHold
  /\ PointsKept

LEMMA NoTransferFits == NoTransfer \in TransferRecord /\ NoTransfer.pc = "none"
BY DEF NoTransfer, TransferRecord

LEMMA UsersFinite == ASSUME ExampleTypeOK PROVE IsFiniteSet(DOMAIN points)
BY ExampleConstantsOK, FS_Subset DEF ExampleTypeOK

LEMMA CarriedInt ==
  ASSUME transfers \in [Payers -> TransferRecord]
  PROVE  /\ IsFiniteSet(InTransit) /\ InTransit \subseteq Payers
         /\ \A c \in Payers : Amount[c] = transfers[c].amount /\ Amount[c] \in Int
         /\ Carried \in Int
<1>1. IsFiniteSet(InTransit) /\ InTransit \subseteq Payers
  BY ExampleConstantsOK, FS_Subset DEF InTransit
<1>2. \A c \in Payers : Amount[c] = transfers[c].amount /\ Amount[c] \in Int
  BY DEF Amount, TransferRecord
<1> QED
  BY <1>1, <1>2, SumOfInt DEF Carried

\* What is under way, when one handler goes on.
LEMMA CarriedStep ==
  ASSUME transfers \in [Payers -> TransferRecord], NEW c \in Payers, NEW r \in TransferRecord,
         transfers' = [transfers EXCEPT ![c] = r]
  PROVE  /\ Carried \in Int /\ Carried' \in Int /\ transfers' \in [Payers -> TransferRecord]
         /\ c \notin InTransit /\ r.pc \notin {"debited", "found"} => Carried' = Carried
         /\ c \notin InTransit /\ r.pc \in {"debited", "found"} => Carried' = Carried + r.amount
         /\ c \in InTransit /\ r.pc \notin {"debited", "found"} => Carried' = Carried - transfers[c].amount
         /\ c \in InTransit /\ r.pc \in {"debited", "found"} /\ r.amount = transfers[c].amount => Carried' = Carried
<1>1. transfers' \in [Payers -> TransferRecord] /\ transfers'[c] = r /\ \A d \in Payers \ {c} : transfers'[d] = transfers[d]
  OBVIOUS
<1>2. /\ IsFiniteSet(InTransit) /\ InTransit \subseteq Payers
      /\ \A d \in Payers : Amount[d] = transfers[d].amount /\ Amount[d] \in Int
      /\ Carried \in Int
  BY CarriedInt
<1>3. /\ IsFiniteSet(InTransit') /\ InTransit' \subseteq Payers
      /\ \A d \in Payers : Amount'[d] = transfers'[d].amount /\ Amount'[d] \in Int
      /\ Carried' \in Int
  <2>1. IsFiniteSet(InTransit') /\ InTransit' \subseteq Payers
    BY ExampleConstantsOK, FS_Subset DEF InTransit
  <2>2. \A d \in Payers : Amount'[d] = transfers'[d].amount /\ Amount'[d] \in Int
    BY <1>1 DEF Amount, TransferRecord
  <2> QED
    BY <2>1, <2>2, SumOfInt DEF Carried
<1>4. /\ r.pc \in {"debited", "found"} => InTransit' = InTransit \cup {c}
      /\ r.pc \notin {"debited", "found"} => InTransit' = InTransit \ {c}
  BY <1>1 DEF InTransit
<1>5. \A d \in Payers \ {c} : Amount'[d] = Amount[d]
  BY <1>1, <1>2, <1>3
<1>6. SumOf(Amount', InTransit \ {c}) = SumOf(Amount, InTransit \ {c})
  <2>1. IsFiniteSet(InTransit \ {c}) /\ \A d \in InTransit \ {c} : Amount'[d] = Amount[d]
    BY <1>2, <1>5, FS_RemoveElement
  <2> QED
    BY <2>1, SumOfSame
<1>7. SumOf(Amount, InTransit \ {c}) \in Int
  BY <1>2, SumOfInt, FS_RemoveElement
<1>8. c \in InTransit => Carried = transfers[c].amount + SumOf(Amount, InTransit \ {c})
  BY <1>2, SumOfOne DEF Carried
<1>9. c \in InTransit' => Carried' = r.amount + SumOf(Amount', InTransit' \ {c})
  <2>1. c \in InTransit' => SumOf(Amount', InTransit') = Amount'[c] + SumOf(Amount', InTransit' \ {c})
    BY <1>3, SumOfOne
  <2> QED
    BY <1>1, <1>3, <2>1 DEF Carried
<1>10. r.amount \in Int /\ transfers[c].amount \in Int
  BY DEF TransferRecord
<1>11. CASE c \notin InTransit
  <2>1. InTransit \ {c} = InTransit
    BY <1>11
  <2>2. SumOf(Amount', InTransit) = Carried
    BY <2>1, <1>6 DEF Carried
  <2>3. ASSUME r.pc \in {"debited", "found"} PROVE Carried' = Carried + r.amount
    <3>1. c \in InTransit' /\ InTransit' \ {c} = InTransit
      BY <1>4, <1>11, <2>3
    <3>2. Carried' = r.amount + Carried
      BY <3>1, <1>9, <2>2
    <3>3. \A a, b \in Int : a + b = b + a
      OBVIOUS
    <3> QED
      BY <3>2, <3>3, <1>2, <1>10
  <2>4. ASSUME r.pc \notin {"debited", "found"} PROVE Carried' = Carried
    BY <2>4, <1>4, <2>1, <2>2 DEF Carried
  <2> QED
    BY <1>1, <1>2, <1>3, <1>11, <2>3, <2>4
<1>12. CASE c \in InTransit
  <2>1. ASSUME r.pc \in {"debited", "found"}, r.amount = transfers[c].amount PROVE Carried' = Carried
    <3>1. c \in InTransit' /\ InTransit' \ {c} = InTransit \ {c}
      BY <1>4, <1>12, <2>1
    <3> QED
      BY <3>1, <1>6, <1>8, <1>9, <1>12, <2>1
  <2>2. ASSUME r.pc \notin {"debited", "found"} PROVE Carried' = Carried - transfers[c].amount
    <3>1. Carried' = SumOf(Amount, InTransit \ {c})
      BY <2>2, <1>4, <1>6 DEF Carried
    <3> QED
      BY <3>1, <1>7, <1>8, <1>10, <1>12
  <2> QED
    BY <1>1, <1>2, <1>3, <1>12, <2>1, <2>2
<1> QED
  BY <1>11, <1>12

LEMMA PointsInt ==
  ASSUME ExampleTypeOK
  PROVE  /\ SumOf(points, DOMAIN points) \in Int
         /\ \A u \in DOMAIN points, n \in Int :
              SumOf([points EXCEPT ![u] = n], DOMAIN points) = SumOf(points, DOMAIN points) - points[u] + n
         /\ \A u \in DOMAIN points :
              SumOf([v \in DOMAIN points \ {u} |-> points[v]], DOMAIN points \ {u})
                = SumOf(points, DOMAIN points) - points[u]
<1>1. IsFiniteSet(DOMAIN points) /\ \A u \in DOMAIN points : points[u] \in Int
  BY UsersFinite DEF ExampleTypeOK
<1>2. SumOf(points, DOMAIN points) \in Int
  BY <1>1, SumOfInt
<1>3. ASSUME NEW u \in DOMAIN points, NEW n \in Int
      PROVE  SumOf([points EXCEPT ![u] = n], DOMAIN points) = SumOf(points, DOMAIN points) - points[u] + n
  <2> DEFINE f == [points EXCEPT ![u] = n]
  <2>1. f[u] = n /\ \A v \in DOMAIN points \ {u} : f[v] = points[v]
    OBVIOUS
  <2> HIDE DEF f
  <2>2. \A v \in DOMAIN points : points[v] \in Int /\ f[v] \in Int
    BY <1>1, <2>1
  <2>3. SumOf(f, DOMAIN points) = SumOf(points, DOMAIN points) - points[u] + f[u]
    BY <1>1, <2>1, <2>2, SumOfChanged
  <2> QED
    BY <2>1, <2>3 DEF f
<1>4. ASSUME NEW u \in DOMAIN points
      PROVE  SumOf([v \in DOMAIN points \ {u} |-> points[v]], DOMAIN points \ {u})
               = SumOf(points, DOMAIN points) - points[u]
  <2> DEFINE f == [v \in DOMAIN points \ {u} |-> points[v]]
             R == DOMAIN points \ {u}
  <2>1. \A v \in R : f[v] = points[v]
    OBVIOUS
  <2>2. IsFiniteSet(R) /\ \A v \in R : points[v] \in Int
    BY <1>1, FS_RemoveElement
  <2>3. SumOf(points, DOMAIN points) = points[u] + SumOf(points, R)
    BY <1>1, SumOfOne
  <2> HIDE DEF f, R
  <2>4. SumOf(f, R) = SumOf(points, R) /\ SumOf(points, R) \in Int
    BY <2>1, <2>2, SumOfSame, SumOfInt
  <2>5. SumOf(f, R) = SumOf(points, DOMAIN points) - points[u]
    BY <1>1, <2>3, <2>4
  <2> QED
    BY <2>5 DEF f, R
<1> QED
  BY <1>2, <1>3, <1>4

LEMMA ExampleStart == ExampleInit => ExampleIInv
<1> SUFFICES ASSUME ExampleInit PROVE ExampleIInv
  OBVIOUS
<1>1. transfers \in [Payers -> TransferRecord] /\ \A c \in Payers : transfers[c] = NoTransfer
  BY NoTransferFits DEF ExampleInit
<1>2. InTransit = {}
  BY <1>1, NoTransferFits DEF InTransit
<1>3. DOMAIN points = Account /\ \A u \in Account : points[u] \in Nat
  BY ExampleConstantsOK DEF ExampleInit
<1>4. SumOf(points, Account) \in Int
  BY <1>3, ExampleConstantsOK, SumOfInt
<1>5. SumOf(Amount, InTransit) = 0
  BY <1>2, SumOfEmpty
<1>6. total = SumOf(points, Account) /\ disturbed = FALSE
  BY DEF ExampleInit
<1>7. \A n \in Int : n + 0 = n
  OBVIOUS
<1>8. PointsKept
  BY <1>3, <1>4, <1>5, <1>6, <1>7 DEF PointsKept
<1>9. ReadsHold
  BY <1>1, NoTransferFits DEF ReadsHold
<1>10. ExampleTypeOK
  BY <1>1, <1>3, <1>4, <1>6, NoTransferFits DEF ExampleTypeOK
<1> QED
  BY <1>1, <1>8, <1>9, <1>10 DEF ExampleIInv

\* A handler that only reads.
LEMMA ReadingHolds ==
  ASSUME ExampleIInv, NEW c \in Payers, NEW r \in TransferRecord, transfers' = [transfers EXCEPT ![c] = r],
         UNCHANGED <<points, total>>, disturbed' \in BOOLEAN, disturbed => disturbed',
         c \in InTransit => disturbed' \/ (r.pc \in {"debited", "found"} /\ r.amount = transfers[c].amount),
         c \notin InTransit => r.pc \notin {"debited", "found"},
         r.pc = "checked" => r.amount <= r.seen /\ r.from \in DOMAIN points /\ points[r.from] = r.seen,
         r.pc = "found" => r.to \in DOMAIN points /\ points[r.to] = r.seen
  PROVE  ExampleIInv'
<1>1. /\ transfers \in [Payers -> TransferRecord]
      /\ transfers' \in [Payers -> TransferRecord] /\ transfers'[c] = r
      /\ \A d \in Payers \ {c} : transfers'[d] = transfers[d]
  BY DEF ExampleIInv
<1>2. ExampleTypeOK'
  BY <1>1 DEF ExampleIInv, ExampleTypeOK, TransferRecord
<1>3. ASSUME ~disturbed' PROVE ReadsHold'
  <2>1. ReadsHold
    BY <1>3 DEF ExampleIInv
  <2> QED
    BY <1>1, <2>1 DEF ReadsHold
<1>4. ~disturbed' => Carried' = Carried
  <2>1. c \notin InTransit => Carried' = Carried
    BY <1>1, CarriedStep
  <2>2. c \in InTransit /\ ~disturbed' => Carried' = Carried
    BY <1>1, CarriedStep
  <2> QED
    BY <2>1, <2>2
<1>5. PointsKept'
  BY <1>4 DEF ExampleIInv, PointsKept, Carried
<1> QED
  BY <1>1, <1>2, <1>3, <1>5 DEF ExampleIInv

\* A handler that writes the row of u.
LEMMA StoringHolds ==
  ASSUME ExampleIInv, NEW c \in Payers, NEW u, NEW n \in Nat, NEW r \in TransferRecord,
         StorePoints(c, u, n), transfers' = [transfers EXCEPT ![c] = r], total' = total, ~disturbed,
         r.pc \notin {"checked", "found"},
         u \in DOMAIN points =>
           \/ /\ c \notin InTransit /\ r.pc = "debited" /\ n = points[u] - r.amount
           \/ /\ c \in InTransit /\ r.pc \notin {"debited", "found"} /\ n = points[u] + transfers[c].amount
  PROVE  ExampleIInv'
<1>1. /\ transfers \in [Payers -> TransferRecord]
      /\ transfers' \in [Payers -> TransferRecord] /\ transfers'[c] = r
      /\ \A d \in Payers \ {c} : transfers'[d] = transfers[d]
  BY DEF ExampleIInv
<1>2. DOMAIN points' = DOMAIN points /\ \A v \in DOMAIN points : points'[v] = IF v = u THEN n ELSE points[v]
  <2>1. CASE u \in DOMAIN points
    BY <2>1 DEF StorePoints
  <2>2. CASE u \notin DOMAIN points
    BY <2>2 DEF StorePoints
  <2> QED
    BY <2>1, <2>2
<1>3. disturbed' \in BOOLEAN
  BY DEF StorePoints, ExampleIInv, ExampleTypeOK, OthersOvertaken
<1>4. ExampleTypeOK'
  <2>1. DOMAIN points' \subseteq Account /\ \A v \in DOMAIN points' : points'[v] \in Nat
    BY <1>2 DEF ExampleIInv, ExampleTypeOK
  <2> QED
    BY <1>1, <1>3, <2>1 DEF ExampleIInv, ExampleTypeOK, TransferRecord
<1>5. ~disturbed' => u \in DOMAIN points /\ ~OthersOvertaken(c, u) /\ points' = [points EXCEPT ![u] = n]
  BY DEF StorePoints
<1>6. ASSUME ~disturbed' PROVE ReadsHold'
  <2>1. ReadsHold
    BY DEF ExampleIInv
  <2>2. \A d \in Payers \ {c} : /\ transfers[d].pc = "checked" => transfers[d].from # u
                                /\ transfers[d].pc = "found" => transfers[d].to # u
    BY <1>5, <1>6 DEF OthersOvertaken
  <2> QED
    BY <1>1, <1>2, <2>1, <2>2 DEF ReadsHold
<1>7. ASSUME ~disturbed' PROVE PointsKept'
  <2>1. SumOf(points, DOMAIN points) + Carried = total
    BY DEF ExampleIInv, PointsKept, Carried
  <2>2. /\ SumOf(points, DOMAIN points) \in Int
        /\ SumOf(points', DOMAIN points') = SumOf(points, DOMAIN points) - points[u] + n
    BY <1>2, <1>5, <1>7, PointsInt DEF ExampleIInv
  <2>3. /\ points[u] \in Int /\ r.amount \in Int /\ transfers[c].amount \in Int
        /\ Carried \in Int /\ Carried' \in Int
    <3>1. points[u] \in Int
      BY <1>5, <1>7 DEF ExampleIInv, ExampleTypeOK
    <3>2. r.amount \in Int /\ transfers[c].amount \in Int
      BY <1>1 DEF TransferRecord
    <3> QED
      BY <1>1, <3>1, <3>2, CarriedStep
  <2>4. n - points[u] + Carried' = Carried
    <3>1. CASE c \notin InTransit /\ r.pc = "debited" /\ n = points[u] - r.amount
      <4>1. Carried' = Carried + r.amount
        BY <1>1, <3>1, CarriedStep
      <4> QED
        BY <2>3, <3>1, <4>1
    <3>2. CASE c \in InTransit /\ r.pc \notin {"debited", "found"} /\ n = points[u] + transfers[c].amount
      <4>1. Carried' = Carried - transfers[c].amount
        BY <1>1, <3>2, CarriedStep
      <4> QED
        BY <2>3, <3>2, <4>1
    <3> QED
      BY <1>5, <1>7, <3>1, <3>2
  <2>5. \A a, p, k, d \in Int : k - p + d = Carried => (a - p + k) + d = a + Carried
    BY <2>3
  <2>6. SumOf(points', DOMAIN points') + Carried' = total'
    BY <2>1, <2>2, <2>3, <2>4, <2>5
  <2> QED
    BY <2>6 DEF PointsKept, Carried
<1> QED
  BY <1>1, <1>4, <1>6, <1>7 DEF ExampleIInv, PointsKept

LEMMA ExampleSteps == ExampleIInv /\ [ExampleNext]_exampleVars => ExampleIInv'
<1> SUFFICES ASSUME ExampleIInv, [ExampleNext]_exampleVars PROVE ExampleIInv'
  OBVIOUS
<1>1. CASE UNCHANGED <<points, transfers, total, disturbed>>
  BY <1>1 DEF ExampleIInv, ExampleTypeOK, ReadsHold, PointsKept, InTransit, Amount
<1>2. ASSUME NEW c \in Payers, BeginTransfer(c), ~disturbed PROVE ExampleIInv'
  <2>1. PICK from \in Account, to \in Account, amount \in Amounts : transfers' = [transfers EXCEPT ![c] =
            [pc |-> "begun", from |-> from, to |-> to, amount |-> amount, seen |-> 0]]
    BY <1>2 DEF BeginTransfer
  <2> DEFINE r == [pc |-> "begun", from |-> from, to |-> to, amount |-> amount, seen |-> 0]
  <2>2. r \in TransferRecord /\ r.pc = "begun"
    BY ExampleConstantsOK DEF TransferRecord
  <2> HIDE DEF r
  <2>3. transfers' = [transfers EXCEPT ![c] = r]
    BY <2>1 DEF r
  <2>4. c \notin InTransit
    BY <1>2 DEF BeginTransfer, TransferAt, InTransit
  <2>5. UNCHANGED <<points, total>> /\ disturbed' \in BOOLEAN /\ (disturbed => disturbed')
    BY <1>2 DEF BeginTransfer, ExampleIInv, ExampleTypeOK
  <2> QED
    BY <2>2, <2>3, <2>4, <2>5, ReadingHolds
<1>3. ASSUME NEW c \in Payers, ReadSender(c), ~disturbed PROVE ExampleIInv'
  <2> DEFINE t == transfers[c]
             r == [t EXCEPT !.pc = "checked", !.seen = points[t.from]]
  <2>1. t \in TransferRecord /\ t.pc = "begun" /\ c \notin InTransit
    BY <1>3 DEF ReadSender, TransferAt, InTransit, ExampleIInv
  <2>2. UNCHANGED <<points, total>> /\ disturbed' \in BOOLEAN /\ (disturbed => disturbed')
    BY <1>3 DEF ReadSender, ExampleIInv, ExampleTypeOK
  <2>3. CASE EndRequest(c)
    BY <2>1, <2>2, <2>3, NoTransferFits, ReadingHolds DEF EndRequest
  <2>4. CASE ~EndRequest(c)
    <3>1. t.from \in DOMAIN points /\ points[t.from] >= t.amount /\ transfers' = [transfers EXCEPT ![c].pc = "checked", ![c].seen = points[t.from]]
      BY <1>3, <2>4 DEF ReadSender
    <3>2. points[t.from] \in Nat
      BY <3>1 DEF ExampleIInv, ExampleTypeOK
    <3>3. r \in TransferRecord /\ r.pc = "checked" /\ r.from = t.from /\ r.amount = t.amount /\ r.seen = points[t.from]
      BY <2>1, <3>2 DEF TransferRecord
    <3>4. transfers' = [transfers EXCEPT ![c] = r]
      BY <3>1 DEF ExampleIInv
    <3>5. t.amount <= points[t.from]
      BY <2>1, <3>1, <3>2 DEF TransferRecord
    <3>6. /\ r.amount <= r.seen /\ r.from \in DOMAIN points /\ points[r.from] = r.seen
          /\ r \in TransferRecord /\ r.pc \notin {"debited", "found"}
      BY <3>1, <3>3, <3>5
    <3>7. c \notin InTransit
      BY <2>1
    <3> HIDE DEF r, t
    <3> QED
      BY <2>2, <3>4, <3>6, <3>7, ReadingHolds
  <2> QED
    BY <2>3, <2>4
<1>4. ASSUME NEW c \in Payers, Debit(c), ~disturbed PROVE ExampleIInv'
  <2> DEFINE t == transfers[c]
             r == [t EXCEPT !.pc = "debited"]
  <2>1. t \in TransferRecord /\ t.pc = "checked" /\ c \notin InTransit /\ total' = total
    BY <1>4 DEF Debit, TransferAt, InTransit, ExampleIInv
  <2>2. r \in TransferRecord /\ r.pc = "debited" /\ r.amount = t.amount
    BY <2>1 DEF TransferRecord
  <2>3. transfers' = [transfers EXCEPT ![c] = r]
    BY <1>4 DEF Debit, TransferGoesTo, ExampleIInv
  <2>4. t.amount <= t.seen /\ (t.from \in DOMAIN points => points[t.from] = t.seen)
    BY <1>4, <2>1 DEF ExampleIInv, ReadsHold
  <2>5. t.seen - t.amount \in Nat /\ StorePoints(c, t.from, t.seen - t.amount)
    BY <1>4, <2>1, <2>4 DEF Debit, TransferRecord
  <2> HIDE DEF r
  <2> QED
    BY <1>4, <2>1, <2>2, <2>3, <2>4, <2>5, StoringHolds
<1>5. ASSUME NEW c \in Payers, ReadRecipient(c), ~disturbed PROVE ExampleIInv'
  <2> DEFINE t == transfers[c]
             r == [t EXCEPT !.pc = "found", !.seen = points[t.to]]
  <2>1. t \in TransferRecord /\ t.pc = "debited" /\ c \in InTransit
    BY <1>5 DEF ReadRecipient, TransferAt, InTransit, ExampleIInv
  <2>2. UNCHANGED <<points, total>> /\ disturbed' \in BOOLEAN /\ (disturbed => disturbed')
    BY <1>5 DEF ReadRecipient, ExampleIInv, ExampleTypeOK
  <2>3. CASE EndRequest(c) /\ disturbed'
    BY <2>1, <2>2, <2>3, NoTransferFits, ReadingHolds DEF EndRequest
  <2>4. CASE ~(EndRequest(c) /\ disturbed')
    <3>1. t.to \in DOMAIN points /\ transfers' = [transfers EXCEPT ![c].pc = "found", ![c].seen = points[t.to]]
      BY <1>5, <2>4 DEF ReadRecipient
    <3>2. points[t.to] \in Nat
      BY <3>1 DEF ExampleIInv, ExampleTypeOK
    <3>3. r \in TransferRecord /\ r.pc = "found" /\ r.to = t.to /\ r.amount = t.amount /\ r.seen = points[t.to]
      BY <2>1, <3>2 DEF TransferRecord
    <3>4. transfers' = [transfers EXCEPT ![c] = r]
      BY <3>1 DEF ExampleIInv
    <3>5. /\ r.to \in DOMAIN points /\ points[r.to] = r.seen
          /\ r \in TransferRecord /\ r.pc = "found" /\ r.amount = transfers[c].amount
      BY <3>1, <3>3
    <3>6. c \in InTransit
      BY <2>1
    <3> HIDE DEF r, t
    <3> QED
      BY <2>2, <3>4, <3>5, <3>6, ReadingHolds
  <2> QED
    BY <2>3, <2>4
<1>6. ASSUME NEW c \in Payers, Credit(c), ~disturbed PROVE ExampleIInv'
  <2> DEFINE t == transfers[c]
             r == [t EXCEPT !.pc = "credited"]
  <2>1. t \in TransferRecord /\ t.pc = "found" /\ c \in InTransit /\ total' = total
    BY <1>6 DEF Credit, TransferAt, InTransit, ExampleIInv
  <2>2. r \in TransferRecord /\ r.pc = "credited"
    BY <2>1 DEF TransferRecord
  <2>3. transfers' = [transfers EXCEPT ![c] = r]
    BY <1>6 DEF Credit, TransferGoesTo, ExampleIInv
  <2>4. t.to \in DOMAIN points => points[t.to] = t.seen
    BY <1>6, <2>1 DEF ExampleIInv, ReadsHold
  <2>5. t.seen + t.amount \in Nat /\ StorePoints(c, t.to, t.seen + t.amount)
    BY <1>6, <2>1 DEF Credit, TransferRecord
  <2> HIDE DEF r
  <2> QED
    BY <1>6, <2>1, <2>2, <2>3, <2>4, <2>5, StoringHolds
<1>7. ASSUME NEW c \in Payers, EndTransfer(c) \/ TransferFails(c), ~disturbed PROVE ExampleIInv'
  <2>1. /\ UNCHANGED <<points, total>> /\ disturbed' \in BOOLEAN /\ (disturbed => disturbed')
        /\ c \in InTransit => disturbed'
    BY <1>7 DEF EndTransfer, TransferFails, TransferAt, InTransit, ExampleIInv, ExampleTypeOK
  <2>2. transfers' = [transfers EXCEPT ![c] = NoTransfer]
    BY <1>7 DEF EndTransfer, TransferFails, EndRequest
  <2> QED
    BY <2>1, <2>2, NoTransferFits, ReadingHolds
<1>8. ASSUME NEW u \in Account, PutUser(u), ~disturbed PROVE ExampleIInv'
  <2>1. PICK n \in Opening : points' = [points EXCEPT ![u] = n] /\ total' = total + n - points[u]
    BY <1>8 DEF PutUser
  <2>2. u \in DOMAIN points /\ transfers' = transfers /\ disturbed' = Overtakes(u) /\ disturbed' \in BOOLEAN
    BY <1>8 DEF PutUser, Overtakes
  <2>3. DOMAIN points' = DOMAIN points /\ \A v \in DOMAIN points : points'[v] = IF v = u THEN n ELSE points[v]
    BY <2>1
  <2>4. n \in Nat /\ points[u] \in Nat /\ total \in Int
    BY <2>2, ExampleConstantsOK DEF ExampleIInv, ExampleTypeOK
  <2>5. ExampleTypeOK'
    BY <2>1, <2>2, <2>3, <2>4 DEF ExampleIInv, ExampleTypeOK
  <2>6. ASSUME ~disturbed' PROVE ReadsHold'
    BY <1>8, <2>2, <2>3, <2>6 DEF ExampleIInv, ReadsHold, Overtakes
  <2>7. PointsKept'
    <3>1. SumOf(points, DOMAIN points) + Carried = total /\ Carried \in Int /\ Carried' = Carried
      BY <1>8, <2>2, CarriedInt DEF ExampleIInv, PointsKept, Carried, InTransit, Amount
    <3>2. /\ SumOf(points, DOMAIN points) \in Int
          /\ SumOf(points', DOMAIN points') = SumOf(points, DOMAIN points) - points[u] + n
      <4>1. n \in Int /\ u \in DOMAIN points /\ ExampleTypeOK
        BY <2>2, <2>4 DEF ExampleIInv
      <4>2. DOMAIN points' = DOMAIN points /\ points' = [points EXCEPT ![u] = n]
        BY <2>1, <2>3
      <4> QED
        BY <4>1, <4>2, PointsInt
    <3>3. \A a, d, p, k \in Int : (a - p + k) + d = (a + d) + k - p
      OBVIOUS
    <3>4. total' = (SumOf(points, DOMAIN points) + Carried) + n - points[u]
      BY <2>1, <3>1
    <3>5. SumOf(points', DOMAIN points') + Carried' = total'
      BY <2>4, <3>1, <3>2, <3>3, <3>4
    <3> QED
      BY <3>5 DEF PointsKept, Carried
  <2> QED
    BY <2>2, <2>5, <2>6, <2>7 DEF ExampleIInv
<1>9. ASSUME NEW u \in Account, DeleteUser(u), ~disturbed PROVE ExampleIInv'
  <2>1. /\ u \in DOMAIN points /\ points' = [v \in DOMAIN points \ {u} |-> points[v]]
        /\ total' = total - points[u] /\ transfers' = transfers /\ disturbed' = disturbed
    BY <1>9 DEF DeleteUser
  <2>2. DOMAIN points' = DOMAIN points \ {u} /\ \A v \in DOMAIN points' : points'[v] = points[v]
    BY <2>1
  <2>3. points[u] \in Int /\ total \in Int
    BY <2>1 DEF ExampleIInv, ExampleTypeOK
  <2>4. ExampleTypeOK'
    BY <2>1, <2>2, <2>3 DEF ExampleIInv, ExampleTypeOK
  <2>5. ReadsHold'
    BY <1>9, <2>1, <2>2 DEF ExampleIInv, ReadsHold
  <2>6. PointsKept'
    <3>1. SumOf(points, DOMAIN points) + Carried = total /\ Carried \in Int /\ Carried' = Carried
      BY <1>9, <2>1, CarriedInt DEF ExampleIInv, PointsKept, Carried, InTransit, Amount
    <3>2. /\ SumOf(points, DOMAIN points) \in Int
          /\ SumOf(points', DOMAIN points') = SumOf(points, DOMAIN points) - points[u]
      BY <2>1, <2>2, PointsInt DEF ExampleIInv
    <3>3. \A a, d, p \in Int : (a - p) + d = (a + d) - p
      OBVIOUS
    <3>4. SumOf(points', DOMAIN points') + Carried' = total'
      BY <2>1, <2>3, <3>1, <3>2, <3>3
    <3> QED
      BY <3>4 DEF PointsKept, Carried
  <2> QED
    BY <2>1, <2>4, <2>5, <2>6 DEF ExampleIInv
<1> QED
  BY <1>1, <1>2, <1>3, <1>4, <1>5, <1>6, <1>7, <1>8, <1>9 DEF ExampleNext, Ask, exampleVars

LEMMA ExampleInvariant == ExampleSpec => []ExampleIInv
BY ExampleStart, ExampleSteps, PTL DEF ExampleSpec

(* The example keeps users' points natural numbers, through every          *)
(* interleaving of transfers, PUT and DELETE that no overtaken write has   *)
(* disturbed (examples/express-app/src/index.ts:76-92, 308-320).           *)
THEOREM ExampleTypeCorrect == ExampleSpec => []ExampleTypeOK
BY ExampleInvariant, PTL DEF ExampleIInv

(* What a schema command reports of the database is true, of any schemas,  *)
(* and no point is made or lost by the example's transfers, of any number  *)
(* of users and handlers, unless one is cut short or overtaken (lib.ts;    *)
(* examples/express-app/src/index.ts:308-317).                             *)
THEOREM SaidIsTrue == SyncSpec /\ ExampleSpec => []SaidIsSo
BY SyncInvariant, ExampleInvariant, PTL DEF SyncIInv, ExampleIInv, SaidIsSo

\* Two lists of routes, one behind the other.
Appended(t, p, q, m, n) ==
  /\ DOMAIN t = 1 .. m + n
  /\ \A i \in 1 .. m : t[i] = p[i]
  /\ \A i \in 1 .. n : t[m + i] = q[i]
LEMMA RoutesJoin ==
  ASSUME NEW S, NEW p \in Seq(S), NEW q \in Seq(S)
  PROVE  p \o q \in Seq(S) /\ Len(p \o q) = Len(p) + Len(q) /\ Appended(p \o q, p, q, Len(p), Len(q))
<1> DEFINE t == p \o q
           m == Len(p)
           n == Len(q)
<1>1. /\ p \o q \in Seq(S) /\ Len(p \o q) = Len(p) + Len(q)
      /\ \A i \in 1 .. Len(p) + Len(q) : (p \o q)[i] = IF i <= Len(p) THEN p[i] ELSE q[i - Len(p)]
  BY ConcatProperties
<1>2. m \in Nat /\ n \in Nat
  OBVIOUS
<1>3. t \in Seq(S) /\ Len(t) = m + n /\ DOMAIN t = 1 .. m + n /\ \A i \in 1 .. m + n : t[i] = IF i <= m THEN p[i] ELSE q[i - m]
  BY <1>1
<1> HIDE DEF t, m, n
<1>4. \A i \in 1 .. m : t[i] = p[i]
  BY <1>2, <1>3
<1>5. \A i \in 1 .. n : t[m + i] = q[i]
  BY <1>2, <1>3
<1>6. Appended(t, p, q, m, n)
  BY <1>3, <1>4, <1>5 DEF Appended
<1> QED
  BY <1>3, <1>6 DEF t, m, n
LEMMA ListFits ==
  ASSUME NEW n \in Nat, NEW t, t = [i \in 1 .. n |-> t[i]], NEW S, \A i \in 1 .. n : t[i] \in S
  PROVE  t \in Seq(S) /\ Len(t) = n
<1>1. t \in [1 .. n -> S]
  OBVIOUS
<1> QED
  BY <1>1

\* The routes, in the order of their registration.
LEMMA RouteTableIs ==
  /\ DOMAIN RouteTable = 1 .. 37
  /\ RouteTable[1] = UserRoutes[1] /\ RouteTable[2] = UserRoutes[2] /\ RouteTable[3] = UserRoutes[3]
  /\ RouteTable[4] = UserRoutes[4] /\ RouteTable[5] = UserRoutes[5] /\ RouteTable[6] = UserRoutes[6]
  /\ RouteTable[7] = PostRoutes[1] /\ RouteTable[8] = PostRoutes[2] /\ RouteTable[9] = PostRoutes[3]
  /\ RouteTable[10] = PostRoutes[4] /\ RouteTable[11] = PostRoutes[5]
  /\ RouteTable[12] = CommentRoutes[1] /\ RouteTable[13] = CommentRoutes[2]
  /\ RouteTable[14] = StatsRoutes[1] /\ RouteTable[15] = StatsRoutes[2] /\ RouteTable[16] = StatsRoutes[3]
  /\ RouteTable[17] = StatsRoutes[4] /\ RouteTable[18] = StatsRoutes[5] /\ RouteTable[19] = StatsRoutes[6]
  /\ RouteTable[20] = StatsRoutes[7] /\ RouteTable[21] = StatsRoutes[8]
  /\ RouteTable[22] = WriteRoutes[1] /\ RouteTable[23] = WriteRoutes[2] /\ RouteTable[24] = WriteRoutes[3]
  /\ RouteTable[25] = WriteRoutes[4]
  /\ RouteTable[26] = SearchRoutes[1] /\ RouteTable[27] = SearchRoutes[2] /\ RouteTable[28] = SearchRoutes[3]
  /\ RouteTable[29] = SearchRoutes[4] /\ RouteTable[30] = SearchRoutes[5] /\ RouteTable[31] = SearchRoutes[6]
  /\ RouteTable[32] = SearchRoutes[7] /\ RouteTable[33] = SearchRoutes[8] /\ RouteTable[34] = SearchRoutes[9]
  /\ RouteTable[35] = LastRoutes[1] /\ RouteTable[36] = LastRoutes[2] /\ RouteTable[37] = LastRoutes[3]
<1> DEFINE S == {UserRoutes[i] : i \in 1 .. 6} \cup {PostRoutes[i] : i \in 1 .. 5} \cup {CommentRoutes[i] : i \in 1 .. 2}
                 \cup {StatsRoutes[i] : i \in 1 .. 8} \cup {WriteRoutes[i] : i \in 1 .. 4}
                 \cup {SearchRoutes[i] : i \in 1 .. 9} \cup {LastRoutes[i] : i \in 1 .. 3}
<1>1. UserRoutes \in Seq(S) /\ Len(UserRoutes) = 6
  <2>1. UserRoutes = [i \in 1 .. 6 |-> UserRoutes[i]]
    BY DEF UserRoutes
  <2>2. \A i \in 1 .. 6 : UserRoutes[i] \in S
    BY Zenon
  <2> HIDE DEF S
  <2> QED
    BY <2>1, <2>2, ListFits
<1>2. PostRoutes \in Seq(S) /\ Len(PostRoutes) = 5
  <2>1. PostRoutes = [i \in 1 .. 5 |-> PostRoutes[i]]
    BY DEF PostRoutes
  <2>2. \A i \in 1 .. 5 : PostRoutes[i] \in S
    BY Zenon
  <2> HIDE DEF S
  <2> QED
    BY <2>1, <2>2, ListFits
<1>3. CommentRoutes \in Seq(S) /\ Len(CommentRoutes) = 2
  <2>1. CommentRoutes = [i \in 1 .. 2 |-> CommentRoutes[i]]
    BY DEF CommentRoutes
  <2>2. \A i \in 1 .. 2 : CommentRoutes[i] \in S
    BY Zenon
  <2> HIDE DEF S
  <2> QED
    BY <2>1, <2>2, ListFits
<1>4. StatsRoutes \in Seq(S) /\ Len(StatsRoutes) = 8
  <2>1. StatsRoutes = [i \in 1 .. 8 |-> StatsRoutes[i]]
    BY DEF StatsRoutes
  <2>2. \A i \in 1 .. 8 : StatsRoutes[i] \in S
    BY Zenon
  <2> HIDE DEF S
  <2> QED
    BY <2>1, <2>2, ListFits
<1>5. WriteRoutes \in Seq(S) /\ Len(WriteRoutes) = 4
  <2>1. WriteRoutes = [i \in 1 .. 4 |-> WriteRoutes[i]]
    BY DEF WriteRoutes
  <2>2. \A i \in 1 .. 4 : WriteRoutes[i] \in S
    BY Zenon
  <2> HIDE DEF S
  <2> QED
    BY <2>1, <2>2, ListFits
<1>6. SearchRoutes \in Seq(S) /\ Len(SearchRoutes) = 9
  <2>1. SearchRoutes = [i \in 1 .. 9 |-> SearchRoutes[i]]
    BY DEF SearchRoutes
  <2>2. \A i \in 1 .. 9 : SearchRoutes[i] \in S
    BY Zenon
  <2> HIDE DEF S
  <2> QED
    BY <2>1, <2>2, ListFits
<1>7. LastRoutes \in Seq(S) /\ Len(LastRoutes) = 3
  <2>1. LastRoutes = [i \in 1 .. 3 |-> LastRoutes[i]]
    BY DEF LastRoutes
  <2>2. \A i \in 1 .. 3 : LastRoutes[i] \in S
    BY Zenon
  <2> HIDE DEF S
  <2> QED
    BY <2>1, <2>2, ListFits
<1> HIDE DEF S
<1> DEFINE a == UserRoutes \o PostRoutes
           b == a \o CommentRoutes
           c == b \o StatsRoutes
           d == c \o WriteRoutes
           e == d \o SearchRoutes
           f == e \o LastRoutes
<1>8. a \in Seq(S) /\ Len(a) = 6 + 5 /\ Appended(a, UserRoutes, PostRoutes, 6, 5)
  <2>1. a = UserRoutes \o PostRoutes
    OBVIOUS
  <2> HIDE DEF a
  <2>3. a \in Seq(S) /\ Len(a) = Len(UserRoutes) + Len(PostRoutes) /\ Appended(a, UserRoutes, PostRoutes, Len(UserRoutes), Len(PostRoutes))
    BY <1>1, <1>2, <2>1, RoutesJoin
  <2> QED
    BY <1>1, <1>2, <2>3
<1>9. b \in Seq(S) /\ Len(b) = 11 + 2 /\ Appended(b, a, CommentRoutes, 11, 2)
  <2> HIDE DEF a
  <2>1. b = a \o CommentRoutes
    OBVIOUS
  <2> HIDE DEF b
  <2>2. Len(a) = 11
    BY <1>8
  <2>3. b \in Seq(S) /\ Len(b) = Len(a) + Len(CommentRoutes) /\ Appended(b, a, CommentRoutes, Len(a), Len(CommentRoutes))
    BY <1>8, <1>3, <2>1, RoutesJoin
  <2> QED
    BY <1>8, <1>3, <2>2, <2>3
<1>10. c \in Seq(S) /\ Len(c) = 13 + 8 /\ Appended(c, b, StatsRoutes, 13, 8)
  <2> HIDE DEF b
  <2>1. c = b \o StatsRoutes
    OBVIOUS
  <2> HIDE DEF c
  <2>2. Len(b) = 13
    BY <1>9
  <2>3. c \in Seq(S) /\ Len(c) = Len(b) + Len(StatsRoutes) /\ Appended(c, b, StatsRoutes, Len(b), Len(StatsRoutes))
    BY <1>9, <1>4, <2>1, RoutesJoin
  <2> QED
    BY <1>9, <1>4, <2>2, <2>3
<1>11. d \in Seq(S) /\ Len(d) = 21 + 4 /\ Appended(d, c, WriteRoutes, 21, 4)
  <2> HIDE DEF c
  <2>1. d = c \o WriteRoutes
    OBVIOUS
  <2> HIDE DEF d
  <2>2. Len(c) = 21
    BY <1>10
  <2>3. d \in Seq(S) /\ Len(d) = Len(c) + Len(WriteRoutes) /\ Appended(d, c, WriteRoutes, Len(c), Len(WriteRoutes))
    BY <1>10, <1>5, <2>1, RoutesJoin
  <2> QED
    BY <1>10, <1>5, <2>2, <2>3
<1>12. e \in Seq(S) /\ Len(e) = 25 + 9 /\ Appended(e, d, SearchRoutes, 25, 9)
  <2> HIDE DEF d
  <2>1. e = d \o SearchRoutes
    OBVIOUS
  <2> HIDE DEF e
  <2>2. Len(d) = 25
    BY <1>11
  <2>3. e \in Seq(S) /\ Len(e) = Len(d) + Len(SearchRoutes) /\ Appended(e, d, SearchRoutes, Len(d), Len(SearchRoutes))
    BY <1>11, <1>6, <2>1, RoutesJoin
  <2> QED
    BY <1>11, <1>6, <2>2, <2>3
<1>13. f \in Seq(S) /\ Len(f) = 34 + 3 /\ Appended(f, e, LastRoutes, 34, 3)
  <2> HIDE DEF e
  <2>1. f = e \o LastRoutes
    OBVIOUS
  <2> HIDE DEF f
  <2>2. Len(e) = 34
    BY <1>12
  <2>3. f \in Seq(S) /\ Len(f) = Len(e) + Len(LastRoutes) /\ Appended(f, e, LastRoutes, Len(e), Len(LastRoutes))
    BY <1>12, <1>7, <2>1, RoutesJoin
  <2> QED
    BY <1>12, <1>7, <2>2, <2>3
<1>14. RouteTable = f
  BY DEF RouteTable
<1> HIDE DEF a, b, c, d, e, f
<1>15. DOMAIN a = 1 .. 11 /\ (\A i \in 1 .. 6 : a[i] = UserRoutes[i]) /\ a[7] = PostRoutes[1] /\ a[8] = PostRoutes[2] /\ a[9] = PostRoutes[3] /\ a[10] = PostRoutes[4] /\ a[11] = PostRoutes[5]
  <2>1. DOMAIN a = 1 .. 6 + 5 /\ (\A i \in 1 .. 6 : a[i] = UserRoutes[i]) /\ \A i \in 1 .. 5 : a[6 + i] = PostRoutes[i]
    BY <1>8, Zenon DEF Appended
  <2> QED
    BY <2>1
<1>16. DOMAIN b = 1 .. 13 /\ (\A i \in 1 .. 11 : b[i] = a[i]) /\ b[12] = CommentRoutes[1] /\ b[13] = CommentRoutes[2]
  <2>1. DOMAIN b = 1 .. 11 + 2 /\ (\A i \in 1 .. 11 : b[i] = a[i]) /\ \A i \in 1 .. 2 : b[11 + i] = CommentRoutes[i]
    BY <1>9, Zenon DEF Appended
  <2> QED
    BY <2>1
<1>17. DOMAIN c = 1 .. 21 /\ (\A i \in 1 .. 13 : c[i] = b[i]) /\ c[14] = StatsRoutes[1] /\ c[15] = StatsRoutes[2] /\ c[16] = StatsRoutes[3] /\ c[17] = StatsRoutes[4] /\ c[18] = StatsRoutes[5] /\ c[19] = StatsRoutes[6] /\ c[20] = StatsRoutes[7] /\ c[21] = StatsRoutes[8]
  <2>1. DOMAIN c = 1 .. 13 + 8 /\ (\A i \in 1 .. 13 : c[i] = b[i]) /\ \A i \in 1 .. 8 : c[13 + i] = StatsRoutes[i]
    BY <1>10, Zenon DEF Appended
  <2> QED
    BY <2>1
<1>18. DOMAIN d = 1 .. 25 /\ (\A i \in 1 .. 21 : d[i] = c[i]) /\ d[22] = WriteRoutes[1] /\ d[23] = WriteRoutes[2] /\ d[24] = WriteRoutes[3] /\ d[25] = WriteRoutes[4]
  <2>1. DOMAIN d = 1 .. 21 + 4 /\ (\A i \in 1 .. 21 : d[i] = c[i]) /\ \A i \in 1 .. 4 : d[21 + i] = WriteRoutes[i]
    BY <1>11, Zenon DEF Appended
  <2> QED
    BY <2>1
<1>19. DOMAIN e = 1 .. 34 /\ (\A i \in 1 .. 25 : e[i] = d[i]) /\ e[26] = SearchRoutes[1] /\ e[27] = SearchRoutes[2] /\ e[28] = SearchRoutes[3] /\ e[29] = SearchRoutes[4] /\ e[30] = SearchRoutes[5] /\ e[31] = SearchRoutes[6] /\ e[32] = SearchRoutes[7] /\ e[33] = SearchRoutes[8] /\ e[34] = SearchRoutes[9]
  <2>1. DOMAIN e = 1 .. 25 + 9 /\ (\A i \in 1 .. 25 : e[i] = d[i]) /\ \A i \in 1 .. 9 : e[25 + i] = SearchRoutes[i]
    BY <1>12, Zenon DEF Appended
  <2> QED
    BY <2>1
<1>20. DOMAIN f = 1 .. 37 /\ (\A i \in 1 .. 34 : f[i] = e[i]) /\ f[35] = LastRoutes[1] /\ f[36] = LastRoutes[2] /\ f[37] = LastRoutes[3]
  <2>1. DOMAIN f = 1 .. 34 + 3 /\ (\A i \in 1 .. 34 : f[i] = e[i]) /\ \A i \in 1 .. 3 : f[34 + i] = LastRoutes[i]
    BY <1>13, Zenon DEF Appended
  <2> QED
    BY <2>1
<1> QED
  BY <1>14, <1>15, <1>16, <1>17, <1>18, <1>19, <1>20
\* What a route is: its method, the segments of its path, the table it writes.
RouteIs(r, method, path, written) ==
  RouteTable[r][1] = method /\ RouteTable[r][2] = path /\ RouteTable[r][3] = written
LEMMA UserRoutesAre ==
  /\ RouteIs(1, "GET", <<"health">>, {})
  /\ RouteIs(2, "GET", <<"users">>, {})
  /\ RouteIs(3, "GET", <<"users", ":id">>, {})
  /\ RouteIs(4, "POST", <<"users">>, {"users"})
  /\ RouteIs(5, "PUT", <<"users", ":id">>, {"users"})
  /\ RouteIs(6, "DELETE", <<"users", ":id">>, {"users"})
<1>1. RouteIs(1, "GET", <<"health">>, {})
  <2>1. UserRoutes[1] = <<"GET", <<"health">>, {}>>
    BY DEF UserRoutes, Get
  <2>2. RouteTable[1] = UserRoutes[1]
    BY RouteTableIs
  <2> QED
    BY <2>1, <2>2 DEF RouteIs
<1>2. RouteIs(2, "GET", <<"users">>, {})
  <2>1. UserRoutes[2] = <<"GET", <<"users">>, {}>>
    BY DEF UserRoutes, Get
  <2>2. RouteTable[2] = UserRoutes[2]
    BY RouteTableIs
  <2> QED
    BY <2>1, <2>2 DEF RouteIs
<1>3. RouteIs(3, "GET", <<"users", ":id">>, {})
  <2>1. UserRoutes[3] = <<"GET", <<"users", ":id">>, {}>>
    BY DEF UserRoutes, Get
  <2>2. RouteTable[3] = UserRoutes[3]
    BY RouteTableIs
  <2> QED
    BY <2>1, <2>2 DEF RouteIs
<1>4. RouteIs(4, "POST", <<"users">>, {"users"})
  <2>1. UserRoutes[4] = <<"POST", <<"users">>, {"users"}>>
    BY DEF UserRoutes, Get
  <2>2. RouteTable[4] = UserRoutes[4]
    BY RouteTableIs
  <2> QED
    BY <2>1, <2>2 DEF RouteIs
<1>5. RouteIs(5, "PUT", <<"users", ":id">>, {"users"})
  <2>1. UserRoutes[5] = <<"PUT", <<"users", ":id">>, {"users"}>>
    BY DEF UserRoutes, Get
  <2>2. RouteTable[5] = UserRoutes[5]
    BY RouteTableIs
  <2> QED
    BY <2>1, <2>2 DEF RouteIs
<1>6. RouteIs(6, "DELETE", <<"users", ":id">>, {"users"})
  <2>1. UserRoutes[6] = <<"DELETE", <<"users", ":id">>, {"users"}>>
    BY DEF UserRoutes, Get
  <2>2. RouteTable[6] = UserRoutes[6]
    BY RouteTableIs
  <2> QED
    BY <2>1, <2>2 DEF RouteIs
<1> QED
  BY <1>1, <1>2, <1>3, <1>4, <1>5, <1>6
LEMMA PostRoutesAre ==
  /\ RouteIs(7, "GET", <<"posts">>, {})
  /\ RouteIs(8, "GET", <<"posts", ":id">>, {})
  /\ RouteIs(9, "POST", <<"posts">>, {"posts"})
  /\ RouteIs(10, "PUT", <<"posts", ":id">>, {"posts"})
  /\ RouteIs(11, "DELETE", <<"posts", ":id">>, {"posts"})
<1>1. RouteIs(7, "GET", <<"posts">>, {})
  <2>1. PostRoutes[1] = <<"GET", <<"posts">>, {}>>
    BY DEF PostRoutes, Get
  <2>2. RouteTable[7] = PostRoutes[1]
    BY RouteTableIs
  <2> QED
    BY <2>1, <2>2 DEF RouteIs
<1>2. RouteIs(8, "GET", <<"posts", ":id">>, {})
  <2>1. PostRoutes[2] = <<"GET", <<"posts", ":id">>, {}>>
    BY DEF PostRoutes, Get
  <2>2. RouteTable[8] = PostRoutes[2]
    BY RouteTableIs
  <2> QED
    BY <2>1, <2>2 DEF RouteIs
<1>3. RouteIs(9, "POST", <<"posts">>, {"posts"})
  <2>1. PostRoutes[3] = <<"POST", <<"posts">>, {"posts"}>>
    BY DEF PostRoutes, Get
  <2>2. RouteTable[9] = PostRoutes[3]
    BY RouteTableIs
  <2> QED
    BY <2>1, <2>2 DEF RouteIs
<1>4. RouteIs(10, "PUT", <<"posts", ":id">>, {"posts"})
  <2>1. PostRoutes[4] = <<"PUT", <<"posts", ":id">>, {"posts"}>>
    BY DEF PostRoutes, Get
  <2>2. RouteTable[10] = PostRoutes[4]
    BY RouteTableIs
  <2> QED
    BY <2>1, <2>2 DEF RouteIs
<1>5. RouteIs(11, "DELETE", <<"posts", ":id">>, {"posts"})
  <2>1. PostRoutes[5] = <<"DELETE", <<"posts", ":id">>, {"posts"}>>
    BY DEF PostRoutes, Get
  <2>2. RouteTable[11] = PostRoutes[5]
    BY RouteTableIs
  <2> QED
    BY <2>1, <2>2 DEF RouteIs
<1> QED
  BY <1>1, <1>2, <1>3, <1>4, <1>5
LEMMA CommentRoutesAre ==
  /\ RouteIs(12, "GET", <<"comments">>, {})
  /\ RouteIs(13, "POST", <<"comments">>, {"comments"})
<1>1. RouteIs(12, "GET", <<"comments">>, {})
  <2>1. CommentRoutes[1] = <<"GET", <<"comments">>, {}>>
    BY DEF CommentRoutes, Get
  <2>2. RouteTable[12] = CommentRoutes[1]
    BY RouteTableIs
  <2> QED
    BY <2>1, <2>2 DEF RouteIs
<1>2. RouteIs(13, "POST", <<"comments">>, {"comments"})
  <2>1. CommentRoutes[2] = <<"POST", <<"comments">>, {"comments"}>>
    BY DEF CommentRoutes, Get
  <2>2. RouteTable[13] = CommentRoutes[2]
    BY RouteTableIs
  <2> QED
    BY <2>1, <2>2 DEF RouteIs
<1> QED
  BY <1>1, <1>2
LEMMA StatsRoutesAre ==
  /\ RouteIs(14, "GET", <<"stats", "posts">>, {})
  /\ RouteIs(15, "GET", <<"stats", "users", ":id">>, {})
  /\ RouteIs(16, "GET", <<"analytics", "posts", "ranking">>, {})
  /\ RouteIs(17, "GET", <<"analytics", "posts", "lag">>, {})
  /\ RouteIs(18, "GET", <<"analytics", "posts", "by-status">>, {})
  /\ RouteIs(19, "GET", <<"analytics", "posts", "by-author">>, {})
  /\ RouteIs(20, "GET", <<"analytics", "posts", "select-expr">>, {})
  /\ RouteIs(21, "GET", <<"analytics", "posts", "set">>, {})
<1>1. RouteIs(14, "GET", <<"stats", "posts">>, {})
  <2>1. StatsRoutes[1] = <<"GET", <<"stats", "posts">>, {}>>
    BY DEF StatsRoutes, Get
  <2>2. RouteTable[14] = StatsRoutes[1]
    BY RouteTableIs
  <2> QED
    BY <2>1, <2>2 DEF RouteIs
<1>2. RouteIs(15, "GET", <<"stats", "users", ":id">>, {})
  <2>1. StatsRoutes[2] = <<"GET", <<"stats", "users", ":id">>, {}>>
    BY DEF StatsRoutes, Get
  <2>2. RouteTable[15] = StatsRoutes[2]
    BY RouteTableIs
  <2> QED
    BY <2>1, <2>2 DEF RouteIs
<1>3. RouteIs(16, "GET", <<"analytics", "posts", "ranking">>, {})
  <2>1. StatsRoutes[3] = <<"GET", <<"analytics", "posts", "ranking">>, {}>>
    BY DEF StatsRoutes, Get
  <2>2. RouteTable[16] = StatsRoutes[3]
    BY RouteTableIs
  <2> QED
    BY <2>1, <2>2 DEF RouteIs
<1>4. RouteIs(17, "GET", <<"analytics", "posts", "lag">>, {})
  <2>1. StatsRoutes[4] = <<"GET", <<"analytics", "posts", "lag">>, {}>>
    BY DEF StatsRoutes, Get
  <2>2. RouteTable[17] = StatsRoutes[4]
    BY RouteTableIs
  <2> QED
    BY <2>1, <2>2 DEF RouteIs
<1>5. RouteIs(18, "GET", <<"analytics", "posts", "by-status">>, {})
  <2>1. StatsRoutes[5] = <<"GET", <<"analytics", "posts", "by-status">>, {}>>
    BY DEF StatsRoutes, Get
  <2>2. RouteTable[18] = StatsRoutes[5]
    BY RouteTableIs
  <2> QED
    BY <2>1, <2>2 DEF RouteIs
<1>6. RouteIs(19, "GET", <<"analytics", "posts", "by-author">>, {})
  <2>1. StatsRoutes[6] = <<"GET", <<"analytics", "posts", "by-author">>, {}>>
    BY DEF StatsRoutes, Get
  <2>2. RouteTable[19] = StatsRoutes[6]
    BY RouteTableIs
  <2> QED
    BY <2>1, <2>2 DEF RouteIs
<1>7. RouteIs(20, "GET", <<"analytics", "posts", "select-expr">>, {})
  <2>1. StatsRoutes[7] = <<"GET", <<"analytics", "posts", "select-expr">>, {}>>
    BY DEF StatsRoutes, Get
  <2>2. RouteTable[20] = StatsRoutes[7]
    BY RouteTableIs
  <2> QED
    BY <2>1, <2>2 DEF RouteIs
<1>8. RouteIs(21, "GET", <<"analytics", "posts", "set">>, {})
  <2>1. StatsRoutes[8] = <<"GET", <<"analytics", "posts", "set">>, {}>>
    BY DEF StatsRoutes, Get
  <2>2. RouteTable[21] = StatsRoutes[8]
    BY RouteTableIs
  <2> QED
    BY <2>1, <2>2 DEF RouteIs
<1> QED
  BY <1>1, <1>2, <1>3, <1>4, <1>5, <1>6, <1>7, <1>8
LEMMA WriteRoutesAre ==
  /\ RouteIs(22, "POST", <<"categories">>, {"categories"})
  /\ RouteIs(23, "POST", <<"users", "ensure">>, {"users"})
  /\ RouteIs(24, "POST", <<"posts", ":id", "publish">>, {"posts"})
  /\ RouteIs(25, "POST", <<"transfer-points">>, {"users"})
<1>1. RouteIs(22, "POST", <<"categories">>, {"categories"})
  <2>1. WriteRoutes[1] = <<"POST", <<"categories">>, {"categories"}>>
    BY DEF WriteRoutes, Get
  <2>2. RouteTable[22] = WriteRoutes[1]
    BY RouteTableIs
  <2> QED
    BY <2>1, <2>2 DEF RouteIs
<1>2. RouteIs(23, "POST", <<"users", "ensure">>, {"users"})
  <2>1. WriteRoutes[2] = <<"POST", <<"users", "ensure">>, {"users"}>>
    BY DEF WriteRoutes, Get
  <2>2. RouteTable[23] = WriteRoutes[2]
    BY RouteTableIs
  <2> QED
    BY <2>1, <2>2 DEF RouteIs
<1>3. RouteIs(24, "POST", <<"posts", ":id", "publish">>, {"posts"})
  <2>1. WriteRoutes[3] = <<"POST", <<"posts", ":id", "publish">>, {"posts"}>>
    BY DEF WriteRoutes, Get
  <2>2. RouteTable[24] = WriteRoutes[3]
    BY RouteTableIs
  <2> QED
    BY <2>1, <2>2 DEF RouteIs
<1>4. RouteIs(25, "POST", <<"transfer-points">>, {"users"})
  <2>1. WriteRoutes[4] = <<"POST", <<"transfer-points">>, {"users"}>>
    BY DEF WriteRoutes, Get
  <2>2. RouteTable[25] = WriteRoutes[4]
    BY RouteTableIs
  <2> QED
    BY <2>1, <2>2 DEF RouteIs
<1> QED
  BY <1>1, <1>2, <1>3, <1>4
LEMMA SearchRoutesAre ==
  /\ RouteIs(26, "GET", <<"analytics", "posts", "cte">>, {})
  /\ RouteIs(27, "GET", <<"analytics", "posts", "distinct-on">>, {})
  /\ RouteIs(28, "GET", <<"posts", "advanced">>, {})
  /\ RouteIs(29, "GET", <<"posts", "recent">>, {})
  /\ RouteIs(30, "GET", <<"analytics", "posts", "raw-sql">>, {})
  /\ RouteIs(31, "GET", <<"analytics", "custom">>, {})
  /\ RouteIs(32, "GET", <<"search", "posts">>, {})
  /\ RouteIs(33, "GET", <<"users", ":id", "metadata">>, {})
  /\ RouteIs(34, "GET", <<"users", "cursor", ":id">>, {})
<1>1. RouteIs(26, "GET", <<"analytics", "posts", "cte">>, {})
  <2>1. SearchRoutes[1] = <<"GET", <<"analytics", "posts", "cte">>, {}>>
    BY DEF SearchRoutes, Get
  <2>2. RouteTable[26] = SearchRoutes[1]
    BY RouteTableIs
  <2> QED
    BY <2>1, <2>2 DEF RouteIs
<1>2. RouteIs(27, "GET", <<"analytics", "posts", "distinct-on">>, {})
  <2>1. SearchRoutes[2] = <<"GET", <<"analytics", "posts", "distinct-on">>, {}>>
    BY DEF SearchRoutes, Get
  <2>2. RouteTable[27] = SearchRoutes[2]
    BY RouteTableIs
  <2> QED
    BY <2>1, <2>2 DEF RouteIs
<1>3. RouteIs(28, "GET", <<"posts", "advanced">>, {})
  <2>1. SearchRoutes[3] = <<"GET", <<"posts", "advanced">>, {}>>
    BY DEF SearchRoutes, Get
  <2>2. RouteTable[28] = SearchRoutes[3]
    BY RouteTableIs
  <2> QED
    BY <2>1, <2>2 DEF RouteIs
<1>4. RouteIs(29, "GET", <<"posts", "recent">>, {})
  <2>1. SearchRoutes[4] = <<"GET", <<"posts", "recent">>, {}>>
    BY DEF SearchRoutes, Get
  <2>2. RouteTable[29] = SearchRoutes[4]
    BY RouteTableIs
  <2> QED
    BY <2>1, <2>2 DEF RouteIs
<1>5. RouteIs(30, "GET", <<"analytics", "posts", "raw-sql">>, {})
  <2>1. SearchRoutes[5] = <<"GET", <<"analytics", "posts", "raw-sql">>, {}>>
    BY DEF SearchRoutes, Get
  <2>2. RouteTable[30] = SearchRoutes[5]
    BY RouteTableIs
  <2> QED
    BY <2>1, <2>2 DEF RouteIs
<1>6. RouteIs(31, "GET", <<"analytics", "custom">>, {})
  <2>1. SearchRoutes[6] = <<"GET", <<"analytics", "custom">>, {}>>
    BY DEF SearchRoutes, Get
  <2>2. RouteTable[31] = SearchRoutes[6]
    BY RouteTableIs
  <2> QED
    BY <2>1, <2>2 DEF RouteIs
<1>7. RouteIs(32, "GET", <<"search", "posts">>, {})
  <2>1. SearchRoutes[7] = <<"GET", <<"search", "posts">>, {}>>
    BY DEF SearchRoutes, Get
  <2>2. RouteTable[32] = SearchRoutes[7]
    BY RouteTableIs
  <2> QED
    BY <2>1, <2>2 DEF RouteIs
<1>8. RouteIs(33, "GET", <<"users", ":id", "metadata">>, {})
  <2>1. SearchRoutes[8] = <<"GET", <<"users", ":id", "metadata">>, {}>>
    BY DEF SearchRoutes, Get
  <2>2. RouteTable[33] = SearchRoutes[8]
    BY RouteTableIs
  <2> QED
    BY <2>1, <2>2 DEF RouteIs
<1>9. RouteIs(34, "GET", <<"users", "cursor", ":id">>, {})
  <2>1. SearchRoutes[9] = <<"GET", <<"users", "cursor", ":id">>, {}>>
    BY DEF SearchRoutes, Get
  <2>2. RouteTable[34] = SearchRoutes[9]
    BY RouteTableIs
  <2> QED
    BY <2>1, <2>2 DEF RouteIs
<1> QED
  BY <1>1, <1>2, <1>3, <1>4, <1>5, <1>6, <1>7, <1>8, <1>9
LEMMA LastRoutesAre ==
  /\ RouteIs(35, "POST", <<"batch">>, {"any"})
  /\ RouteIs(36, "POST", <<"posts", "bulk">>, {"posts"})
  /\ RouteIs(37, "GET", << >>, {})
<1>1. RouteIs(35, "POST", <<"batch">>, {"any"})
  <2>1. LastRoutes[1] = <<"POST", <<"batch">>, {"any"}>>
    BY DEF LastRoutes, Get
  <2>2. RouteTable[35] = LastRoutes[1]
    BY RouteTableIs
  <2> QED
    BY <2>1, <2>2 DEF RouteIs
<1>2. RouteIs(36, "POST", <<"posts", "bulk">>, {"posts"})
  <2>1. LastRoutes[2] = <<"POST", <<"posts", "bulk">>, {"posts"}>>
    BY DEF LastRoutes, Get
  <2>2. RouteTable[36] = LastRoutes[2]
    BY RouteTableIs
  <2> QED
    BY <2>1, <2>2 DEF RouteIs
<1>3. RouteIs(37, "GET", << >>, {})
  <2>1. LastRoutes[3] = <<"GET", << >>, {}>>
    BY DEF LastRoutes, Get
  <2>2. RouteTable[37] = LastRoutes[3]
    BY RouteTableIs
  <2> QED
    BY <2>1, <2>2 DEF RouteIs
<1> QED
  BY <1>1, <1>2, <1>3

\* The segments of the paths, one by one: of three at most.
Told(r, method, n, first, middle, third) ==
  /\ RouteTable[r][1] = method /\ Len(RouteTable[r][2]) = n /\ DOMAIN RouteTable[r][2] = 1 .. n
  /\ n >= 1 => RouteTable[r][2][1] = first
  /\ n >= 2 => RouteTable[r][2][2] = middle
  /\ n >= 3 => RouteTable[r][2][3] = third
LEMMA UserRoutesTold ==
  /\ Told(1, "GET", 1, "health", "", "")
  /\ Told(2, "GET", 1, "users", "", "")
  /\ Told(3, "GET", 2, "users", ":id", "")
  /\ Told(4, "POST", 1, "users", "", "")
  /\ Told(5, "PUT", 2, "users", ":id", "")
  /\ Told(6, "DELETE", 2, "users", ":id", "")
<1>1. Told(1, "GET", 1, "health", "", "")
  <2>1. RouteTable[1][1] = "GET" /\ RouteTable[1][2] = <<"health">>
    BY UserRoutesAre DEF RouteIs
  <2> QED
    BY <2>1 DEF Told
<1>2. Told(2, "GET", 1, "users", "", "")
  <2>1. RouteTable[2][1] = "GET" /\ RouteTable[2][2] = <<"users">>
    BY UserRoutesAre DEF RouteIs
  <2> QED
    BY <2>1 DEF Told
<1>3. Told(3, "GET", 2, "users", ":id", "")
  <2>1. RouteTable[3][1] = "GET" /\ RouteTable[3][2] = <<"users", ":id">>
    BY UserRoutesAre DEF RouteIs
  <2> QED
    BY <2>1 DEF Told
<1>4. Told(4, "POST", 1, "users", "", "")
  <2>1. RouteTable[4][1] = "POST" /\ RouteTable[4][2] = <<"users">>
    BY UserRoutesAre DEF RouteIs
  <2> QED
    BY <2>1 DEF Told
<1>5. Told(5, "PUT", 2, "users", ":id", "")
  <2>1. RouteTable[5][1] = "PUT" /\ RouteTable[5][2] = <<"users", ":id">>
    BY UserRoutesAre DEF RouteIs
  <2> QED
    BY <2>1 DEF Told
<1>6. Told(6, "DELETE", 2, "users", ":id", "")
  <2>1. RouteTable[6][1] = "DELETE" /\ RouteTable[6][2] = <<"users", ":id">>
    BY UserRoutesAre DEF RouteIs
  <2> QED
    BY <2>1 DEF Told
<1> QED
  BY <1>1, <1>2, <1>3, <1>4, <1>5, <1>6
LEMMA PostRoutesTold ==
  /\ Told(7, "GET", 1, "posts", "", "")
  /\ Told(8, "GET", 2, "posts", ":id", "")
  /\ Told(9, "POST", 1, "posts", "", "")
  /\ Told(10, "PUT", 2, "posts", ":id", "")
  /\ Told(11, "DELETE", 2, "posts", ":id", "")
<1>1. Told(7, "GET", 1, "posts", "", "")
  <2>1. RouteTable[7][1] = "GET" /\ RouteTable[7][2] = <<"posts">>
    BY PostRoutesAre DEF RouteIs
  <2> QED
    BY <2>1 DEF Told
<1>2. Told(8, "GET", 2, "posts", ":id", "")
  <2>1. RouteTable[8][1] = "GET" /\ RouteTable[8][2] = <<"posts", ":id">>
    BY PostRoutesAre DEF RouteIs
  <2> QED
    BY <2>1 DEF Told
<1>3. Told(9, "POST", 1, "posts", "", "")
  <2>1. RouteTable[9][1] = "POST" /\ RouteTable[9][2] = <<"posts">>
    BY PostRoutesAre DEF RouteIs
  <2> QED
    BY <2>1 DEF Told
<1>4. Told(10, "PUT", 2, "posts", ":id", "")
  <2>1. RouteTable[10][1] = "PUT" /\ RouteTable[10][2] = <<"posts", ":id">>
    BY PostRoutesAre DEF RouteIs
  <2> QED
    BY <2>1 DEF Told
<1>5. Told(11, "DELETE", 2, "posts", ":id", "")
  <2>1. RouteTable[11][1] = "DELETE" /\ RouteTable[11][2] = <<"posts", ":id">>
    BY PostRoutesAre DEF RouteIs
  <2> QED
    BY <2>1 DEF Told
<1> QED
  BY <1>1, <1>2, <1>3, <1>4, <1>5
LEMMA CommentRoutesTold ==
  /\ Told(12, "GET", 1, "comments", "", "")
  /\ Told(13, "POST", 1, "comments", "", "")
<1>1. Told(12, "GET", 1, "comments", "", "")
  <2>1. RouteTable[12][1] = "GET" /\ RouteTable[12][2] = <<"comments">>
    BY CommentRoutesAre DEF RouteIs
  <2> QED
    BY <2>1 DEF Told
<1>2. Told(13, "POST", 1, "comments", "", "")
  <2>1. RouteTable[13][1] = "POST" /\ RouteTable[13][2] = <<"comments">>
    BY CommentRoutesAre DEF RouteIs
  <2> QED
    BY <2>1 DEF Told
<1> QED
  BY <1>1, <1>2
LEMMA StatsRoutesTold ==
  /\ Told(14, "GET", 2, "stats", "posts", "")
  /\ Told(15, "GET", 3, "stats", "users", ":id")
  /\ Told(16, "GET", 3, "analytics", "posts", "ranking")
  /\ Told(17, "GET", 3, "analytics", "posts", "lag")
  /\ Told(18, "GET", 3, "analytics", "posts", "by-status")
  /\ Told(19, "GET", 3, "analytics", "posts", "by-author")
  /\ Told(20, "GET", 3, "analytics", "posts", "select-expr")
  /\ Told(21, "GET", 3, "analytics", "posts", "set")
<1>1. Told(14, "GET", 2, "stats", "posts", "")
  <2>1. RouteTable[14][1] = "GET" /\ RouteTable[14][2] = <<"stats", "posts">>
    BY StatsRoutesAre DEF RouteIs
  <2> QED
    BY <2>1 DEF Told
<1>2. Told(15, "GET", 3, "stats", "users", ":id")
  <2>1. RouteTable[15][1] = "GET" /\ RouteTable[15][2] = <<"stats", "users", ":id">>
    BY StatsRoutesAre DEF RouteIs
  <2> QED
    BY <2>1 DEF Told
<1>3. Told(16, "GET", 3, "analytics", "posts", "ranking")
  <2>1. RouteTable[16][1] = "GET" /\ RouteTable[16][2] = <<"analytics", "posts", "ranking">>
    BY StatsRoutesAre DEF RouteIs
  <2> QED
    BY <2>1 DEF Told
<1>4. Told(17, "GET", 3, "analytics", "posts", "lag")
  <2>1. RouteTable[17][1] = "GET" /\ RouteTable[17][2] = <<"analytics", "posts", "lag">>
    BY StatsRoutesAre DEF RouteIs
  <2> QED
    BY <2>1 DEF Told
<1>5. Told(18, "GET", 3, "analytics", "posts", "by-status")
  <2>1. RouteTable[18][1] = "GET" /\ RouteTable[18][2] = <<"analytics", "posts", "by-status">>
    BY StatsRoutesAre DEF RouteIs
  <2> QED
    BY <2>1 DEF Told
<1>6. Told(19, "GET", 3, "analytics", "posts", "by-author")
  <2>1. RouteTable[19][1] = "GET" /\ RouteTable[19][2] = <<"analytics", "posts", "by-author">>
    BY StatsRoutesAre DEF RouteIs
  <2> QED
    BY <2>1 DEF Told
<1>7. Told(20, "GET", 3, "analytics", "posts", "select-expr")
  <2>1. RouteTable[20][1] = "GET" /\ RouteTable[20][2] = <<"analytics", "posts", "select-expr">>
    BY StatsRoutesAre DEF RouteIs
  <2> QED
    BY <2>1 DEF Told
<1>8. Told(21, "GET", 3, "analytics", "posts", "set")
  <2>1. RouteTable[21][1] = "GET" /\ RouteTable[21][2] = <<"analytics", "posts", "set">>
    BY StatsRoutesAre DEF RouteIs
  <2> QED
    BY <2>1 DEF Told
<1> QED
  BY <1>1, <1>2, <1>3, <1>4, <1>5, <1>6, <1>7, <1>8
LEMMA WriteRoutesTold ==
  /\ Told(22, "POST", 1, "categories", "", "")
  /\ Told(23, "POST", 2, "users", "ensure", "")
  /\ Told(24, "POST", 3, "posts", ":id", "publish")
  /\ Told(25, "POST", 1, "transfer-points", "", "")
<1>1. Told(22, "POST", 1, "categories", "", "")
  <2>1. RouteTable[22][1] = "POST" /\ RouteTable[22][2] = <<"categories">>
    BY WriteRoutesAre DEF RouteIs
  <2> QED
    BY <2>1 DEF Told
<1>2. Told(23, "POST", 2, "users", "ensure", "")
  <2>1. RouteTable[23][1] = "POST" /\ RouteTable[23][2] = <<"users", "ensure">>
    BY WriteRoutesAre DEF RouteIs
  <2> QED
    BY <2>1 DEF Told
<1>3. Told(24, "POST", 3, "posts", ":id", "publish")
  <2>1. RouteTable[24][1] = "POST" /\ RouteTable[24][2] = <<"posts", ":id", "publish">>
    BY WriteRoutesAre DEF RouteIs
  <2> QED
    BY <2>1 DEF Told
<1>4. Told(25, "POST", 1, "transfer-points", "", "")
  <2>1. RouteTable[25][1] = "POST" /\ RouteTable[25][2] = <<"transfer-points">>
    BY WriteRoutesAre DEF RouteIs
  <2> QED
    BY <2>1 DEF Told
<1> QED
  BY <1>1, <1>2, <1>3, <1>4
LEMMA SearchRoutesTold ==
  /\ Told(26, "GET", 3, "analytics", "posts", "cte")
  /\ Told(27, "GET", 3, "analytics", "posts", "distinct-on")
  /\ Told(28, "GET", 2, "posts", "advanced", "")
  /\ Told(29, "GET", 2, "posts", "recent", "")
  /\ Told(30, "GET", 3, "analytics", "posts", "raw-sql")
  /\ Told(31, "GET", 2, "analytics", "custom", "")
  /\ Told(32, "GET", 2, "search", "posts", "")
  /\ Told(33, "GET", 3, "users", ":id", "metadata")
  /\ Told(34, "GET", 3, "users", "cursor", ":id")
<1>1. Told(26, "GET", 3, "analytics", "posts", "cte")
  <2>1. RouteTable[26][1] = "GET" /\ RouteTable[26][2] = <<"analytics", "posts", "cte">>
    BY SearchRoutesAre DEF RouteIs
  <2> QED
    BY <2>1 DEF Told
<1>2. Told(27, "GET", 3, "analytics", "posts", "distinct-on")
  <2>1. RouteTable[27][1] = "GET" /\ RouteTable[27][2] = <<"analytics", "posts", "distinct-on">>
    BY SearchRoutesAre DEF RouteIs
  <2> QED
    BY <2>1 DEF Told
<1>3. Told(28, "GET", 2, "posts", "advanced", "")
  <2>1. RouteTable[28][1] = "GET" /\ RouteTable[28][2] = <<"posts", "advanced">>
    BY SearchRoutesAre DEF RouteIs
  <2> QED
    BY <2>1 DEF Told
<1>4. Told(29, "GET", 2, "posts", "recent", "")
  <2>1. RouteTable[29][1] = "GET" /\ RouteTable[29][2] = <<"posts", "recent">>
    BY SearchRoutesAre DEF RouteIs
  <2> QED
    BY <2>1 DEF Told
<1>5. Told(30, "GET", 3, "analytics", "posts", "raw-sql")
  <2>1. RouteTable[30][1] = "GET" /\ RouteTable[30][2] = <<"analytics", "posts", "raw-sql">>
    BY SearchRoutesAre DEF RouteIs
  <2> QED
    BY <2>1 DEF Told
<1>6. Told(31, "GET", 2, "analytics", "custom", "")
  <2>1. RouteTable[31][1] = "GET" /\ RouteTable[31][2] = <<"analytics", "custom">>
    BY SearchRoutesAre DEF RouteIs
  <2> QED
    BY <2>1 DEF Told
<1>7. Told(32, "GET", 2, "search", "posts", "")
  <2>1. RouteTable[32][1] = "GET" /\ RouteTable[32][2] = <<"search", "posts">>
    BY SearchRoutesAre DEF RouteIs
  <2> QED
    BY <2>1 DEF Told
<1>8. Told(33, "GET", 3, "users", ":id", "metadata")
  <2>1. RouteTable[33][1] = "GET" /\ RouteTable[33][2] = <<"users", ":id", "metadata">>
    BY SearchRoutesAre DEF RouteIs
  <2> QED
    BY <2>1 DEF Told
<1>9. Told(34, "GET", 3, "users", "cursor", ":id")
  <2>1. RouteTable[34][1] = "GET" /\ RouteTable[34][2] = <<"users", "cursor", ":id">>
    BY SearchRoutesAre DEF RouteIs
  <2> QED
    BY <2>1 DEF Told
<1> QED
  BY <1>1, <1>2, <1>3, <1>4, <1>5, <1>6, <1>7, <1>8, <1>9
LEMMA LastRoutesTold ==
  /\ Told(35, "POST", 1, "batch", "", "")
  /\ Told(36, "POST", 2, "posts", "bulk", "")
  /\ Told(37, "GET", 0, "", "", "")
<1>1. Told(35, "POST", 1, "batch", "", "")
  <2>1. RouteTable[35][1] = "POST" /\ RouteTable[35][2] = <<"batch">>
    BY LastRoutesAre DEF RouteIs
  <2> QED
    BY <2>1 DEF Told
<1>2. Told(36, "POST", 2, "posts", "bulk", "")
  <2>1. RouteTable[36][1] = "POST" /\ RouteTable[36][2] = <<"posts", "bulk">>
    BY LastRoutesAre DEF RouteIs
  <2> QED
    BY <2>1 DEF Told
<1>3. Told(37, "GET", 0, "", "", "")
  <2>1. RouteTable[37][1] = "GET" /\ RouteTable[37][2] = << >>
    BY LastRoutesAre DEF RouteIs
  <2> QED
    BY <2>1 DEF Told
<1> QED
  BY <1>1, <1>2, <1>3

Agrees(b, r) == RouteFits(b, RouteTable[r][1], Filled(RouteTable[r][2]))
\* A request for route r fits b.
Meets(b, r) ==
  /\ RouteTable[b][1] = RouteTable[r][1] /\ Len(RouteTable[b][2]) = Len(RouteTable[r][2])
  /\ \A i \in DOMAIN RouteTable[r][2] :
       RouteTable[b][2][i] \in {":id", IF RouteTable[r][2][i] = ":id" THEN "1d" ELSE RouteTable[r][2][i]}
\* No route before it fits what a route is meant for, but for two.
LEMMA UserRoutesFirst ==
  /\ \A b \in 1 .. 0 : ~Meets(b, 1)
  /\ \A b \in 1 .. 1 : ~Meets(b, 2)
  /\ \A b \in 1 .. 2 : ~Meets(b, 3)
  /\ \A b \in 1 .. 3 : ~Meets(b, 4)
  /\ \A b \in 1 .. 4 : ~Meets(b, 5)
  /\ \A b \in 1 .. 5 : ~Meets(b, 6)
<1>1. ASSUME NEW b \in 1 .. 0 PROVE ~Meets(b, 1)
  BY UserRoutesTold DEF Told, Meets
<1>2. ASSUME NEW b \in 1 .. 1 PROVE ~Meets(b, 2)
  BY UserRoutesTold DEF Told, Meets
<1>3. ASSUME NEW b \in 1 .. 2 PROVE ~Meets(b, 3)
  BY UserRoutesTold DEF Told, Meets
<1>4. ASSUME NEW b \in 1 .. 3 PROVE ~Meets(b, 4)
  BY UserRoutesTold DEF Told, Meets
<1>5. ASSUME NEW b \in 1 .. 4 PROVE ~Meets(b, 5)
  BY UserRoutesTold DEF Told, Meets
<1>6. ASSUME NEW b \in 1 .. 5 PROVE ~Meets(b, 6)
  BY UserRoutesTold DEF Told, Meets
<1> QED
  BY <1>1, <1>2, <1>3, <1>4, <1>5, <1>6
LEMMA PostRoutesFirst ==
  /\ \A b \in 1 .. 6 : ~Meets(b, 7)
  /\ \A b \in 1 .. 7 : ~Meets(b, 8)
  /\ \A b \in 1 .. 8 : ~Meets(b, 9)
  /\ \A b \in 1 .. 9 : ~Meets(b, 10)
  /\ \A b \in 1 .. 10 : ~Meets(b, 11)
<1>7. ASSUME NEW b \in 1 .. 6 PROVE ~Meets(b, 7)
  BY UserRoutesTold, PostRoutesTold DEF Told, Meets
<1>8. ASSUME NEW b \in 1 .. 7 PROVE ~Meets(b, 8)
  BY UserRoutesTold, PostRoutesTold DEF Told, Meets
<1>9. ASSUME NEW b \in 1 .. 8 PROVE ~Meets(b, 9)
  BY UserRoutesTold, PostRoutesTold DEF Told, Meets
<1>10. ASSUME NEW b \in 1 .. 9 PROVE ~Meets(b, 10)
  BY UserRoutesTold, PostRoutesTold DEF Told, Meets
<1>11. ASSUME NEW b \in 1 .. 10 PROVE ~Meets(b, 11)
  BY UserRoutesTold, PostRoutesTold DEF Told, Meets
<1> QED
  BY <1>7, <1>8, <1>9, <1>10, <1>11
LEMMA CommentRoutesFirst ==
  /\ \A b \in 1 .. 11 : ~Meets(b, 12)
  /\ \A b \in 1 .. 12 : ~Meets(b, 13)
<1>12. ASSUME NEW b \in 1 .. 11 PROVE ~Meets(b, 12)
  BY UserRoutesTold, PostRoutesTold, CommentRoutesTold DEF Told, Meets
<1>13. ASSUME NEW b \in 1 .. 12 PROVE ~Meets(b, 13)
  BY UserRoutesTold, PostRoutesTold, CommentRoutesTold DEF Told, Meets
<1> QED
  BY <1>12, <1>13
LEMMA StatsRoutesFirst ==
  /\ \A b \in 1 .. 13 : ~Meets(b, 14)
  /\ \A b \in 1 .. 14 : ~Meets(b, 15)
  /\ \A b \in 1 .. 15 : ~Meets(b, 16)
  /\ \A b \in 1 .. 16 : ~Meets(b, 17)
  /\ \A b \in 1 .. 17 : ~Meets(b, 18)
  /\ \A b \in 1 .. 18 : ~Meets(b, 19)
  /\ \A b \in 1 .. 19 : ~Meets(b, 20)
  /\ \A b \in 1 .. 20 : ~Meets(b, 21)
<1>14. ASSUME NEW b \in 1 .. 13 PROVE ~Meets(b, 14)
  BY UserRoutesTold, PostRoutesTold, CommentRoutesTold, StatsRoutesTold DEF Told, Meets
<1>15. ASSUME NEW b \in 1 .. 14 PROVE ~Meets(b, 15)
  BY UserRoutesTold, PostRoutesTold, CommentRoutesTold, StatsRoutesTold DEF Told, Meets
<1>16. ASSUME NEW b \in 1 .. 15 PROVE ~Meets(b, 16)
  BY UserRoutesTold, PostRoutesTold, CommentRoutesTold, StatsRoutesTold DEF Told, Meets
<1>17. ASSUME NEW b \in 1 .. 16 PROVE ~Meets(b, 17)
  BY UserRoutesTold, PostRoutesTold, CommentRoutesTold, StatsRoutesTold DEF Told, Meets
<1>18. ASSUME NEW b \in 1 .. 17 PROVE ~Meets(b, 18)
  BY UserRoutesTold, PostRoutesTold, CommentRoutesTold, StatsRoutesTold DEF Told, Meets
<1>19. ASSUME NEW b \in 1 .. 18 PROVE ~Meets(b, 19)
  BY UserRoutesTold, PostRoutesTold, CommentRoutesTold, StatsRoutesTold DEF Told, Meets
<1>20. ASSUME NEW b \in 1 .. 19 PROVE ~Meets(b, 20)
  BY UserRoutesTold, PostRoutesTold, CommentRoutesTold, StatsRoutesTold DEF Told, Meets
<1>21. ASSUME NEW b \in 1 .. 20 PROVE ~Meets(b, 21)
  BY UserRoutesTold, PostRoutesTold, CommentRoutesTold, StatsRoutesTold DEF Told, Meets
<1> QED
  BY <1>14, <1>15, <1>16, <1>17, <1>18, <1>19, <1>20, <1>21
LEMMA WriteRoutesFirst ==
  /\ \A b \in 1 .. 21 : ~Meets(b, 22)
  /\ \A b \in 1 .. 22 : ~Meets(b, 23)
  /\ \A b \in 1 .. 23 : ~Meets(b, 24)
  /\ \A b \in 1 .. 24 : ~Meets(b, 25)
<1>22. ASSUME NEW b \in 1 .. 21 PROVE ~Meets(b, 22)
  BY UserRoutesTold, PostRoutesTold, CommentRoutesTold, StatsRoutesTold, WriteRoutesTold DEF Told, Meets
<1>23. ASSUME NEW b \in 1 .. 22 PROVE ~Meets(b, 23)
  BY UserRoutesTold, PostRoutesTold, CommentRoutesTold, StatsRoutesTold, WriteRoutesTold DEF Told, Meets
<1>24. ASSUME NEW b \in 1 .. 23 PROVE ~Meets(b, 24)
  <2>1. b \in 1 .. 6 => ~Meets(b, 24)
    BY UserRoutesTold, WriteRoutesTold DEF Told, Meets
  <2>2. b \in 7 .. 11 => ~Meets(b, 24)
    BY PostRoutesTold, WriteRoutesTold DEF Told, Meets
  <2>3. b \in 12 .. 13 => ~Meets(b, 24)
    BY CommentRoutesTold, WriteRoutesTold DEF Told, Meets
  <2>4. b \in 14 .. 21 => ~Meets(b, 24)
    BY StatsRoutesTold, WriteRoutesTold DEF Told, Meets
  <2>5. b \in 22 .. 23 => ~Meets(b, 24)
    BY WriteRoutesTold DEF Told, Meets
  <2> QED
    BY <2>1, <2>2, <2>3, <2>4, <2>5
<1>25. ASSUME NEW b \in 1 .. 24 PROVE ~Meets(b, 25)
  <2>1. b \in 1 .. 6 => ~Meets(b, 25)
    BY UserRoutesTold, WriteRoutesTold DEF Told, Meets
  <2>2. b \in 7 .. 11 => ~Meets(b, 25)
    BY PostRoutesTold, WriteRoutesTold DEF Told, Meets
  <2>3. b \in 12 .. 13 => ~Meets(b, 25)
    BY CommentRoutesTold, WriteRoutesTold DEF Told, Meets
  <2>4. b \in 14 .. 21 => ~Meets(b, 25)
    BY StatsRoutesTold, WriteRoutesTold DEF Told, Meets
  <2>5. b \in 22 .. 24 => ~Meets(b, 25)
    BY WriteRoutesTold DEF Told, Meets
  <2> QED
    BY <2>1, <2>2, <2>3, <2>4, <2>5
<1> QED
  BY <1>22, <1>23, <1>24, <1>25
LEMMA SearchRoutesFirst ==
  /\ \A b \in 1 .. 25 : ~Meets(b, 26)
  /\ \A b \in 1 .. 26 : ~Meets(b, 27)
  /\ \A b \in 1 .. 29 : ~Meets(b, 30)
  /\ \A b \in 1 .. 30 : ~Meets(b, 31)
  /\ \A b \in 1 .. 31 : ~Meets(b, 32)
  /\ \A b \in 1 .. 32 : ~Meets(b, 33)
  /\ \A b \in 1 .. 33 : ~Meets(b, 34)
<1>26. ASSUME NEW b \in 1 .. 25 PROVE ~Meets(b, 26)
  <2>1. b \in 1 .. 6 => ~Meets(b, 26)
    BY UserRoutesTold, SearchRoutesTold DEF Told, Meets
  <2>2. b \in 7 .. 11 => ~Meets(b, 26)
    BY PostRoutesTold, SearchRoutesTold DEF Told, Meets
  <2>3. b \in 12 .. 13 => ~Meets(b, 26)
    BY CommentRoutesTold, SearchRoutesTold DEF Told, Meets
  <2>4. b \in 14 .. 21 => ~Meets(b, 26)
    BY StatsRoutesTold, SearchRoutesTold DEF Told, Meets
  <2>5. b \in 22 .. 25 => ~Meets(b, 26)
    BY WriteRoutesTold, SearchRoutesTold DEF Told, Meets
  <2> QED
    BY <2>1, <2>2, <2>3, <2>4, <2>5
<1>27. ASSUME NEW b \in 1 .. 26 PROVE ~Meets(b, 27)
  <2>1. b \in 1 .. 6 => ~Meets(b, 27)
    BY UserRoutesTold, SearchRoutesTold DEF Told, Meets
  <2>2. b \in 7 .. 11 => ~Meets(b, 27)
    BY PostRoutesTold, SearchRoutesTold DEF Told, Meets
  <2>3. b \in 12 .. 13 => ~Meets(b, 27)
    BY CommentRoutesTold, SearchRoutesTold DEF Told, Meets
  <2>4. b \in 14 .. 21 => ~Meets(b, 27)
    BY StatsRoutesTold, SearchRoutesTold DEF Told, Meets
  <2>5. b \in 22 .. 25 => ~Meets(b, 27)
    BY WriteRoutesTold, SearchRoutesTold DEF Told, Meets
  <2>6. b \in 26 .. 26 => ~Meets(b, 27)
    BY SearchRoutesTold DEF Told, Meets
  <2> QED
    BY <2>1, <2>2, <2>3, <2>4, <2>5, <2>6
<1>30. ASSUME NEW b \in 1 .. 29 PROVE ~Meets(b, 30)
  <2>1. b \in 1 .. 6 => ~Meets(b, 30)
    BY UserRoutesTold, SearchRoutesTold DEF Told, Meets
  <2>2. b \in 7 .. 11 => ~Meets(b, 30)
    BY PostRoutesTold, SearchRoutesTold DEF Told, Meets
  <2>3. b \in 12 .. 13 => ~Meets(b, 30)
    BY CommentRoutesTold, SearchRoutesTold DEF Told, Meets
  <2>4. b \in 14 .. 21 => ~Meets(b, 30)
    BY StatsRoutesTold, SearchRoutesTold DEF Told, Meets
  <2>5. b \in 22 .. 25 => ~Meets(b, 30)
    BY WriteRoutesTold, SearchRoutesTold DEF Told, Meets
  <2>6. b \in 26 .. 29 => ~Meets(b, 30)
    BY SearchRoutesTold DEF Told, Meets
  <2> QED
    BY <2>1, <2>2, <2>3, <2>4, <2>5, <2>6
<1>31. ASSUME NEW b \in 1 .. 30 PROVE ~Meets(b, 31)
  <2>1. b \in 1 .. 6 => ~Meets(b, 31)
    BY UserRoutesTold, SearchRoutesTold DEF Told, Meets
  <2>2. b \in 7 .. 11 => ~Meets(b, 31)
    BY PostRoutesTold, SearchRoutesTold DEF Told, Meets
  <2>3. b \in 12 .. 13 => ~Meets(b, 31)
    BY CommentRoutesTold, SearchRoutesTold DEF Told, Meets
  <2>4. b \in 14 .. 21 => ~Meets(b, 31)
    BY StatsRoutesTold, SearchRoutesTold DEF Told, Meets
  <2>5. b \in 22 .. 25 => ~Meets(b, 31)
    BY WriteRoutesTold, SearchRoutesTold DEF Told, Meets
  <2>6. b \in 26 .. 30 => ~Meets(b, 31)
    BY SearchRoutesTold DEF Told, Meets
  <2> QED
    BY <2>1, <2>2, <2>3, <2>4, <2>5, <2>6
<1>32. ASSUME NEW b \in 1 .. 31 PROVE ~Meets(b, 32)
  <2>1. b \in 1 .. 6 => ~Meets(b, 32)
    BY UserRoutesTold, SearchRoutesTold DEF Told, Meets
  <2>2. b \in 7 .. 11 => ~Meets(b, 32)
    BY PostRoutesTold, SearchRoutesTold DEF Told, Meets
  <2>3. b \in 12 .. 13 => ~Meets(b, 32)
    BY CommentRoutesTold, SearchRoutesTold DEF Told, Meets
  <2>4. b \in 14 .. 21 => ~Meets(b, 32)
    BY StatsRoutesTold, SearchRoutesTold DEF Told, Meets
  <2>5. b \in 22 .. 25 => ~Meets(b, 32)
    BY WriteRoutesTold, SearchRoutesTold DEF Told, Meets
  <2>6. b \in 26 .. 31 => ~Meets(b, 32)
    BY SearchRoutesTold DEF Told, Meets
  <2> QED
    BY <2>1, <2>2, <2>3, <2>4, <2>5, <2>6
<1>33. ASSUME NEW b \in 1 .. 32 PROVE ~Meets(b, 33)
  <2>1. b \in 1 .. 6 => ~Meets(b, 33)
    BY UserRoutesTold, SearchRoutesTold DEF Told, Meets
  <2>2. b \in 7 .. 11 => ~Meets(b, 33)
    BY PostRoutesTold, SearchRoutesTold DEF Told, Meets
  <2>3. b \in 12 .. 13 => ~Meets(b, 33)
    BY CommentRoutesTold, SearchRoutesTold DEF Told, Meets
  <2>4. b \in 14 .. 21 => ~Meets(b, 33)
    BY StatsRoutesTold, SearchRoutesTold DEF Told, Meets
  <2>5. b \in 22 .. 25 => ~Meets(b, 33)
    BY WriteRoutesTold, SearchRoutesTold DEF Told, Meets
  <2>6. b \in 26 .. 32 => ~Meets(b, 33)
    BY SearchRoutesTold DEF Told, Meets
  <2> QED
    BY <2>1, <2>2, <2>3, <2>4, <2>5, <2>6
<1>34. ASSUME NEW b \in 1 .. 33 PROVE ~Meets(b, 34)
  <2>1. b \in 1 .. 6 => ~Meets(b, 34)
    BY UserRoutesTold, SearchRoutesTold DEF Told, Meets
  <2>2. b \in 7 .. 11 => ~Meets(b, 34)
    BY PostRoutesTold, SearchRoutesTold DEF Told, Meets
  <2>3. b \in 12 .. 13 => ~Meets(b, 34)
    BY CommentRoutesTold, SearchRoutesTold DEF Told, Meets
  <2>4. b \in 14 .. 21 => ~Meets(b, 34)
    BY StatsRoutesTold, SearchRoutesTold DEF Told, Meets
  <2>5. b \in 22 .. 25 => ~Meets(b, 34)
    BY WriteRoutesTold, SearchRoutesTold DEF Told, Meets
  <2>6. b \in 26 .. 33 => ~Meets(b, 34)
    BY SearchRoutesTold DEF Told, Meets
  <2> QED
    BY <2>1, <2>2, <2>3, <2>4, <2>5, <2>6
<1> QED
  BY <1>26, <1>27, <1>30, <1>31, <1>32, <1>33, <1>34
LEMMA LastRoutesFirst ==
  /\ \A b \in 1 .. 34 : ~Meets(b, 35)
  /\ \A b \in 1 .. 35 : ~Meets(b, 36)
  /\ \A b \in 1 .. 36 : ~Meets(b, 37)
<1>35. ASSUME NEW b \in 1 .. 34 PROVE ~Meets(b, 35)
  <2>1. b \in 1 .. 6 => ~Meets(b, 35)
    BY UserRoutesTold, LastRoutesTold DEF Told, Meets
  <2>2. b \in 7 .. 11 => ~Meets(b, 35)
    BY PostRoutesTold, LastRoutesTold DEF Told, Meets
  <2>3. b \in 12 .. 13 => ~Meets(b, 35)
    BY CommentRoutesTold, LastRoutesTold DEF Told, Meets
  <2>4. b \in 14 .. 21 => ~Meets(b, 35)
    BY StatsRoutesTold, LastRoutesTold DEF Told, Meets
  <2>5. b \in 22 .. 25 => ~Meets(b, 35)
    BY WriteRoutesTold, LastRoutesTold DEF Told, Meets
  <2>6. b \in 26 .. 34 => ~Meets(b, 35)
    BY SearchRoutesTold, LastRoutesTold DEF Told, Meets
  <2> QED
    BY <2>1, <2>2, <2>3, <2>4, <2>5, <2>6
<1>36. ASSUME NEW b \in 1 .. 35 PROVE ~Meets(b, 36)
  <2>1. b \in 1 .. 6 => ~Meets(b, 36)
    BY UserRoutesTold, LastRoutesTold DEF Told, Meets
  <2>2. b \in 7 .. 11 => ~Meets(b, 36)
    BY PostRoutesTold, LastRoutesTold DEF Told, Meets
  <2>3. b \in 12 .. 13 => ~Meets(b, 36)
    BY CommentRoutesTold, LastRoutesTold DEF Told, Meets
  <2>4. b \in 14 .. 21 => ~Meets(b, 36)
    BY StatsRoutesTold, LastRoutesTold DEF Told, Meets
  <2>5. b \in 22 .. 25 => ~Meets(b, 36)
    BY WriteRoutesTold, LastRoutesTold DEF Told, Meets
  <2>6. b \in 26 .. 34 => ~Meets(b, 36)
    BY SearchRoutesTold, LastRoutesTold DEF Told, Meets
  <2>7. b \in 35 .. 35 => ~Meets(b, 36)
    BY LastRoutesTold DEF Told, Meets
  <2> QED
    BY <2>1, <2>2, <2>3, <2>4, <2>5, <2>6, <2>7
<1>37. ASSUME NEW b \in 1 .. 36 PROVE ~Meets(b, 37)
  <2>1. b \in 1 .. 6 => ~Meets(b, 37)
    BY UserRoutesTold, LastRoutesTold DEF Told, Meets
  <2>2. b \in 7 .. 11 => ~Meets(b, 37)
    BY PostRoutesTold, LastRoutesTold DEF Told, Meets
  <2>3. b \in 12 .. 13 => ~Meets(b, 37)
    BY CommentRoutesTold, LastRoutesTold DEF Told, Meets
  <2>4. b \in 14 .. 21 => ~Meets(b, 37)
    BY StatsRoutesTold, LastRoutesTold DEF Told, Meets
  <2>5. b \in 22 .. 25 => ~Meets(b, 37)
    BY WriteRoutesTold, LastRoutesTold DEF Told, Meets
  <2>6. b \in 26 .. 34 => ~Meets(b, 37)
    BY SearchRoutesTold, LastRoutesTold DEF Told, Meets
  <2>7. b \in 35 .. 36 => ~Meets(b, 37)
    BY LastRoutesTold DEF Told, Meets
  <2> QED
    BY <2>1, <2>2, <2>3, <2>4, <2>5, <2>6, <2>7
<1> QED
  BY <1>35, <1>36, <1>37
LEMMA OverlookedRoutes ==
  /\ \A b \in 1 .. 27 : Meets(b, 28) => b = 8
  /\ \A b \in 1 .. 28 : Meets(b, 29) => b = 8
<1>28. ASSUME NEW b \in 1 .. 27 PROVE Meets(b, 28) => b = 8
  <2>1. b \in 1 .. 6 => ~Meets(b, 28)
    BY UserRoutesTold, SearchRoutesTold DEF Told, Meets
  <2>2. b \in 7 .. 11 => (Meets(b, 28) => b = 8)
    BY PostRoutesTold, SearchRoutesTold DEF Told, Meets
  <2>3. b \in 12 .. 13 => ~Meets(b, 28)
    BY CommentRoutesTold, SearchRoutesTold DEF Told, Meets
  <2>4. b \in 14 .. 21 => ~Meets(b, 28)
    BY StatsRoutesTold, SearchRoutesTold DEF Told, Meets
  <2>5. b \in 22 .. 25 => ~Meets(b, 28)
    BY WriteRoutesTold, SearchRoutesTold DEF Told, Meets
  <2>6. b \in 26 .. 27 => ~Meets(b, 28)
    BY SearchRoutesTold DEF Told, Meets
  <2> QED
    BY <2>1, <2>2, <2>3, <2>4, <2>5, <2>6
<1>29. ASSUME NEW b \in 1 .. 28 PROVE Meets(b, 29) => b = 8
  <2>1. b \in 1 .. 6 => ~Meets(b, 29)
    BY UserRoutesTold, SearchRoutesTold DEF Told, Meets
  <2>2. b \in 7 .. 11 => (Meets(b, 29) => b = 8)
    BY PostRoutesTold, SearchRoutesTold DEF Told, Meets
  <2>3. b \in 12 .. 13 => ~Meets(b, 29)
    BY CommentRoutesTold, SearchRoutesTold DEF Told, Meets
  <2>4. b \in 14 .. 21 => ~Meets(b, 29)
    BY StatsRoutesTold, SearchRoutesTold DEF Told, Meets
  <2>5. b \in 22 .. 25 => ~Meets(b, 29)
    BY WriteRoutesTold, SearchRoutesTold DEF Told, Meets
  <2>6. b \in 26 .. 28 => ~Meets(b, 29)
    BY SearchRoutesTold DEF Told, Meets
  <2> QED
    BY <2>1, <2>2, <2>3, <2>4, <2>5, <2>6
<1> QED
  BY <1>28, <1>29

\* How long the paths are.
Sound(path) == Len(path) \in Nat /\ DOMAIN path = 1 .. Len(path)
LEMMA PathsAre == \A r \in 1 .. 37 : Sound(RouteTable[r][2])
<1>1. \A r \in 1 .. 6 : Sound(RouteTable[r][2])
  BY UserRoutesTold DEF Told, Sound
<1>2. \A r \in 7 .. 11 : Sound(RouteTable[r][2])
  BY PostRoutesTold DEF Told, Sound
<1>3. \A r \in 12 .. 13 : Sound(RouteTable[r][2])
  BY CommentRoutesTold DEF Told, Sound
<1>4. \A r \in 14 .. 21 : Sound(RouteTable[r][2])
  BY StatsRoutesTold DEF Told, Sound
<1>5. \A r \in 22 .. 25 : Sound(RouteTable[r][2])
  BY WriteRoutesTold DEF Told, Sound
<1>6. \A r \in 26 .. 34 : Sound(RouteTable[r][2])
  BY SearchRoutesTold DEF Told, Sound
<1>7. \A r \in 35 .. 37 : Sound(RouteTable[r][2])
  BY LastRoutesTold DEF Told, Sound
<1> QED
  BY <1>1, <1>2, <1>3, <1>4, <1>5, <1>6, <1>7
LEMMA FilledIs ==
  ASSUME NEW path, Sound(path)
  PROVE  /\ DOMAIN Filled(path) = DOMAIN path /\ Len(Filled(path)) = Len(path)
         /\ \A i \in DOMAIN path : Filled(path)[i] = IF path[i] = ":id" THEN "1d" ELSE path[i]
<1> DEFINE n == Len(path)
<1>1. n \in Nat /\ DOMAIN path = 1 .. n
  BY DEF Sound
<1>2. Filled(path) = [i \in 1 .. n |-> IF path[i] = ":id" THEN "1d" ELSE path[i]]
  BY <1>1 DEF Filled, SomeId
<1> HIDE DEF n
<1>3. Len(Filled(path)) = n
  BY <1>1, <1>2
<1> QED
  BY <1>1, <1>2, <1>3 DEF n
LEMMA AgreesMeets ==
  ASSUME NEW b, NEW r, Sound(RouteTable[r][2])
  PROVE  Agrees(b, r) <=> Meets(b, r)
<1> DEFINE path == RouteTable[r][2]
<1> HIDE DEF path
<1>1. /\ DOMAIN Filled(path) = DOMAIN path /\ Len(Filled(path)) = Len(path)
      /\ \A i \in DOMAIN path : Filled(path)[i] = IF path[i] = ":id" THEN "1d" ELSE path[i]
  BY FilledIs DEF path
<1>2. Agrees(b, r) <=> /\ RouteTable[b][1] = RouteTable[r][1] /\ Len(RouteTable[b][2]) = Len(path)
                       /\ \A i \in DOMAIN path : RouteTable[b][2][i] \in {":id", Filled(path)[i]}
  BY <1>1, Zenon DEF Agrees, RouteFits, PathFits, path
<1> QED
  BY <1>1, <1>2, Zenon DEF Meets, path

\* A request for a route is served by the route, or the route is overlooked.
ServedBy(r, b) ==
  /\ b = r \/ RouteTable[r][2] \in {<<"posts", "advanced">>, <<"posts", "recent">>}
  /\ RouteTable[b][3] \subseteq RouteTable[r][3]
LEMMA FirstServes ==
  ASSUME NEW r \in 1 .. 37
  PROVE  ServedBy(r, Dispatched(RouteTable[r][1], Filled(RouteTable[r][2])))
<1> DEFINE F == {b \in 1 .. 37 : Agrees(b, r)}
           b == Dispatched(RouteTable[r][1], Filled(RouteTable[r][2]))
<1>1. b = Min(F)
  <2>1. DOMAIN RouteTable = 1 .. 37
    BY RouteTableIs
  <2> QED
    BY <2>1, Zenon DEF Dispatched, Agrees
<1>2. \A c \in 1 .. 37 : Agrees(c, r) <=> Meets(c, r)
  BY PathsAre, AgreesMeets
<1>3. r \in F
  <2>1. Meets(r, r)
    BY Zenon DEF Meets
  <2> QED
    BY <1>2, <2>1
<1>4. F \in SUBSET Nat
  OBVIOUS
<1>5. PICK x \in F : \A y \in F : x <= y
  <2> HIDE DEF F
  <2> QED
    BY <1>3, <1>4, LeastNumber
<1>6. b = x
  <2> HIDE DEF F, b
  <2>1. \A z \in F : (\A y \in F : z <= y) => z = x
    BY <1>4, <1>5
  <2>2. Min(F) = x
    BY <1>5, <2>1, Zenon DEF Min
  <2> QED
    BY <1>1, <2>2
<1>7. b \in 1 .. 37 /\ b <= r /\ Meets(b, r)
  BY <1>2, <1>3, <1>5, <1>6
<1> SUFFICES ServedBy(r, b)
  OBVIOUS
<1> HIDE DEF F, b
<1>8. CASE b = r
  BY <1>8 DEF ServedBy
<1>9. CASE b # r
  <2>1. b \in 1 .. r - 1
    BY <1>7, <1>9
  <2>2. r = 28 \/ r = 29
    <3>1. r \in 1 .. 6 => FALSE
      BY <1>7, <2>1, UserRoutesFirst
    <3>2. r \in 7 .. 11 => FALSE
      BY <1>7, <2>1, PostRoutesFirst
    <3>3. r \in 12 .. 13 => FALSE
      BY <1>7, <2>1, CommentRoutesFirst
    <3>4. r \in 14 .. 21 => FALSE
      BY <1>7, <2>1, StatsRoutesFirst
    <3>5. r \in 22 .. 25 => FALSE
      BY <1>7, <2>1, WriteRoutesFirst
    <3>6. r \in 26 .. 34 => r = 28 \/ r = 29
      BY <1>7, <2>1, SearchRoutesFirst
    <3>7. r \in 35 .. 37 => FALSE
      BY <1>7, <2>1, LastRoutesFirst
    <3> QED
      BY <3>1, <3>2, <3>3, <3>4, <3>5, <3>6, <3>7
  <2>3. b = 8
    BY <1>7, <2>1, <2>2, OverlookedRoutes
  <2>4. RouteTable[b][3] = {}
    BY <2>3, PostRoutesAre DEF RouteIs
  <2>5. RouteTable[r][2] \in {<<"posts", "advanced">>, <<"posts", "recent">>}
    BY <2>2, SearchRoutesAre DEF RouteIs
  <2> QED
    BY <2>4, <2>5 DEF ServedBy
<1> QED
  BY <1>8, <1>9

\* Every request for a route of the example is served by that route, or by
\* /posts/:id in place of /posts/advanced and /posts/recent, and none by a
\* route that writes another table (examples/express-app/src/index.ts).
THEOREM RoutesAreServed == ExampleSpec => []RoutesServeOrHidden
<1>1. ExampleInit => RoutesServeOrHidden
  BY DEF ExampleInit, RoutesServeOrHidden
<1>2. ASSUME RoutesServeOrHidden, [ExampleNext]_exampleVars PROVE RoutesServeOrHidden'
  <2>1. CASE Ask
    <3>1. PICK r \in DOMAIN RouteTable :
            handled' = [wanted |-> r, by |-> Dispatched(RouteTable[r][1], Filled(RouteTable[r][2]))]
      BY <2>1 DEF Ask
    <3>2. r \in 1 .. 37
      BY RouteTableIs
    <3> DEFINE b == Dispatched(RouteTable[r][1], Filled(RouteTable[r][2]))
    <3>3. ServedBy(r, b)
      BY <3>2, FirstServes
    <3>4. handled' = [wanted |-> r, by |-> b]
      BY <3>1
    <3> HIDE DEF b
    <3>5. handled'.wanted = r /\ handled'.by = b
      BY <3>4
    <3> QED
      BY <3>3, <3>5, Zenon DEF ServedBy, RoutesServeOrHidden
  <2>2. CASE handled' = NotHandled
    BY <2>2 DEF RoutesServeOrHidden
  <2>3. CASE handled' = handled
    BY <1>2, <2>3, Zenon DEF RoutesServeOrHidden
  <2> QED
    BY <1>2, <2>1, <2>2, <2>3 DEF ExampleNext, exampleVars
<1> QED
  BY <1>1, <1>2, PTL DEF ExampleSpec

-----------------------------------------------------------------------------
(* The components together, of MCPlatform. No two share a variable: a      *)
(* behaviour of them all is one of each, and what was shown of each holds. *)
EachMoves ==
  /\ [WarmingNext]_warmingVars /\ [RefreshingNext]_refreshingVars
  /\ [CacheLockNext]_lockVars /\ [RealtimeNext]_realtimeVars
  /\ [PresenceNext]_presenceVars /\ [SqliteNext]_sqliteVars
  /\ [PlansNext]_plansVars /\ [RelationsNext]_relationsVars
  /\ [ApiNext]_apiVars /\ [SyncNext]_syncVars /\ [SchemaInitNext]_initVars
  /\ [ConfigurationNext]_configVars /\ [RowSecurityNext]_rowVars
  /\ [StorageNext]_storageVars /\ [SelectGateNext]_gateVars
  /\ [DevServerNext]_devVars /\ [StudioNext]_studioVars
  /\ [LazyPoolNext]_poolVars /\ [ExampleNext]_exampleVars
EachStarts ==
  /\ WarmingInit /\ RefreshingInit /\ CacheLockInit /\ RealtimeInit
  /\ PresenceInit /\ SqliteInit /\ PlansInit /\ RelationsInit /\ ApiInit
  /\ SyncInit /\ SchemaInitInit /\ ConfigurationInit /\ RowSecurityInit
  /\ StorageInit /\ SelectGateInit /\ DevServerInit /\ StudioInit
  /\ LazyPoolInit /\ ExampleInit

LEMMA ComponentsStart == Init => EachStarts
BY Zenon DEF Init, EachStarts

LEMMA ComponentsStep == [Next]_vars => EachMoves
<1> SUFFICES ASSUME [Next]_vars PROVE EachMoves
  OBVIOUS
<1>1. CASE WarmingStep
  BY <1>1, Zenon DEF WarmingStep, EachMoves
<1>2. CASE RefreshingStep
  BY <1>2, Zenon DEF RefreshingStep, EachMoves
<1>3. CASE CacheLockStep
  BY <1>3, Zenon DEF CacheLockStep, EachMoves
<1>4. CASE RealtimeStep
  BY <1>4, Zenon DEF RealtimeStep, EachMoves
<1>5. CASE PresenceStep
  BY <1>5, Zenon DEF PresenceStep, EachMoves
<1>6. CASE SqliteStep
  BY <1>6, Zenon DEF SqliteStep, EachMoves
<1>7. CASE PlansStep
  BY <1>7, Zenon DEF PlansStep, EachMoves
<1>8. CASE RelationsStep
  BY <1>8, Zenon DEF RelationsStep, EachMoves
<1>9. CASE ApiStep
  BY <1>9, Zenon DEF ApiStep, EachMoves
<1>10. CASE SyncStep
  BY <1>10, Zenon DEF SyncStep, EachMoves
<1>11. CASE SchemaInitStep
  BY <1>11, Zenon DEF SchemaInitStep, EachMoves
<1>12. CASE ConfigurationStep
  BY <1>12, Zenon DEF ConfigurationStep, EachMoves
<1>13. CASE RowSecurityStep
  BY <1>13, Zenon DEF RowSecurityStep, EachMoves
<1>14. CASE StorageStep
  BY <1>14, Zenon DEF StorageStep, EachMoves
<1>15. CASE SelectGateStep
  BY <1>15, Zenon DEF SelectGateStep, EachMoves
<1>16. CASE DevServerStep
  BY <1>16, Zenon DEF DevServerStep, EachMoves
<1>17. CASE PageStep
  BY <1>17, Zenon DEF PageStep, EachMoves, StudioNext
<1>18. CASE ClientStep
  BY <1>18, Zenon DEF ClientStep, EachMoves, StudioNext
<1>19. CASE LazyPoolStep
  BY <1>19, Zenon DEF LazyPoolStep, EachMoves
<1>20. CASE ExampleStep
  BY <1>20, Zenon DEF ExampleStep, EachMoves
<1>21. CASE UNCHANGED vars
  BY <1>21, Zenon DEF vars, EachMoves
<1> QED
  BY <1>1, <1>2, <1>3, <1>4, <1>5, <1>6, <1>7, <1>8, <1>9, <1>10, <1>11,
     <1>12, <1>13, <1>14, <1>15, <1>16, <1>17, <1>18, <1>19, <1>20, <1>21, Zenon DEF Next


LEMMA ComponentsBehave ==
  Spec => /\ WarmingInit /\ [][WarmingNext]_warmingVars
          /\ RefreshingSpec /\ CacheLockSpec /\ RealtimeSpec /\ PresenceSpec /\ SqliteSpec
          /\ PlansSpec /\ RelationsSpec /\ ApiSpec /\ SyncSpec /\ SchemaInitSpec
          /\ ConfigurationSpec /\ RowSecuritySpec /\ StorageSpec /\ SelectGateSpec
          /\ DevServerSpec /\ StudioSpec /\ LazyPoolSpec /\ ExampleSpec
BY ComponentsStart, ComponentsStep, PTL
DEF Spec, EachStarts, EachMoves, RefreshingSpec, CacheLockSpec, RealtimeSpec, PresenceSpec,
    SqliteSpec, PlansSpec, RelationsSpec, ApiSpec, SyncSpec, SchemaInitSpec,
    ConfigurationSpec, RowSecuritySpec, StorageSpec, SelectGateSpec, DevServerSpec,
    StudioSpec, LazyPoolSpec, ExampleSpec

(* The smaller components keep their types, for any keys, tables, trees of *)
(* relations, directories, programs, users and bounds.                     *)
THEOREM PlatformTypesCorrect == Spec => []PlatformTypesOK
BY ComponentsBehave, WarmingTypes, RefreshingTypeCorrect, LockTypeCorrect, RealtimeTypes,
   PresenceTypes, SqliteTypeCorrect, PlansTypeCorrect, RelationsTypeCorrect,
   ApiTypeCorrect, SyncTypeCorrect, SchemaInitTypes, ConfigurationTypeCorrect,
   RowSecurityTypes, StorageTypes, StudioTypeCorrect, SelectGateTypes, ServerAnswers,
   LazyPoolTypeCorrect, ExampleTypeCorrect, PTL
DEF PlatformTypesOK

(* No read loses or adds a row: the rows that findMany attaches, the lists *)
(* and pages that the development server answers, and what the example's   *)
(* routes serve.                                                           *)
THEOREM ReadsAreComplete == Spec => []ReadsComplete
BY ComponentsBehave, RelationsAreComplete, ReadsAreRight, PagesAreTheTable, RoutesAreServed,
   PTL
DEF ReadsComplete

\* The invariants that TLC checks of MCPlatform, but for the types.
PlatformHolds ==
  /\ StaleMeansRefreshing /\ LockExcludes /\ ViewersFollow /\ SqliteAllOrNothing
  /\ PlansBindValues /\ ReadsComplete /\ RoutesGuarded /\ SaidIsSo /\ StartsRight
  /\ GatesHold /\ StudioTouchesAddressed

(* Everything that is never to happen to the smaller components, of any    *)
(* behaviour of them all: the invariants of MCPlatform together.           *)
THEOREM PlatformIsSafe == Spec => []PlatformHolds
BY ComponentsBehave, StaleIsRefreshed, LockKeepsOut, ViewersAreTold, SqliteAtomic,
   PlansBindRight, ReadsAreComplete, PlansAreGuarded, SaidIsTrue, ProcessesStartRight,
   NothingGetsPast, StatementsAreAddressed, PTL
DEF PlatformHolds
=============================================================================
