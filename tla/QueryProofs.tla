---------------------------- MODULE QueryProofs -----------------------------
(***************************************************************************)
(* What a query comes to. QueryPlans: each value of a compiled statement   *)
(* is bound at its own marker, once, whatever clauses, unions and dialect  *)
(* the builder was given. Relations: findMany attaches to every row its    *)
(* related rows, of any tree of relations, all of them and no other.       *)
(* Both hold of any number of clauses, values, rows and relations.         *)
(***************************************************************************)
EXTENDS QueryPlans, Relations, SumsProofs, SequenceTheorems, FiniteSetTheorems,
        TLAPS

-----------------------------------------------------------------------------
(* QueryPlans                                                              *)
Hole == [val : Nat, num : Nat]
Codes == [text : Seq(Hole), params : Seq(Nat)]
Kinds == {"values", "raw", "plan", "union"}
PlanNodes == [kind : Kinds, code : Codes]

\* The values that a code names, in its text or its params.
TextVals(c) == {c.text[i].val : i \in 1 .. Len(c.text)}
Vals(c) == TextVals(c) \cup Range(c.params)

\* The holes that are ?s, up to one.
Zeros(text, i) == Cardinality({k \in 1 .. i : text[k].num = 0})

\* What a code that binds wrongly shows for it: a value without a param or a
\* param without a hole, which nothing put around it mends, or a hole with a
\* number below that of its param, which only becomes worse.
Strays(c) ==
  \/ \E i \in 1 .. Len(c.text) : \A q \in 1 .. Len(c.params) : c.params[q] # c.text[i].val
  \/ \E q \in 1 .. Len(c.params) : \A i \in 1 .. Len(c.text) : c.params[q] # c.text[i].val
  \/ \E i \in 1 .. Len(c.text), q \in 1 .. Len(c.params) :
       c.params[q] = c.text[i].val /\ Number(c.text, i) < q

\* No value comes twice in the text or in the params, and no number is above
\* the place of its param.
OncePlaced(c) ==
  /\ \A i, j \in 1 .. Len(c.text) : c.text[i].val = c.text[j].val => i = j
  /\ \A q, r \in 1 .. Len(c.params) : c.params[q] = c.params[r] => q = r
Low(c) ==
  \A i \in 1 .. Len(c.text), q \in 1 .. Len(c.params) :
    c.text[i].num # 0 /\ c.params[q] = c.text[i].val => c.text[i].num <= q
Good(c) ==
  c \in Codes /\ OncePlaced(c) /\ Low(c) /\ (Bound(c, "numbered") \/ Strays(c))
GoodNode(node) ==
  /\ node \in PlanNodes /\ Good(node.code)
  /\ node.kind = "values" => node.code.text = Holes(node.code.params, 0)
  /\ node.kind = "raw" => node.code.text = Marks(node.code.params)

LEMMA CodeFits ==
  ASSUME NEW c \in Codes
  PROVE  /\ Len(c.text) \in Nat /\ Len(c.params) \in Nat /\ c = [text |-> c.text, params |-> c.params]
         /\ c.text \in Seq(Hole) /\ c.params \in Seq(Nat)
         /\ DOMAIN c.text = 1 .. Len(c.text) /\ DOMAIN c.params = 1 .. Len(c.params)
         /\ \A i \in 1 .. Len(c.text) : c.text[i] \in Hole /\ c.text[i].val \in Nat /\ c.text[i].num \in Nat
         /\ \A q \in 1 .. Len(c.params) : c.params[q] \in Nat
<1>1. c.text \in Seq(Hole) /\ c.params \in Seq(Nat) /\ c = [text |-> c.text, params |-> c.params]
  BY DEF Codes
<1> DEFINE t == c.text
           p == c.params
<1>2. t \in Seq(Hole) /\ p \in Seq(Nat)
  BY <1>1
<1> HIDE DEF t, p
<1>3. Len(t) \in Nat /\ Len(p) \in Nat /\ DOMAIN t = 1 .. Len(t) /\ DOMAIN p = 1 .. Len(p)
  BY <1>2
<1>4. \A i \in 1 .. Len(t) : t[i] \in Hole
  BY <1>2, <1>3
<1>5. \A i \in 1 .. Len(t) : t[i].val \in Nat /\ t[i].num \in Nat
  BY <1>4 DEF Hole
<1>6. \A q \in 1 .. Len(p) : p[q] \in Nat
  BY <1>2, <1>3
<1> QED
  BY <1>1, <1>3, <1>4, <1>5, <1>6 DEF t, p

\* One more ?, or not.
LEMMA ZerosStep ==
  ASSUME NEW text, NEW n \in Nat
  PROVE  /\ Zeros(text, 0) = 0 /\ Zeros(text, n) \in Nat
         /\ Zeros(text, n + 1) = Zeros(text, n) + (IF text[n + 1].num = 0 THEN 1 ELSE 0)
<1> DEFINE S == {k \in 1 .. n : text[k].num = 0}
           T == {k \in 1 .. n + 1 : text[k].num = 0}
<1>1. IsFiniteSet(S) /\ Cardinality(S) \in Nat
  <2>1. IsFiniteSet(1 .. n)
    BY FS_Interval
  <2>2. S \in SUBSET (1 .. n)
    OBVIOUS
  <2> HIDE DEF S
  <2> QED
    BY <2>1, <2>2, FS_Subset, FS_CardinalityType
<1>2. n + 1 \notin S
  OBVIOUS
<1>a. Zeros(text, n) = Cardinality(S) /\ Zeros(text, n + 1) = Cardinality(T)
  BY DEF Zeros
<1>b. Zeros(text, 0) = 0
  <2>1. {k \in 1 .. 0 : text[k].num = 0} = {}
    OBVIOUS
  <2> QED
    BY <2>1, FS_EmptySet DEF Zeros
<1>3. CASE text[n + 1].num = 0
  <2>1. T = S \cup {n + 1}
    BY <1>3
  <2>2. Cardinality(S \cup {n + 1}) = Cardinality(S) + 1
    <3> HIDE DEF S
    <3> QED
      BY <1>1, <1>2, FS_AddElement
  <2> HIDE DEF S, T
  <2> QED
    BY <1>1, <1>3, <1>a, <1>b, <2>1, <2>2
<1>4. CASE text[n + 1].num # 0
  <2>1. T = S
    BY <1>4
  <2> HIDE DEF S, T
  <2> QED
    BY <1>1, <1>4, <1>a, <1>b, <2>1
<1> QED
  BY <1>3, <1>4

\* As many as there are holes, or fewer, if one has a number.
LEMMA ZerosBound ==
  ASSUME NEW text, NEW n \in Nat
  PROVE  /\ Zeros(text, n) \in Nat /\ Zeros(text, n) <= n
         /\ (\A k \in 1 .. n : text[k].num = 0) => Zeros(text, n) = n
         /\ (\E k \in 1 .. n : text[k].num # 0) => Zeros(text, n) < n
<1> DEFINE S == {k \in 1 .. n : text[k].num = 0}
<1>1. IsFiniteSet(1 .. n) /\ Cardinality(1 .. n) = n
  BY FS_Interval
<1>2. S \in SUBSET (1 .. n)
  OBVIOUS
<1>3. S = 1 .. n <=> \A k \in 1 .. n : text[k].num = 0
  OBVIOUS
<1>4. Zeros(text, n) = Cardinality(S)
  BY DEF Zeros
<1> HIDE DEF S
<1>5. IsFiniteSet(S) /\ Cardinality(S) \in Nat /\ Cardinality(S) <= n /\ (Cardinality(S) = n => S = 1 .. n)
  BY <1>1, <1>2, FS_Subset, FS_CardinalityType
<1>6. S = 1 .. n => Cardinality(S) = n
  BY <1>1
<1> QED
  BY <1>3, <1>4, <1>5, <1>6

\* Behind another text, the ?s of both count.
LEMMA ZerosConcat ==
  ASSUME NEW s \in Seq(Hole), NEW t \in Seq(Hole)
  PROVE  /\ \A i \in 0 .. Len(s) : Zeros(s \o t, i) = Zeros(s, i)
         /\ \A j \in 0 .. Len(t) : Zeros(s \o t, Len(s) + j) = Zeros(s, Len(s)) + Zeros(t, j)
<1> DEFINE n == Len(s)
           m == Len(t)
           u == s \o t
<1>0. n \in Nat /\ m \in Nat
  OBVIOUS
<1>1. /\ \A i \in 1 .. n : u[i] = s[i]
      /\ \A j \in 1 .. m : u[n + j] = t[j]
  <2>1. \A i \in 1 .. n + m : u[i] = IF i <= n THEN s[i] ELSE t[i - n]
    BY ConcatProperties
  <2> HIDE DEF u, n, m
  <2>2. \A j \in 1 .. m : n + j \in 1 .. n + m /\ ~(n + j <= n) /\ (n + j) - n = j
    BY <1>0
  <2>3. \A i \in 1 .. n : i \in 1 .. n + m /\ i <= n
    BY <1>0
  <2>4. \A i \in 1 .. n : u[i] = s[i]
    BY <2>1, <2>3
  <2>5. ASSUME NEW j \in 1 .. m PROVE u[n + j] = t[j]
    <3>1. u[n + j] = t[(n + j) - n]
      BY <2>1, <2>2
    <3> QED
      BY <2>2, <3>1
  <2> QED
    BY <2>4, <2>5
<1> HIDE DEF u, n, m
<1>2. \A i \in 0 .. n : Zeros(u, i) = Zeros(s, i)
  <2>1. ASSUME NEW i \in 0 .. n PROVE {k \in 1 .. i : u[k].num = 0} = {k \in 1 .. i : s[k].num = 0}
    <3>1. \A k \in 1 .. i : u[k] = s[k]
      BY <1>0, <1>1
    <3> QED
      BY <3>1
  <2> QED
    BY <2>1 DEF Zeros
<1>3. \A j \in 0 .. m : Zeros(u, n + j) = Zeros(s, n) + Zeros(t, j)
  <2> DEFINE S == {j \in 0 .. m : Zeros(u, n + j) = Zeros(s, n) + Zeros(t, j)}
  <2>1. 0 \in S
    <3>1. Zeros(u, n) = Zeros(s, n) /\ Zeros(t, 0) = 0 /\ Zeros(s, n) \in Nat /\ n + 0 = n
      BY <1>0, <1>2, ZerosStep
    <3> QED
      BY <1>0, <3>1
  <2>2. ASSUME NEW j \in 1 .. m, j - 1 \in S PROVE j \in S
    <3> DEFINE one == IF t[j].num = 0 THEN 1 ELSE 0
    <3>1. j - 1 \in Nat /\ n + (j - 1) \in Nat /\ (j - 1) + 1 = j /\ (n + (j - 1)) + 1 = n + j
      BY <1>0
    <3>2. Zeros(t, j) = Zeros(t, j - 1) + one
      BY <3>1, ZerosStep
    <3>3. Zeros(u, n + j) = Zeros(u, n + (j - 1)) + one
      <4> DEFINE l == n + (j - 1)
      <4>1. l \in Nat /\ l + 1 = n + j
        BY <3>1
      <4> HIDE DEF l
      <4>2. Zeros(u, l + 1) = Zeros(u, l) + (IF u[l + 1].num = 0 THEN 1 ELSE 0)
        BY <4>1, ZerosStep
      <4>3. u[l + 1] = t[j]
        BY <1>1, <4>1
      <4> QED
        BY <4>1, <4>2, <4>3 DEF l
    <3>4. Zeros(u, n + (j - 1)) = Zeros(s, n) + Zeros(t, j - 1)
      BY <2>2
    <3>5. Zeros(s, n) \in Nat /\ Zeros(t, j - 1) \in Nat
      BY <1>0, <3>1, ZerosStep
    <3>6. one \in Nat
      OBVIOUS
    <3> HIDE DEF one
    <3>7. Zeros(u, n + j) = Zeros(s, n) + Zeros(t, j)
      BY <3>2, <3>3, <3>4, <3>5, <3>6
    <3> QED
      BY <3>7
  <2>3. \A j \in 0 .. m : j \in S
    <3> HIDE DEF S
    <3> QED
      BY <1>0, <2>1, <2>2, Induct
  <2> QED
    BY <2>3
<1> QED
  BY <1>2, <1>3 DEF u, n, m

-----------------------------------------------------------------------------
\* By how much a node's numbers are raised behind m params.
Raise(node, m) == IF node.kind \in {"values", "union"} THEN m ELSE 0

AddRight(c, node, d, n, m, t, p) ==
  /\ n \in Nat /\ m \in Nat /\ n = Len(c.text) /\ m = Len(c.params) /\ d \in Codes
  /\ Len(t) \in Nat /\ Len(p) \in Nat /\ Len(d.text) = n + Len(t) /\ Len(d.params) = m + Len(p)
  /\ \A i \in 1 .. n : i \in 1 .. n + Len(t) /\ d.text[i] = c.text[i] /\ Number(d.text, i) = Number(c.text, i)
  /\ \A q \in 1 .. m : q \in 1 .. m + Len(p) /\ d.params[q] = c.params[q]
  /\ \A j \in 1 .. Len(t) :
       /\ n + j \in 1 .. n + Len(t) /\ d.text[n + j].val = t[j].val
       /\ d.text[n + j].num = IF t[j].num = 0 THEN 0 ELSE t[j].num + Raise(node, m)
       /\ Number(d.text, n + j) =
            IF t[j].num = 0 THEN Zeros(c.text, n) + Number(t, j) ELSE t[j].num + Raise(node, m)
  /\ \A r \in 1 .. Len(p) : m + r \in 1 .. m + Len(p) /\ d.params[m + r] = p[r]
  /\ \A i \in 1 .. n + Len(t) : i \in 1 .. n \/ \E j \in 1 .. Len(t) : i = n + j
  /\ \A q \in 1 .. m + Len(p) : q \in 1 .. m \/ \E r \in 1 .. Len(p) : q = m + r

ConcatRight(S, s, t, u, n, k) ==
  /\ n \in Nat /\ k \in Nat /\ u \in Seq(S) /\ Len(u) = n + k
  /\ \A i \in 1 .. n : i \in 1 .. n + k /\ u[i] = s[i]
  /\ \A j \in 1 .. k : n + j \in 1 .. n + k /\ u[n + j] = t[j]
  /\ \A i \in 1 .. n + k : i \in 1 .. n \/ \E j \in 1 .. k : i = n + j

\* What stands behind a sequence, and where.
LEMMA ConcatPlaces ==
  ASSUME NEW S, NEW s \in Seq(S), NEW t \in Seq(S)
  PROVE  ConcatRight(S, s, t, s \o t, Len(s), Len(t))
<1> DEFINE n == Len(s)
           k == Len(t)
           u == s \o t
<1>1. n \in Nat /\ k \in Nat
  OBVIOUS
<1>2. u \in Seq(S) /\ Len(u) = n + k /\ \A i \in 1 .. n + k : u[i] = IF i <= n THEN s[i] ELSE t[i - n]
  BY ConcatProperties
<1> HIDE DEF n, k, u
<1>3. ASSUME NEW i \in 1 .. n PROVE i \in 1 .. n + k /\ u[i] = s[i]
  <2>1. i \in 1 .. n + k /\ i <= n
    BY <1>1
  <2> QED
    BY <1>2, <2>1
<1>4. ASSUME NEW j \in 1 .. k PROVE n + j \in 1 .. n + k /\ u[n + j] = t[j]
  <2>1. n + j \in 1 .. n + k /\ ~(n + j <= n) /\ (n + j) - n = j
    BY <1>1
  <2>2. u[n + j] = t[(n + j) - n]
    BY <1>2, <2>1
  <2> QED
    BY <2>1, <2>2
<1>5. ASSUME NEW i \in 1 .. n + k PROVE i \in 1 .. n \/ \E j \in 1 .. k : i = n + j
  <2>1. CASE i <= n
    BY <1>1, <2>1
  <2>2. CASE ~(i <= n)
    <3>1. i - n \in 1 .. k /\ i = n + (i - n)
      BY <1>1, <2>2
    <3> QED
      BY <3>1
  <2> QED
    BY <2>1, <2>2
<1>6. ConcatRight(S, s, t, u, n, k)
  BY <1>1, <1>2, <1>3, <1>4, <1>5 DEF ConcatRight
<1> QED
  BY <1>6 DEF n, k, u

LEMMA AddShapes ==
  ASSUME NEW c \in Codes, NEW node \in PlanNodes, node.kind = "raw" => node.code.text = Marks(node.code.params)
  PROVE  AddRight(c, node, Add(c, node), Len(c.text), Len(c.params), node.code.text, node.code.params)
<1> DEFINE n == Len(c.text)
           m == Len(c.params)
           t == node.code.text
           p == node.code.params
           new == NodeText(node, m)
           d == Add(c, node)
           by == Raise(node, m)
<1>1. node.code \in Codes /\ node.kind \in Kinds
  BY DEF PlanNodes
<1>2. /\ n \in Nat /\ m \in Nat /\ c.text \in Seq(Hole) /\ c.params \in Seq(Nat)
  BY CodeFits
<1>3. /\ t \in Seq(Hole) /\ p \in Seq(Nat) /\ Len(t) \in Nat /\ Len(p) \in Nat /\ DOMAIN t = 1 .. Len(t)
      /\ \A j \in 1 .. Len(t) : t[j] \in Hole /\ t[j].val \in Nat /\ t[j].num \in Nat
  BY <1>1, CodeFits
<1>4. d = [text |-> c.text \o new, params |-> c.params \o p]
  BY DEF Add
<1>5. /\ new \in Seq(Hole) /\ Len(new) = Len(t)
      /\ \A j \in 1 .. Len(t) : new[j].val = t[j].val /\ new[j].num = IF t[j].num = 0 THEN 0 ELSE t[j].num + by
  <2> HIDE DEF t, m
  <2>1. CASE node.kind \in {"values", "union"}
    <3> DEFINE f == [j \in 1 .. Len(t) |-> [t[j] EXCEPT !.num = IF @ = 0 THEN 0 ELSE @ + m]]
    <3>1. new = f /\ by = m
      BY <2>1 DEF NodeText, Shifted, Raise, t
    <3>2. ASSUME NEW j \in 1 .. Len(t)
          PROVE  f[j] \in Hole /\ f[j].val = t[j].val /\ f[j].num = IF t[j].num = 0 THEN 0 ELSE t[j].num + m
      <4> DEFINE h == t[j]
                 w == IF h.num = 0 THEN 0 ELSE h.num + m
      <4>1. f[j] = [h EXCEPT !.num = w]
        OBVIOUS
      <4>2. h \in [val : Nat, num : Nat]
        BY <1>3 DEF Hole
      <4>3. w \in Nat
        BY <1>2, <1>3
      <4> HIDE DEF h, w, f
      <4>4. f[j] \in Hole /\ f[j].val = h.val /\ f[j].num = w
        BY <4>1, <4>2, <4>3 DEF Hole
      <4> QED
        BY <4>4 DEF h, w
    <3>3. f \in [1 .. Len(t) -> Hole]
      BY <3>2
    <3> HIDE DEF f
    <3>4. f \in Seq(Hole) /\ Len(f) = Len(t)
      BY <1>3, <3>3
    <3> QED
      BY <3>1, <3>2, <3>4
  <2>2. CASE node.kind \notin {"values", "union"}
    <3>1. new = t /\ by = 0
      BY <2>2 DEF NodeText, Raise, t
    <3>2. \A j \in 1 .. Len(t) : t[j].num = IF t[j].num = 0 THEN 0 ELSE t[j].num + 0
      BY <1>3
    <3> QED
      BY <1>3, <3>1, <3>2
  <2> QED
    BY <2>1, <2>2
<1> DEFINE text == c.text \o new
           params == c.params \o p
<1>6. /\ text \in Seq(Hole) /\ Len(text) = n + Len(t)
      /\ \A i \in 1 .. n : i \in 1 .. n + Len(t) /\ text[i] = c.text[i]
      /\ \A j \in 1 .. Len(t) : n + j \in 1 .. n + Len(t) /\ text[n + j] = new[j]
      /\ \A i \in 1 .. n + Len(t) : i \in 1 .. n \/ \E j \in 1 .. Len(t) : i = n + j
  <2>1. ConcatRight(Hole, c.text, new, text, n, Len(new))
    BY <1>2, <1>5, ConcatPlaces
  <2> HIDE DEF new, t, text, n
  <2> QED
    BY <1>5, <2>1 DEF ConcatRight
<1>7. /\ params \in Seq(Nat) /\ Len(params) = m + Len(p)
      /\ \A q \in 1 .. m : q \in 1 .. m + Len(p) /\ params[q] = c.params[q]
      /\ \A r \in 1 .. Len(p) : m + r \in 1 .. m + Len(p) /\ params[m + r] = p[r]
      /\ \A q \in 1 .. m + Len(p) : q \in 1 .. m \/ \E r \in 1 .. Len(p) : q = m + r
  <2>1. ConcatRight(Nat, c.params, p, params, m, Len(p))
    BY <1>2, <1>3, ConcatPlaces
  <2> HIDE DEF p, params, m
  <2> QED
    BY <2>1 DEF ConcatRight
<1>8. /\ \A i \in 0 .. n : Zeros(text, i) = Zeros(c.text, i)
      /\ \A j \in 0 .. Len(t) : Zeros(text, n + j) = Zeros(c.text, n) + Zeros(new, j)
  <2> HIDE DEF new
  <2> QED
    BY <1>2, <1>5, ZerosConcat
<1>9. d.text = text /\ d.params = params /\ d \in Codes
  BY <1>4, <1>6, <1>7 DEF Codes
<1>10. \A j \in 0 .. Len(t) : Zeros(new, j) = Zeros(t, j)
  <2>1. ASSUME NEW j \in 0 .. Len(t)
        PROVE  {k \in 1 .. j : new[k].num = 0} = {k \in 1 .. j : t[k].num = 0}
    <3>0. by \in Nat
      BY <1>2 DEF Raise
    <3> HIDE DEF new, t, by
    <3>1. \A k \in 1 .. j : k \in 1 .. Len(t)
      BY <1>3
    <3>2. \A k \in 1 .. j : new[k].num = 0 <=> t[k].num = 0
      BY <1>3, <1>5, <3>0, <3>1
    <3> QED
      BY <3>2
  <2> QED
    BY <2>1 DEF Zeros
<1>11. \A i \in 1 .. n : Number(text, i) = Number(c.text, i)
  <2>1. \A i \in 1 .. n : i \in 0 .. n
    BY <1>2
  <2>2. \A s, i : Number(s, i) = IF s[i].num # 0 THEN s[i].num ELSE Zeros(s, i)
    BY DEF Number, Zeros
  <2> HIDE DEF text
  <2> QED
    BY <1>6, <1>8, <2>1, <2>2
<1>12. ASSUME NEW j \in 1 .. Len(t)
       PROVE  Number(text, n + j) = IF t[j].num = 0 THEN Zeros(c.text, n) + Number(t, j) ELSE t[j].num + by
  <2>0. j \in 0 .. Len(t)
    BY <1>3
  <2>1. \A s, i : Number(s, i) = IF s[i].num # 0 THEN s[i].num ELSE Zeros(s, i)
    BY DEF Number, Zeros
  <2>2. text[n + j].num = IF t[j].num = 0 THEN 0 ELSE t[j].num + by
    BY <1>5, <1>6
  <2>3. Zeros(text, n + j) = Zeros(c.text, n) + Zeros(t, j)
    BY <1>8, <1>10, <2>0
  <2>4. t[j].num \in Nat /\ by \in Nat
    BY <1>2, <1>3 DEF Raise
  <2> HIDE DEF text, t, n, by
  <2>5. CASE t[j].num = 0
    BY <2>1, <2>2, <2>3, <2>5
  <2>6. CASE t[j].num # 0
    <3>1. text[n + j].num = t[j].num + by /\ text[n + j].num # 0
      BY <2>2, <2>4, <2>6
    <3> QED
      BY <2>1, <2>6, <3>1
  <2> QED
    BY <2>5, <2>6
<1>13. \A j \in 1 .. Len(t) :
         /\ n + j \in 1 .. n + Len(t) /\ text[n + j].val = t[j].val
         /\ text[n + j].num = IF t[j].num = 0 THEN 0 ELSE t[j].num + by
  <2> HIDE DEF text, new
  <2> QED
    BY <1>5, <1>6
<1> HIDE DEF n, m, t, p, d, text, params, new, by
<1>14. AddRight(c, node, d, n, m, t, p)
  <2>1. Len(d.text) = n + Len(t) /\ Len(d.params) = m + Len(p)
    BY <1>6, <1>7, <1>9
  <2>2. \A i \in 1 .. n : i \in 1 .. n + Len(t) /\ d.text[i] = c.text[i] /\ Number(d.text, i) = Number(c.text, i)
    BY <1>6, <1>9, <1>11
  <2>3. /\ \A q \in 1 .. m : q \in 1 .. m + Len(p) /\ d.params[q] = c.params[q]
        /\ \A r \in 1 .. Len(p) : m + r \in 1 .. m + Len(p) /\ d.params[m + r] = p[r]
    BY <1>7, <1>9
  <2>4. \A j \in 1 .. Len(t) :
         /\ n + j \in 1 .. n + Len(t) /\ d.text[n + j].val = t[j].val
         /\ d.text[n + j].num = IF t[j].num = 0 THEN 0 ELSE t[j].num + by
         /\ Number(d.text, n + j) = IF t[j].num = 0 THEN Zeros(c.text, n) + Number(t, j) ELSE t[j].num + by
    BY <1>9, <1>12, <1>13
  <2> QED
    BY <1>2, <1>3, <1>6, <1>7, <1>9, <2>1, <2>2, <2>3, <2>4 DEF AddRight, n, m, by
<1> QED
  BY <1>14 DEF n, m, t, p, d

-----------------------------------------------------------------------------
\* A code with such a sign binds wrongly: for a param without a hole, because
\* there are as many holes as params, each for another.
LEMMA StraysUnbound ==
  ASSUME NEW c \in Codes, OncePlaced(c), Strays(c)
  PROVE  ~Bound(c, "numbered")
<1> SUFFICES ASSUME Bound(c, "numbered") PROVE FALSE
  OBVIOUS
<1> DEFINE n == Len(c.params)
           atPos == [i \in 1 .. n |-> Number(c.text, i)]
<1>1. Len(c.text) = n /\ n \in Nat /\ DOMAIN c.params = 1 .. n
  BY CodeFits DEF Bound
<1>2. \A i \in 1 .. n : Number(c.text, i) \in 1 .. n /\ c.params[Number(c.text, i)] = c.text[i].val
  BY <1>1 DEF Bound
<1>3. \A i, j \in 1 .. n : c.text[i].val = c.text[j].val => i = j
  BY <1>1 DEF OncePlaced
<1>4. \A q, r \in 1 .. n : c.params[q] = c.params[r] => q = r
  BY DEF OncePlaced
<1> HIDE DEF n
<1>5. atPos \in [1 .. n -> 1 .. n]
  BY <1>2
<1>6. \A i, j \in 1 .. n : atPos[i] = atPos[j] => i = j
  BY <1>2, <1>3
<1> HIDE DEF atPos
<1>7. IsFiniteSet(1 .. n)
  BY <1>1, FS_Interval
<1>8. atPos \in Injection(1 .. n, 1 .. n)
  BY <1>5, <1>6 DEF Injection, IsInjective
<1>9. atPos \in Surjection(1 .. n, 1 .. n)
  BY <1>7, <1>8, FS_Injection
<1>10. \A q \in 1 .. n : \E i \in 1 .. n : atPos[i] = q
  BY <1>9 DEF Surjection
<1>11. \A q \in 1 .. n : \E i \in 1 .. n : c.params[q] = c.text[i].val
  <2>1. \A i \in 1 .. n : atPos[i] = Number(c.text, i)
    BY DEF atPos
  <2> QED
    BY <1>2, <1>10, <2>1
<1>12. CASE \E i \in 1 .. n : \A q \in 1 .. n : c.params[q] # c.text[i].val
  BY <1>2, <1>12
<1>13. CASE \E i, q \in 1 .. n : c.params[q] = c.text[i].val /\ Number(c.text, i) < q
  <2>1. PICK i \in 1 .. n, q \in 1 .. n : c.params[q] = c.text[i].val /\ Number(c.text, i) < q
    BY <1>13
  <2>2. Number(c.text, i) = q
    BY <1>2, <1>4, <2>1
  <2> QED
    BY <1>1, <2>1, <2>2
<1> QED
  BY <1>1, <1>11, <1>12, <1>13 DEF Strays, n

\* The values of c are none of node's.
RawBound(c, t, p) ==
  /\ \A i \in 1 .. Len(c.text) : /\ \A j \in 1 .. Len(t) : c.text[i].val # t[j].val
                                 /\ \A r \in 1 .. Len(p) : c.text[i].val # p[r]
  /\ \A q \in 1 .. Len(c.params) : /\ \A j \in 1 .. Len(t) : c.params[q] # t[j].val
                                   /\ \A r \in 1 .. Len(p) : c.params[q] # p[r]

Adding(c, node, d, n, m, t, p) ==
  /\ c \in Codes /\ node \in PlanNodes /\ d \in Codes /\ AddRight(c, node, d, n, m, t, p)
  /\ t = node.code.text /\ p = node.code.params /\ RawBound(c, t, p)
  /\ OncePlaced(c) /\ OncePlaced(node.code) /\ Low(c) /\ Low(node.code)
AddKeeps(d) == OncePlaced(d) /\ Low(d)

LEMMA AddOnce ==
  ASSUME NEW c, NEW node, NEW d, NEW n, NEW m, NEW t, NEW p, Adding(c, node, d, n, m, t, p)
  PROVE  AddKeeps(d)
<1>0. /\ c \in Codes /\ node \in PlanNodes /\ d \in Codes /\ AddRight(c, node, d, n, m, t, p)
      /\ t = node.code.text /\ p = node.code.params /\ RawBound(c, t, p)
      /\ OncePlaced(c) /\ OncePlaced(node.code) /\ Low(c) /\ Low(node.code)
  BY DEF Adding
<1>1. /\ n \in Nat /\ m \in Nat /\ n = Len(c.text) /\ m = Len(c.params)
      /\ Len(t) \in Nat /\ Len(p) \in Nat /\ Len(d.text) = n + Len(t) /\ Len(d.params) = m + Len(p)
      /\ \A i \in 1 .. n : d.text[i] = c.text[i]
      /\ \A q \in 1 .. m : d.params[q] = c.params[q]
      /\ \A j \in 1 .. Len(t) :
           /\ d.text[n + j].val = t[j].val
           /\ d.text[n + j].num = IF t[j].num = 0 THEN 0 ELSE t[j].num + Raise(node, m)
      /\ \A r \in 1 .. Len(p) : d.params[m + r] = p[r]
      /\ \A i \in 1 .. n + Len(t) : i \in 1 .. n \/ \E j \in 1 .. Len(t) : i = n + j
      /\ \A q \in 1 .. m + Len(p) : q \in 1 .. m \/ \E r \in 1 .. Len(p) : q = m + r
  BY <1>0 DEF AddRight
<1>2. /\ \A i \in 1 .. n : /\ \A j \in 1 .. Len(t) : c.text[i].val # t[j].val
                           /\ \A r \in 1 .. Len(p) : c.text[i].val # p[r]
      /\ \A q \in 1 .. m : /\ \A j \in 1 .. Len(t) : c.params[q] # t[j].val
                           /\ \A r \in 1 .. Len(p) : c.params[q] # p[r]
  BY <1>0, <1>1 DEF RawBound
<1>3. /\ \A i, j \in 1 .. n : c.text[i].val = c.text[j].val => i = j
      /\ \A q, r \in 1 .. m : c.params[q] = c.params[r] => q = r
      /\ \A i, j \in 1 .. Len(t) : t[i].val = t[j].val => i = j
      /\ \A q, r \in 1 .. Len(p) : p[q] = p[r] => q = r
  BY <1>0, <1>1 DEF OncePlaced
<1>4. /\ \A i \in 1 .. n, q \in 1 .. m : c.text[i].num # 0 /\ c.params[q] = c.text[i].val => c.text[i].num <= q
      /\ \A i \in 1 .. Len(t), q \in 1 .. Len(p) : t[i].num # 0 /\ p[q] = t[i].val => t[i].num <= q
  BY <1>0, <1>1 DEF Low
<1>5. \A i \in 1 .. n : c.text[i].num \in Nat
  BY <1>0, <1>1, CodeFits
<1>6. \A j \in 1 .. Len(t) : t[j].num \in Nat
  BY <1>0, CodeFits DEF PlanNodes
<1>7. Raise(node, m) \in 0 .. m
  BY <1>0, <1>1 DEF Raise
<1>8. OncePlaced(d)
  <2>1. ASSUME NEW i \in 1 .. n + Len(t), NEW j \in 1 .. n + Len(t), d.text[i].val = d.text[j].val PROVE i = j
    <3>1. CASE i \in 1 .. n /\ j \in 1 .. n
      BY <1>1, <1>3, <2>1, <3>1
    <3>2. CASE i \in 1 .. n /\ \E k \in 1 .. Len(t) : j = n + k
      <4>1. PICK k \in 1 .. Len(t) : j = n + k
        BY <3>2
      <4>2. c.text[i].val = t[k].val
        BY <1>1, <2>1, <3>2, <4>1
      <4> QED
        BY <1>2, <3>2, <4>2
    <3>3. CASE j \in 1 .. n /\ \E k \in 1 .. Len(t) : i = n + k
      <4>1. PICK k \in 1 .. Len(t) : i = n + k
        BY <3>3
      <4>2. c.text[j].val = t[k].val
        BY <1>1, <2>1, <3>3, <4>1
      <4> QED
        BY <1>2, <3>3, <4>2
    <3>4. CASE (\E k \in 1 .. Len(t) : i = n + k) /\ \E k \in 1 .. Len(t) : j = n + k
      <4>1. PICK k \in 1 .. Len(t) : i = n + k
        BY <3>4
      <4>2. PICK l \in 1 .. Len(t) : j = n + l
        BY <3>4
      <4>3. t[k].val = t[l].val
        BY <1>1, <2>1, <4>1, <4>2
      <4> QED
        BY <1>3, <4>1, <4>2, <4>3
    <3> QED
      BY <1>1, <3>1, <3>2, <3>3, <3>4
  <2>2. ASSUME NEW i \in 1 .. m + Len(p), NEW j \in 1 .. m + Len(p), d.params[i] = d.params[j] PROVE i = j
    <3>1. CASE i \in 1 .. m /\ j \in 1 .. m
      BY <1>1, <1>3, <2>2, <3>1
    <3>2. CASE i \in 1 .. m /\ \E k \in 1 .. Len(p) : j = m + k
      <4>1. PICK k \in 1 .. Len(p) : j = m + k
        BY <3>2
      <4>2. c.params[i] = p[k]
        BY <1>1, <2>2, <3>2, <4>1
      <4> QED
        BY <1>2, <3>2, <4>2
    <3>3. CASE j \in 1 .. m /\ \E k \in 1 .. Len(p) : i = m + k
      <4>1. PICK k \in 1 .. Len(p) : i = m + k
        BY <3>3
      <4>2. c.params[j] = p[k]
        BY <1>1, <2>2, <3>3, <4>1
      <4> QED
        BY <1>2, <3>3, <4>2
    <3>4. CASE (\E k \in 1 .. Len(p) : i = m + k) /\ \E k \in 1 .. Len(p) : j = m + k
      <4>1. PICK k \in 1 .. Len(p) : i = m + k
        BY <3>4
      <4>2. PICK l \in 1 .. Len(p) : j = m + l
        BY <3>4
      <4>3. p[k] = p[l]
        BY <1>1, <2>2, <4>1, <4>2
      <4> QED
        BY <1>3, <4>1, <4>2, <4>3
    <3> QED
      BY <1>1, <3>1, <3>2, <3>3, <3>4
  <2> QED
    BY <1>1, <2>1, <2>2 DEF OncePlaced
<1>9. Low(d)
  <2>1. ASSUME NEW i \in 1 .. n + Len(t), NEW q \in 1 .. m + Len(p), d.text[i].num # 0, d.params[q] = d.text[i].val
        PROVE  d.text[i].num <= q
    <3>1. CASE i \in 1 .. n
      <4>1. d.text[i] = c.text[i]
        BY <1>1, <3>1
      <4>2. ASSUME NEW r \in 1 .. Len(p), q = m + r PROVE FALSE
        <5>1. p[r] = c.text[i].val
          BY <1>1, <2>1, <4>1, <4>2
        <5> QED
          BY <1>2, <3>1, <5>1
      <4>3. q \in 1 .. m
        BY <1>1, <4>2
      <4>4. c.params[q] = c.text[i].val
        BY <1>1, <2>1, <4>1, <4>3
      <4> QED
        BY <1>4, <2>1, <3>1, <4>1, <4>3, <4>4
    <3>2. CASE \E j \in 1 .. Len(t) : i = n + j
      <4>1. PICK j \in 1 .. Len(t) : i = n + j
        BY <3>2
      <4>a. d.text[i].val = t[j].val
        BY <1>1, <4>1
      <4>b. q \notin 1 .. m
        BY <1>1, <1>2, <2>1, <4>a
      <4>2. PICK r \in 1 .. Len(p) : q = m + r
        BY <1>1, <4>b
      <4>3. t[j].num # 0 /\ p[r] = t[j].val /\ d.text[i].num = t[j].num + Raise(node, m)
        <5>1. d.text[i].num = IF t[j].num = 0 THEN 0 ELSE t[j].num + Raise(node, m)
          BY <1>1, <4>1
        <5>2. p[r] = t[j].val
          BY <1>1, <2>1, <4>a, <4>2
        <5> QED
          BY <2>1, <5>1, <5>2
      <4>4. t[j].num <= r
        BY <1>4, <4>3
      <4> DEFINE by == Raise(node, m)
                 num == t[j].num
      <4>5. by \in 0 .. m /\ num \in Nat /\ num <= r /\ d.text[i].num = num + by /\ q = m + r /\ m \in Nat
        BY <1>1, <1>6, <1>7, <4>2, <4>3, <4>4
      <4> HIDE DEF by, num
      <4> QED
        BY <4>5
    <3> QED
      BY <1>1, <3>1, <3>2
  <2> QED
    BY <1>1, <2>1 DEF Low
<1> QED
  BY <1>8, <1>9 DEF AddKeeps

-----------------------------------------------------------------------------
\* Every value of the text is one of the params, and every param has a hole.
Entire(c) ==
  /\ \A i \in 1 .. Len(c.text) : \E q \in 1 .. Len(c.params) : c.params[q] = c.text[i].val
  /\ \A q \in 1 .. Len(c.params) : \E i \in 1 .. Len(c.text) : c.params[q] = c.text[i].val
PlaceIn(style, text, i) == IF style = "positional" THEN i ELSE Number(text, i)
NumbersMatch(c, style) ==
  \A i \in 1 .. Len(c.text), q \in 1 .. Len(c.params) :
    c.params[q] = c.text[i].val => PlaceIn(style, c.text, i) = q

\* A hole for every value: as many holes as params.
LEMMA EntireLengths ==
  ASSUME NEW c \in Codes, OncePlaced(c), Entire(c)
  PROVE  Len(c.text) = Len(c.params)
<1> DEFINE n == Len(c.text)
           m == Len(c.params)
           to == [i \in 1 .. n |-> CHOOSE q \in 1 .. m : c.params[q] = c.text[i].val]
<1>1. n \in Nat /\ m \in Nat
  BY CodeFits
<1>2. \A i \in 1 .. n : to[i] \in 1 .. m /\ c.params[to[i]] = c.text[i].val
  BY DEF Entire
<1>3. /\ \A i, j \in 1 .. n : c.text[i].val = c.text[j].val => i = j
      /\ \A q, r \in 1 .. m : c.params[q] = c.params[r] => q = r
  BY DEF OncePlaced
<1>4. \A q \in 1 .. m : \E i \in 1 .. n : c.params[q] = c.text[i].val
  BY DEF Entire
<1>5. to \in [1 .. n -> 1 .. m]
  BY <1>2
<1> HIDE DEF to, n, m
<1>6. \A i, j \in 1 .. n : to[i] = to[j] => i = j
  BY <1>2, <1>3
<1>7. \A q \in 1 .. m : \E i \in 1 .. n : to[i] = q
  BY <1>2, <1>3, <1>4
<1>8. to \in Injection(1 .. n, 1 .. m) /\ to \in Surjection(1 .. n, 1 .. m)
  BY <1>5, <1>6, <1>7 DEF Injection, IsInjective, Surjection
<1>9. IsFiniteSet(1 .. n) /\ Cardinality(1 .. n) = n /\ IsFiniteSet(1 .. m) /\ Cardinality(1 .. m) = m
  BY <1>1, FS_Interval
<1>10. Cardinality(1 .. n) = Cardinality(1 .. m)
  BY <1>8, <1>9, FS_Injection
<1> QED
  BY <1>9, <1>10 DEF n, m

\* A code that binds has a hole for every value.
LEMMA BoundEntire ==
  ASSUME NEW c \in Codes, OncePlaced(c), NEW style \in Styles, Bound(c, style)
  PROVE  Entire(c)
<1> DEFINE n == Len(c.params)
           atPos == [i \in 1 .. n |-> PlaceIn(style, c.text, i)]
<1>1. Len(c.text) = n /\ n \in Nat /\ DOMAIN c.params = 1 .. n
  BY CodeFits DEF Bound
<1>2. \A i \in 1 .. n : PlaceIn(style, c.text, i) \in 1 .. n /\ c.params[PlaceIn(style, c.text, i)] = c.text[i].val
  BY <1>1 DEF Bound, PlaceIn
<1>3. \A i, j \in 1 .. n : c.text[i].val = c.text[j].val => i = j
  BY <1>1 DEF OncePlaced
<1> HIDE DEF n
<1>5. atPos \in [1 .. n -> 1 .. n]
  BY <1>2
<1>6. \A i, j \in 1 .. n : atPos[i] = atPos[j] => i = j
  BY <1>2, <1>3
<1>i. \A i \in 1 .. n : atPos[i] = PlaceIn(style, c.text, i)
  OBVIOUS
<1> HIDE DEF atPos
<1>7. IsFiniteSet(1 .. n)
  BY <1>1, FS_Interval
<1>8. atPos \in Injection(1 .. n, 1 .. n)
  BY <1>5, <1>6 DEF Injection, IsInjective
<1>9. atPos \in Surjection(1 .. n, 1 .. n)
  BY <1>7, <1>8, FS_Injection
<1>10. \A q \in 1 .. n : \E i \in 1 .. n : atPos[i] = q
  BY <1>9 DEF Surjection
<1>11. \A q \in 1 .. n : \E i \in 1 .. n : c.params[q] = c.text[i].val
  BY <1>2, <1>10, <1>i
<1>12. \A i \in 1 .. n : \E q \in 1 .. n : c.params[q] = c.text[i].val
  BY <1>2
<1> QED
  BY <1>1, <1>11, <1>12 DEF Entire, n

\* Then it binds if every hole is at the place of its param.
LEMMA BoundMatches ==
  ASSUME NEW c \in Codes, OncePlaced(c), NEW style \in Styles
  PROVE  Bound(c, style) <=> Entire(c) /\ NumbersMatch(c, style)
<1> DEFINE n == Len(c.params)
<1>0. DOMAIN c.params = 1 .. n
  BY CodeFits
<1>1. ASSUME Bound(c, style) PROVE Entire(c) /\ NumbersMatch(c, style)
  <2>1. Entire(c)
    BY <1>1, BoundEntire
  <2>2. \A i \in 1 .. Len(c.text) : PlaceIn(style, c.text, i) \in 1 .. n /\ c.params[PlaceIn(style, c.text, i)] = c.text[i].val
    BY <1>0, <1>1 DEF Bound, PlaceIn
  <2>3. \A q, r \in 1 .. n : c.params[q] = c.params[r] => q = r
    BY DEF OncePlaced
  <2> HIDE DEF n
  <2>4. \A i \in 1 .. Len(c.text), q \in 1 .. n : c.params[q] = c.text[i].val => PlaceIn(style, c.text, i) = q
    BY <2>2, <2>3
  <2> QED
    BY <2>1, <2>4 DEF NumbersMatch, n
<1>2. ASSUME Entire(c), NumbersMatch(c, style) PROVE Bound(c, style)
  <2>1. Len(c.text) = Len(c.params)
    BY <1>2, EntireLengths
  <2>2. \A i \in 1 .. Len(c.text) : PlaceIn(style, c.text, i) \in 1 .. n /\ c.params[PlaceIn(style, c.text, i)] = c.text[i].val
    <3> HIDE DEF n
    <3>1. ASSUME NEW i \in 1 .. Len(c.text)
          PROVE  PlaceIn(style, c.text, i) \in 1 .. n /\ c.params[PlaceIn(style, c.text, i)] = c.text[i].val
      <4>1. PICK q \in 1 .. n : c.params[q] = c.text[i].val
        BY <1>2 DEF Entire, n
      <4>2. PlaceIn(style, c.text, i) = q
        BY <1>2, <4>1 DEF NumbersMatch, n
      <4> QED
        BY <4>1, <4>2
    <3> QED
      BY <3>1
  <2> QED
    BY <1>0, <2>1, <2>2 DEF Bound, PlaceIn
<1> QED
  BY <1>1, <1>2

\* A code that binds shows no sign that it does not.
LEMMA StraysNot ==
  ASSUME NEW c \in Codes, OncePlaced(c)
  PROVE  /\ ~Entire(c) => Strays(c)
         /\ Entire(c) /\ Strays(c) =>
              \E i \in 1 .. Len(c.text), q \in 1 .. Len(c.params) :
                c.params[q] = c.text[i].val /\ Number(c.text, i) < q
BY DEF Entire, Strays

-----------------------------------------------------------------------------
\* A node that is added binds as it did on its own: no sub-plan with numbers
\* behind a param, no ? behind a number.
AddFine(c, node) ==
  /\ ~(node.kind = "plan" /\ HasNumbers(node) /\ c.params # << >>)
  /\ ~(HasMarks(node) /\ \E i \in 1 .. Len(c.text) : c.text[i].num # 0)

AddEntire(c, b, d) == Entire(d) <=> Entire(c) /\ Entire(b)

LEMMA AddsEntire ==
  ASSUME NEW c \in Codes, NEW node \in PlanNodes, NEW d, NEW n, NEW m, NEW t, NEW p,
         AddRight(c, node, d, n, m, t, p), t = node.code.text, p = node.code.params, RawBound(c, t, p)
  PROVE  AddEntire(c, node.code, d)
<1>1. /\ n \in Nat /\ m \in Nat /\ n = Len(c.text) /\ m = Len(c.params)
      /\ Len(t) \in Nat /\ Len(p) \in Nat /\ Len(d.text) = n + Len(t) /\ Len(d.params) = m + Len(p)
      /\ \A i \in 1 .. n : i \in 1 .. n + Len(t) /\ d.text[i] = c.text[i]
      /\ \A q \in 1 .. m : q \in 1 .. m + Len(p) /\ d.params[q] = c.params[q]
      /\ \A j \in 1 .. Len(t) : n + j \in 1 .. n + Len(t) /\ d.text[n + j].val = t[j].val
      /\ \A r \in 1 .. Len(p) : m + r \in 1 .. m + Len(p) /\ d.params[m + r] = p[r]
      /\ \A i \in 1 .. n + Len(t) : i \in 1 .. n \/ \E j \in 1 .. Len(t) : i = n + j
      /\ \A q \in 1 .. m + Len(p) : q \in 1 .. m \/ \E r \in 1 .. Len(p) : q = m + r
  BY DEF AddRight
<1>2. /\ \A i \in 1 .. n : /\ \A j \in 1 .. Len(t) : c.text[i].val # t[j].val
                           /\ \A r \in 1 .. Len(p) : c.text[i].val # p[r]
      /\ \A q \in 1 .. m : /\ \A j \in 1 .. Len(t) : c.params[q] # t[j].val
                           /\ \A r \in 1 .. Len(p) : c.params[q] # p[r]
  BY <1>1 DEF RawBound
<1> DEFINE T == 1 .. Len(t)
           P == 1 .. Len(p)
           N == 1 .. n
           M == 1 .. m
           NT == 1 .. n + Len(t)
           MP == 1 .. m + Len(p)
<1>3. /\ Entire(d) <=> /\ \A i \in NT : \E q \in MP : d.params[q] = d.text[i].val
                       /\ \A q \in MP : \E i \in NT : d.params[q] = d.text[i].val
      /\ Entire(c) <=> /\ \A i \in N : \E q \in M : c.params[q] = c.text[i].val
                       /\ \A q \in M : \E i \in N : c.params[q] = c.text[i].val
      /\ Entire(node.code) <=> /\ \A i \in T : \E q \in P : p[q] = t[i].val
                               /\ \A q \in P : \E i \in T : p[q] = t[i].val
  BY <1>1 DEF Entire
<1>4. /\ \A i \in N : i \in NT /\ d.text[i] = c.text[i]
      /\ \A q \in M : q \in MP /\ d.params[q] = c.params[q]
      /\ \A j \in T : n + j \in NT /\ d.text[n + j].val = t[j].val
      /\ \A r \in P : m + r \in MP /\ d.params[m + r] = p[r]
      /\ \A i \in NT : i \in N \/ \E j \in T : i = n + j
      /\ \A q \in MP : q \in M \/ \E r \in P : q = m + r
  BY <1>1
<1>5. /\ \A i \in N, j \in T : c.text[i].val # t[j].val
      /\ \A i \in N, r \in P : c.text[i].val # p[r]
      /\ \A q \in M, j \in T : c.params[q] # t[j].val
      /\ \A q \in M, r \in P : c.params[q] # p[r]
  BY <1>2
<1> HIDE DEF T, P, N, M, NT, MP
<1>6. ASSUME Entire(d) PROVE Entire(c)
  <2>1. ASSUME NEW i \in N PROVE \E q \in M : c.params[q] = c.text[i].val
    <3>1. PICK q \in MP : d.params[q] = d.text[i].val
      BY <1>3, <1>4, <1>6
    <3> QED
      BY <1>4, <1>5, <3>1
  <2>2. ASSUME NEW q \in M PROVE \E i \in N : c.params[q] = c.text[i].val
    <3>1. PICK i \in NT : d.params[q] = d.text[i].val
      BY <1>3, <1>4, <1>6
    <3> QED
      BY <1>4, <1>5, <3>1
  <2> QED
    BY <1>3, <2>1, <2>2
<1>7. ASSUME Entire(d) PROVE Entire(node.code)
  <2>1. ASSUME NEW i \in T PROVE \E q \in P : p[q] = t[i].val
    <3>1. PICK q \in MP : d.params[q] = d.text[n + i].val
      BY <1>3, <1>4, <1>7
    <3> QED
      BY <1>4, <1>5, <3>1
  <2>2. ASSUME NEW q \in P PROVE \E i \in T : p[q] = t[i].val
    <3>1. PICK i \in NT : d.params[m + q] = d.text[i].val
      BY <1>3, <1>4, <1>7
    <3> QED
      BY <1>4, <1>5, <3>1
  <2> QED
    BY <1>3, <2>1, <2>2
<1>8. ASSUME Entire(c), Entire(node.code) PROVE Entire(d)
  <2>1. ASSUME NEW i \in NT PROVE \E q \in MP : d.params[q] = d.text[i].val
    <3>1. CASE i \in N
      BY <1>3, <1>4, <1>8, <3>1
    <3>2. CASE \E j \in T : i = n + j
      BY <1>3, <1>4, <1>8, <3>2
    <3> QED
      BY <1>4, <3>1, <3>2
  <2>2. ASSUME NEW q \in MP PROVE \E i \in NT : d.params[q] = d.text[i].val
    <3>1. CASE q \in M
      BY <1>3, <1>4, <1>8, <3>1
    <3>2. CASE \E r \in P : q = m + r
      BY <1>3, <1>4, <1>8, <3>2
    <3> QED
      BY <1>4, <3>1, <3>2
  <2> QED
    BY <1>3, <2>1, <2>2
<1> QED
  BY <1>6, <1>7, <1>8 DEF AddEntire

AddBinds(c, node, d) ==
  /\ Bound(d, "positional") <=> Bound(c, "positional") /\ Bound(node.code, "positional")
  /\ Bound(d, "numbered") <=> Bound(c, "numbered") /\ Bound(node.code, "numbered") /\ AddFine(c, node)
  /\ Bound(d, "numbered") \/ Strays(d)

LEMMA AddsPositional ==
  ASSUME NEW c \in Codes, NEW node \in PlanNodes, NEW d \in Codes, NEW n, NEW m, NEW t, NEW p,
         AddRight(c, node, d, n, m, t, p), t = node.code.text, p = node.code.params, RawBound(c, t, p),
         OncePlaced(c), OncePlaced(node.code), OncePlaced(d)
  PROVE  Bound(d, "positional") <=> Bound(c, "positional") /\ Bound(node.code, "positional")
<1>0. AddEntire(c, node.code, d) /\ node.code \in Codes /\ "positional" \in Styles
  BY AddsEntire DEF PlanNodes, Styles
<1>a. CASE ~Entire(d)
  BY <1>0, <1>a, BoundMatches DEF AddEntire
<1>b. CASE Entire(d)
  <2>0. Entire(c) /\ Entire(node.code)
    BY <1>0, <1>b DEF AddEntire
  <2>1. /\ n \in Nat /\ m \in Nat /\ n = Len(c.text) /\ m = Len(c.params) /\ n = m
        /\ Len(t) \in Nat /\ Len(p) \in Nat /\ Len(d.text) = n + Len(t) /\ Len(d.params) = m + Len(p)
        /\ \A i \in 1 .. n : i \in 1 .. n + Len(t) /\ d.text[i] = c.text[i]
        /\ \A q \in 1 .. m : q \in 1 .. m + Len(p) /\ d.params[q] = c.params[q]
        /\ \A j \in 1 .. Len(t) : n + j \in 1 .. n + Len(t) /\ d.text[n + j].val = t[j].val
        /\ \A r \in 1 .. Len(p) : m + r \in 1 .. m + Len(p) /\ d.params[m + r] = p[r]
        /\ \A i \in 1 .. n + Len(t) : i \in 1 .. n \/ \E j \in 1 .. Len(t) : i = n + j
        /\ \A q \in 1 .. m + Len(p) : q \in 1 .. m \/ \E r \in 1 .. Len(p) : q = m + r
    BY <2>0, EntireLengths DEF AddRight
  <2>2. /\ \A i \in 1 .. n, r \in 1 .. Len(p) : c.text[i].val # p[r]
        /\ \A q \in 1 .. m, j \in 1 .. Len(t) : c.params[q] # t[j].val
    BY <2>1 DEF RawBound
  <2>3. /\ NumbersMatch(d, "positional") <=>
             \A i \in 1 .. n + Len(t), q \in 1 .. m + Len(p) : d.params[q] = d.text[i].val => i = q
        /\ NumbersMatch(c, "positional") <=> \A i \in 1 .. n, q \in 1 .. m : c.params[q] = c.text[i].val => i = q
        /\ NumbersMatch(node.code, "positional") <=> \A i \in 1 .. Len(t), q \in 1 .. Len(p) : p[q] = t[i].val => i = q
    BY <2>1 DEF NumbersMatch, PlaceIn
  <2>4. ASSUME NumbersMatch(d, "positional") PROVE NumbersMatch(c, "positional")
    <3>1. ASSUME NEW i \in 1 .. n, NEW q \in 1 .. m, c.params[q] = c.text[i].val PROVE i = q
      <4>1. d.params[q] = d.text[i].val /\ i \in 1 .. n + Len(t) /\ q \in 1 .. m + Len(p)
        BY <2>1, <3>1
      <4> QED
        BY <2>3, <2>4, <4>1
    <3> QED
      BY <2>3, <3>1
  <2>5. ASSUME NumbersMatch(d, "positional") PROVE NumbersMatch(node.code, "positional")
    <3>1. ASSUME NEW i \in 1 .. Len(t), NEW q \in 1 .. Len(p), p[q] = t[i].val PROVE i = q
      <4>1. d.params[m + q] = d.text[n + i].val /\ n + i \in 1 .. n + Len(t) /\ m + q \in 1 .. m + Len(p)
        BY <2>1, <3>1
      <4>2. n + i = m + q
        BY <2>3, <2>5, <4>1
      <4> QED
        BY <2>1, <4>2
    <3> QED
      BY <2>3, <3>1
  <2>6. ASSUME NumbersMatch(c, "positional"), NumbersMatch(node.code, "positional") PROVE NumbersMatch(d, "positional")
    <3>1. ASSUME NEW i \in 1 .. n + Len(t), NEW q \in 1 .. m + Len(p), d.params[q] = d.text[i].val PROVE i = q
      <4>1. CASE i \in 1 .. n /\ q \in 1 .. m
        <5>1. c.params[q] = c.text[i].val
          BY <2>1, <3>1, <4>1
        <5> QED
          BY <2>3, <2>6, <4>1, <5>1
      <4>2. CASE i \in 1 .. n /\ \E r \in 1 .. Len(p) : q = m + r
        <5>1. PICK r \in 1 .. Len(p) : q = m + r
          BY <4>2
        <5>2. p[r] = c.text[i].val
          BY <2>1, <3>1, <4>2, <5>1
        <5> QED
          BY <2>2, <4>2, <5>2
      <4>3. CASE (\E j \in 1 .. Len(t) : i = n + j) /\ q \in 1 .. m
        <5>1. PICK j \in 1 .. Len(t) : i = n + j
          BY <4>3
        <5>2. c.params[q] = t[j].val
          BY <2>1, <3>1, <4>3, <5>1
        <5> QED
          BY <2>2, <4>3, <5>2
      <4>4. CASE (\E j \in 1 .. Len(t) : i = n + j) /\ (\E r \in 1 .. Len(p) : q = m + r)
        <5>1. PICK j \in 1 .. Len(t) : i = n + j
          BY <4>4
        <5>2. PICK r \in 1 .. Len(p) : q = m + r
          BY <4>4
        <5>3. p[r] = t[j].val
          BY <2>1, <3>1, <5>1, <5>2
        <5>4. j = r
          BY <2>3, <2>6, <5>3
        <5> QED
          BY <2>1, <5>1, <5>2, <5>4
      <4> QED
        BY <2>1, <4>1, <4>2, <4>3, <4>4
    <3> QED
      BY <2>3, <3>1
  <2> QED
    BY <1>0, <1>b, <2>0, <2>4, <2>5, <2>6, BoundMatches
<1> QED
  BY <1>a, <1>b

\* What AddRight says of the numbers, when there are as many holes as params.
NumbersRight(c, node, d, n, t, p) ==
  /\ n \in Nat /\ Len(t) \in Nat /\ Len(p) \in Nat
  /\ Len(d.text) = n + Len(t) /\ Len(d.params) = n + Len(p)
  /\ \A i \in 1 .. n : i \in 1 .. n + Len(t) /\ d.text[i].val = c.text[i].val /\ Number(d.text, i) = Number(c.text, i)
  /\ \A q \in 1 .. n : q \in 1 .. n + Len(p) /\ d.params[q] = c.params[q]
  /\ \A j \in 1 .. Len(t) :
       /\ n + j \in 1 .. n + Len(t) /\ d.text[n + j].val = t[j].val /\ t[j].num \in Nat /\ Number(t, j) \in Nat
       /\ Number(d.text, n + j) = IF t[j].num = 0 THEN Zeros(c.text, n) + Number(t, j) ELSE Number(t, j) + Raise(node, n)
  /\ \A r \in 1 .. Len(p) : n + r \in 1 .. n + Len(p) /\ d.params[n + r] = p[r]
  /\ \A i \in 1 .. n + Len(t) : i \in 1 .. n \/ \E j \in 1 .. Len(t) : i = n + j
  /\ \A q \in 1 .. n + Len(p) : q \in 1 .. n \/ \E r \in 1 .. Len(p) : q = n + r

\* The part of the text and params that is the node's.
BehindMatches(d, n, t, p) ==
  \A j \in 1 .. Len(t), r \in 1 .. Len(p) : p[r] = t[j].val => Number(d.text, n + j) = n + r

BehindText(c, node, d, n, t, p) ==
  /\ c \in Codes /\ node \in PlanNodes /\ d \in Codes /\ NumbersRight(c, node, d, n, t, p)
  /\ n = Len(c.text) /\ n = Len(c.params) /\ t = node.code.text /\ p = node.code.params /\ RawBound(c, t, p)
BehindSplit(c, d, n, t, p) == NumbersMatch(d, "numbered") <=> NumbersMatch(c, "numbered") /\ BehindMatches(d, n, t, p)

LEMMA BehindSplits ==
  ASSUME NEW c, NEW node, NEW d, NEW n, NEW t, NEW p, BehindText(c, node, d, n, t, p)
  PROVE  BehindSplit(c, d, n, t, p)
<1>0. /\ c \in Codes /\ node \in PlanNodes /\ d \in Codes /\ NumbersRight(c, node, d, n, t, p)
      /\ n = Len(c.text) /\ n = Len(c.params) /\ RawBound(c, t, p)
  BY DEF BehindText
<1> USE <1>0
<1>1. /\ n \in Nat /\ Len(t) \in Nat /\ Len(p) \in Nat
      /\ \A i \in 1 .. n : i \in 1 .. n + Len(t) /\ d.text[i].val = c.text[i].val /\ Number(d.text, i) = Number(c.text, i)
      /\ \A q \in 1 .. n : q \in 1 .. n + Len(p) /\ d.params[q] = c.params[q]
      /\ \A j \in 1 .. Len(t) : n + j \in 1 .. n + Len(t) /\ d.text[n + j].val = t[j].val
      /\ \A r \in 1 .. Len(p) : n + r \in 1 .. n + Len(p) /\ d.params[n + r] = p[r]
      /\ \A i \in 1 .. n + Len(t) : i \in 1 .. n \/ \E j \in 1 .. Len(t) : i = n + j
      /\ \A q \in 1 .. n + Len(p) : q \in 1 .. n \/ \E r \in 1 .. Len(p) : q = n + r
  BY DEF NumbersRight
<1>2. /\ \A i \in 1 .. n, r \in 1 .. Len(p) : c.text[i].val # p[r]
      /\ \A q \in 1 .. n, j \in 1 .. Len(t) : c.params[q] # t[j].val
  BY DEF RawBound
<1>3. /\ NumbersMatch(d, "numbered") <=>
           \A i \in 1 .. n + Len(t), q \in 1 .. n + Len(p) : d.params[q] = d.text[i].val => Number(d.text, i) = q
      /\ NumbersMatch(c, "numbered") <=>
           \A i \in 1 .. n, q \in 1 .. n : c.params[q] = c.text[i].val => Number(c.text, i) = q
  <2>1. Len(d.text) = n + Len(t) /\ Len(d.params) = n + Len(p)
    BY DEF NumbersRight
  <2> QED
    BY <2>1 DEF NumbersMatch, PlaceIn
<1>4. ASSUME NumbersMatch(d, "numbered") PROVE NumbersMatch(c, "numbered")
  <2>1. ASSUME NEW i \in 1 .. n, NEW q \in 1 .. n, c.params[q] = c.text[i].val PROVE Number(c.text, i) = q
    <3>1. d.params[q] = d.text[i].val /\ i \in 1 .. n + Len(t) /\ q \in 1 .. n + Len(p)
      BY <1>1, <2>1
    <3>2. Number(d.text, i) = q
      BY <1>3, <1>4, <3>1
    <3> QED
      BY <1>1, <3>2
  <2> QED
    BY <1>3, <2>1
<1>5. ASSUME NumbersMatch(d, "numbered") PROVE BehindMatches(d, n, t, p)
  <2>1. ASSUME NEW j \in 1 .. Len(t), NEW r \in 1 .. Len(p), p[r] = t[j].val PROVE Number(d.text, n + j) = n + r
    <3>1. d.params[n + r] = d.text[n + j].val /\ n + j \in 1 .. n + Len(t) /\ n + r \in 1 .. n + Len(p)
      BY <1>1, <2>1
    <3> QED
      BY <1>3, <1>5, <3>1
  <2> QED
    BY <2>1 DEF BehindMatches
<1>6. ASSUME NumbersMatch(c, "numbered"), BehindMatches(d, n, t, p) PROVE NumbersMatch(d, "numbered")
  <2>1. ASSUME NEW i \in 1 .. n + Len(t), NEW q \in 1 .. n + Len(p), d.params[q] = d.text[i].val
        PROVE  Number(d.text, i) = q
    <3>1. CASE i \in 1 .. n /\ q \in 1 .. n
      <4>1. c.params[q] = c.text[i].val
        BY <1>1, <2>1, <3>1
      <4>2. Number(c.text, i) = q
        BY <1>3, <1>6, <3>1, <4>1
      <4> QED
        BY <1>1, <3>1, <4>2
    <3>2. CASE i \in 1 .. n /\ \E r \in 1 .. Len(p) : q = n + r
      <4>1. PICK r \in 1 .. Len(p) : q = n + r
        BY <3>2
      <4>2. p[r] = c.text[i].val
        BY <1>1, <2>1, <3>2, <4>1
      <4> QED
        BY <1>2, <3>2, <4>2
    <3>3. CASE (\E j \in 1 .. Len(t) : i = n + j) /\ q \in 1 .. n
      <4>1. PICK j \in 1 .. Len(t) : i = n + j
        BY <3>3
      <4>2. c.params[q] = t[j].val
        BY <1>1, <2>1, <3>3, <4>1
      <4> QED
        BY <1>2, <3>3, <4>2
    <3>4. CASE (\E j \in 1 .. Len(t) : i = n + j) /\ (\E r \in 1 .. Len(p) : q = n + r)
      <4>1. PICK j \in 1 .. Len(t) : i = n + j
        BY <3>4
      <4>2. PICK r \in 1 .. Len(p) : q = n + r
        BY <3>4
      <4>3. p[r] = t[j].val
        BY <1>1, <2>1, <4>1, <4>2
      <4>4. Number(d.text, n + j) = n + r
        BY <1>6, <4>3 DEF BehindMatches
      <4> QED
        BY <4>1, <4>2, <4>4
    <3> QED
      BY <1>1, <3>1, <3>2, <3>3, <3>4
  <2> QED
    BY <1>3, <2>1
<1> QED
  BY <1>4, <1>5, <1>6 DEF BehindSplit

LEMMA NodeNumbers ==
  ASSUME NEW node \in PlanNodes
  PROVE  /\ HasNumbers(node) <=> \E j \in 1 .. Len(node.code.text) : node.code.text[j].num # 0
         /\ HasMarks(node) <=> \E j \in 1 .. Len(node.code.text) : node.code.text[j].num = 0
<1>1. DOMAIN node.code.text = 1 .. Len(node.code.text)
  BY CodeFits DEF PlanNodes
<1> QED
  BY <1>1 DEF HasNumbers, HasMarks, Range

\* The node's holes are where their params are, if they were on their own and
\* it is fine where it stands; or else one has too low a number.
BehindFit(c, node, d, n, t, p) ==
  /\ BehindMatches(d, n, t, p) <=> NumbersMatch(node.code, "numbered") /\ AddFine(c, node)
  /\ BehindMatches(d, n, t, p) \/ Strays(d)

LEMMA BehindFits ==
  ASSUME NEW c, NEW node, NEW d, NEW n, NEW t, NEW p, BehindText(c, node, d, n, t, p),
         GoodNode(node), Entire(node.code)
  PROVE  BehindFit(c, node, d, n, t, p)
<1>0. /\ c \in Codes /\ node \in PlanNodes /\ d \in Codes /\ NumbersRight(c, node, d, n, t, p)
      /\ n = Len(c.text) /\ n = Len(c.params) /\ t = node.code.text /\ p = node.code.params
  BY DEF BehindText
<1> USE <1>0
<1> DEFINE T == 1 .. Len(t)
           P == 1 .. Len(p)
           z == Zeros(c.text, n)
           b == Raise(node, n)
<1>1. node \in PlanNodes /\ node.code \in Codes /\ Good(node.code)
  BY DEF GoodNode, PlanNodes
<1>2. /\ n \in Nat /\ z \in Nat /\ z <= n /\ b \in 0 .. n
      /\ (z = n <=> ~\E i \in 1 .. n : c.text[i].num # 0)
  BY ZerosBound DEF NumbersRight, Raise
<1>3. b = n \/ (b = 0 /\ node.kind = "plan") \/ (b = 0 /\ ~\E j \in T : t[j].num # 0)
  <2>1. CASE node.kind = "raw"
    <3>1. t = Marks(p)
      BY <2>1 DEF GoodNode
    <3>2. \A j \in 1 .. Len(p) : Marks(p)[j].num = 0
      BY DEF Marks
    <3>3. Len(Marks(p)) = Len(p)
      BY DEF NumbersRight, Marks
    <3> QED
      BY <2>1, <3>1, <3>2, <3>3 DEF Raise
  <2>2. CASE node.kind # "raw"
    BY <1>1, <2>2 DEF PlanNodes, Kinds, Raise
  <2> QED
    BY <2>1, <2>2
<1>4. b = 0 \/ node.kind # "plan"
  BY DEF Raise
<1>5. \A j \in T, r \in P : p[r] = t[j].val /\ t[j].num # 0 => t[j].num <= r
  BY <1>1 DEF Good, Low
<1>6. \A j \in T : Number(t, j) \in Nat /\ (t[j].num # 0 => Number(t, j) = t[j].num)
  BY DEF NumbersRight, Number
<1>7. \A j \in T : Number(d.text, n + j) = IF t[j].num = 0 THEN z + Number(t, j) ELSE Number(t, j) + b
  BY DEF NumbersRight
<1>8. /\ \A j \in T : \E r \in P : p[r] = t[j].val
      /\ \A j \in T : n + j \in 1 .. Len(d.text) /\ d.text[n + j].val = t[j].val
      /\ \A r \in P : n + r \in 1 .. Len(d.params) /\ d.params[n + r] = p[r] /\ r \in Nat /\ n + r \in Nat
  <2>1. \A j \in T : \E r \in P : p[r] = t[j].val
    BY DEF Entire
  <2>2. /\ n \in Nat /\ Len(p) \in Nat /\ Len(d.text) = n + Len(t) /\ Len(d.params) = n + Len(p)
        /\ \A j \in T : n + j \in 1 .. n + Len(t) /\ d.text[n + j].val = t[j].val
        /\ \A r \in P : n + r \in 1 .. n + Len(p) /\ d.params[n + r] = p[r]
    BY DEF NumbersRight
  <2>3. \A r \in P : r \in Nat /\ n + r \in Nat
    BY <2>2
  <2> QED
    BY <2>1, <2>2, <2>3
<1>9. NumbersMatch(node.code, "numbered") <=> \A j \in T, r \in P : p[r] = t[j].val => Number(t, j) = r
  BY DEF NumbersMatch, PlaceIn
<1>10. AddFine(c, node) <=> /\ ~(node.kind = "plan" /\ (\E j \in T : t[j].num # 0) /\ n # 0)
                            /\ ~((\E j \in T : t[j].num = 0) /\ z # n)
  <2>1. c.params # << >> <=> n # 0
    BY CodeFits
  <2> QED
    BY <1>1, <1>2, <2>1, NodeNumbers DEF AddFine
<1> HIDE DEF T, P, z, b
<1>s. ASSUME NEW j \in T, NEW r \in P, p[r] = t[j].val, Number(d.text, n + j) < n + r PROVE Strays(d)
  BY <1>s, <1>8 DEF Strays
<1>a. CASE NumbersMatch(node.code, "numbered") /\ AddFine(c, node)
  <2>1. ASSUME NEW j \in T, NEW r \in P, p[r] = t[j].val PROVE Number(d.text, n + j) = n + r
    <3>1. Number(t, j) = r /\ r \in Nat
      BY <1>9, <1>a, <2>1, <1>8
    <3>2. CASE t[j].num = 0
      BY <1>2, <1>7, <1>10, <1>a, <3>1, <3>2
    <3>3. CASE t[j].num # 0
      <4>1. b = n
        BY <1>2, <1>3, <1>10, <1>a, <3>3
      <4> QED
        BY <1>2, <1>7, <3>1, <3>3, <4>1
    <3> QED
      BY <3>2, <3>3
  <2> QED
    BY <1>a, <2>1 DEF BehindMatches, T, P, BehindFit
<1>b. CASE ~NumbersMatch(node.code, "numbered")
  <2>1. ~Bound(node.code, "numbered") /\ OncePlaced(node.code)
    BY <1>1, <1>b, BoundMatches DEF Good, Styles
  <2>2. \E j \in 1 .. Len(t), r \in 1 .. Len(p) : p[r] = t[j].val /\ Number(t, j) < r
    BY <1>1, <2>1, StraysNot DEF Good
  <2>3. PICK j \in T, r \in P : p[r] = t[j].val /\ Number(t, j) < r
    BY <2>2 DEF T, P
  <2>4. r \in Nat /\ Number(t, j) \in Nat /\ n \in Nat /\ z \in Nat /\ z <= n /\ b \in Nat /\ b <= n
    BY <1>2, <1>6, <1>8
  <2>5. Number(d.text, n + j) < n + r
    <3>1. CASE t[j].num = 0
      <4>1. Number(d.text, n + j) = z + Number(t, j)
        BY <1>7, <3>1
      <4> QED
        BY <2>3, <2>4, <4>1
    <3>2. CASE t[j].num # 0
      <4>1. Number(d.text, n + j) = Number(t, j) + b
        BY <1>7, <3>2
      <4> QED
        BY <2>3, <2>4, <4>1
    <3> QED
      BY <3>1, <3>2
  <2>6. Strays(d) /\ ~BehindMatches(d, n, t, p)
    <3>1. Number(d.text, n + j) # n + r
      <4> DEFINE u == Number(d.text, n + j)
      <4>1. u < n + r /\ u \in Nat
        BY <1>7, <2>4, <2>5
      <4> HIDE DEF u
      <4>2. u # n + r
        BY <2>4, <4>1
      <4> QED
        BY <4>2 DEF u
    <3>2. ~BehindMatches(d, n, t, p)
      BY <2>3, <3>1 DEF BehindMatches, T, P
    <3> QED
      BY <1>s, <2>3, <2>5, <3>2
  <2> QED
    BY <1>b, <2>6 DEF BehindFit
<1>c. CASE NumbersMatch(node.code, "numbered") /\ ~AddFine(c, node)
  <2>0. \A j \in T, r \in P : p[r] = t[j].val => Number(t, j) = r
    BY <1>9, <1>c
  <2>1. \E j \in T : (t[j].num # 0 /\ b = 0 /\ n # 0) \/ (t[j].num = 0 /\ z # n)
    BY <1>4, <1>10, <1>c
  <2>2. PICK j \in T : (t[j].num # 0 /\ b = 0 /\ n # 0) \/ (t[j].num = 0 /\ z # n)
    BY <2>1
  <2>3. PICK r \in P : p[r] = t[j].val
    BY <1>8
  <2>4. Number(t, j) = r /\ r \in Nat /\ n \in Nat /\ z \in Nat /\ z <= n
    BY <1>2, <1>8, <2>0, <2>3
  <2>5. Number(d.text, n + j) < n + r /\ Number(d.text, n + j) \in Nat
    <3>1. CASE t[j].num = 0
      <4>1. Number(d.text, n + j) = z + r
        BY <1>7, <2>4, <3>1
      <4> QED
        BY <2>2, <2>4, <3>1, <4>1
    <3>2. CASE t[j].num # 0
      <4>1. Number(d.text, n + j) = r + b
        BY <1>7, <2>4, <3>2
      <4> QED
        BY <2>2, <2>4, <3>2, <4>1
    <3> QED
      BY <3>1, <3>2
  <2>6. Strays(d)
    BY <1>s, <2>3, <2>5
  <2>7. ~BehindMatches(d, n, t, p)
    <3> DEFINE u == Number(d.text, n + j)
    <3>1. u < n + r /\ u \in Nat
      BY <2>5
    <3> HIDE DEF u
    <3>2. u # n + r
      BY <2>4, <3>1
    <3> QED
      BY <2>3, <3>2 DEF BehindMatches, T, P, u
  <2> QED
    BY <1>c, <2>6, <2>7 DEF BehindFit
<1> QED
  BY <1>a, <1>b, <1>c DEF BehindFit

\* Adding a node keeps codes good, and says how they bind.
LEMMA AddGood ==
  ASSUME NEW c, Good(c), NEW node, GoodNode(node), RawBound(c, node.code.text, node.code.params)
  PROVE  Good(Add(c, node)) /\ AddBinds(c, node, Add(c, node)) /\ AddEntire(c, node.code, Add(c, node))
<1> DEFINE d == Add(c, node)
           t == node.code.text
           p == node.code.params
           n == Len(c.text)
           m == Len(c.params)
<1>1. /\ c \in Codes /\ node \in PlanNodes /\ node.code \in Codes
      /\ OncePlaced(c) /\ OncePlaced(node.code) /\ Low(c) /\ Low(node.code)
      /\ (Bound(c, "numbered") \/ Strays(c))
  BY DEF Good, GoodNode, PlanNodes
<1>2. AddRight(c, node, d, n, m, t, p)
  BY <1>1, AddShapes DEF GoodNode
<1>3. d \in Codes
  BY <1>2 DEF AddRight
<1> HIDE DEF d, t, p, n, m
<1>4. t = node.code.text /\ p = node.code.params /\ n = Len(c.text) /\ m = Len(c.params) /\ RawBound(c, t, p)
  BY DEF t, p, n, m
<1>5. OncePlaced(d) /\ Low(d)
  <2>1. Adding(c, node, d, n, m, t, p)
    BY <1>1, <1>2, <1>3, <1>4 DEF Adding
  <2> QED
    BY <2>1, AddOnce DEF AddKeeps
<1>6. AddEntire(c, node.code, d)
  BY <1>1, <1>2, <1>4, AddsEntire
<1>7. Bound(d, "positional") <=> Bound(c, "positional") /\ Bound(node.code, "positional")
  BY <1>1, <1>2, <1>3, <1>4, <1>5, AddsPositional
<1>s. "numbered" \in Styles
  BY DEF Styles
<1>b. \A x \in {c, node.code, d} : Bound(x, "numbered") <=> Entire(x) /\ NumbersMatch(x, "numbered")
  BY <1>1, <1>3, <1>5, <1>s, BoundMatches
<1>8. /\ Bound(d, "numbered") <=> Bound(c, "numbered") /\ Bound(node.code, "numbered") /\ AddFine(c, node)
      /\ Bound(d, "numbered") \/ Strays(d)
  <2>1. CASE ~Entire(d)
    BY <1>3, <1>5, <1>6, <1>b, <2>1, StraysNot DEF AddEntire
  <2>2. CASE Entire(d)
    <3>1. Entire(c) /\ Entire(node.code) /\ n = m
      BY <1>1, <1>4, <1>6, <2>2, EntireLengths DEF AddEntire
    <3>2. NumbersRight(c, node, d, n, t, p)
      <4>1. \A j \in 1 .. Len(t) : t[j].num \in Nat /\ Number(t, j) \in Nat
              /\ (t[j].num # 0 => Number(t, j) = t[j].num)
        <5>1. \A j \in 1 .. Len(t) : t[j].num \in Nat /\ j \in Nat
          BY <1>1, <1>4, CodeFits
        <5>2. \A j \in Nat : Zeros(t, j) \in Nat
          BY ZerosStep
        <5>3. \A j \in 1 .. Len(t) : Number(t, j) = IF t[j].num # 0 THEN t[j].num ELSE Zeros(t, j)
          BY DEF Number, Zeros
        <5> QED
          BY <5>1, <5>2, <5>3
      <4>2. \A j \in 1 .. Len(t) :
              Number(d.text, n + j) =
                IF t[j].num = 0 THEN Zeros(c.text, n) + Number(t, j) ELSE Number(t, j) + Raise(node, n)
        <5>1. \A j \in 1 .. Len(t) :
                Number(d.text, n + j) =
                  IF t[j].num = 0 THEN Zeros(c.text, n) + Number(t, j) ELSE t[j].num + Raise(node, m)
          BY <1>2 DEF AddRight
        <5> QED
          BY <3>1, <4>1, <5>1
      <4>3. \A i \in 1 .. n : i \in 1 .. n + Len(t) /\ d.text[i].val = c.text[i].val
                              /\ Number(d.text, i) = Number(c.text, i)
        BY <1>2 DEF AddRight
      <4>4. /\ n \in Nat /\ Len(t) \in Nat /\ Len(p) \in Nat
            /\ Len(d.text) = n + Len(t) /\ Len(d.params) = n + Len(p)
            /\ \A q \in 1 .. n : q \in 1 .. n + Len(p) /\ d.params[q] = c.params[q]
            /\ \A r \in 1 .. Len(p) : n + r \in 1 .. n + Len(p) /\ d.params[n + r] = p[r]
            /\ \A i \in 1 .. n + Len(t) : i \in 1 .. n \/ \E j \in 1 .. Len(t) : i = n + j
            /\ \A q \in 1 .. n + Len(p) : q \in 1 .. n \/ \E r \in 1 .. Len(p) : q = n + r
        BY <1>2, <3>1 DEF AddRight
      <4>5. \A j \in 1 .. Len(t) : n + j \in 1 .. n + Len(t) /\ d.text[n + j].val = t[j].val
        BY <1>2 DEF AddRight
      <4> QED
        BY <4>1, <4>2, <4>3, <4>4, <4>5 DEF NumbersRight
    <3>b. BehindText(c, node, d, n, t, p)
      BY <1>1, <1>3, <1>4, <3>1, <3>2 DEF BehindText
    <3>3. NumbersMatch(d, "numbered") <=> NumbersMatch(c, "numbered") /\ BehindMatches(d, n, t, p)
      BY <3>b, BehindSplits DEF BehindSplit
    <3>4. /\ BehindMatches(d, n, t, p) <=> NumbersMatch(node.code, "numbered") /\ AddFine(c, node)
          /\ BehindMatches(d, n, t, p) \/ Strays(d)
      BY <3>b, <3>1, BehindFits DEF BehindFit
    <3>5. Strays(c) => Bound(c, "numbered") \/ Strays(d)
      <4>1. CASE Strays(c)
        <5>1. PICK i \in 1 .. n, q \in 1 .. n : c.params[q] = c.text[i].val /\ Number(c.text, i) < q
          BY <1>1, <1>4, <3>1, <4>1, StraysNot
        <5>2. i \in 1 .. Len(d.text) /\ q \in 1 .. Len(d.params) /\ d.params[q] = d.text[i].val
                /\ Number(d.text, i) < q
          BY <3>2, <5>1 DEF NumbersRight
        <5> QED
          BY <5>2 DEF Strays
      <4> QED
        BY <4>1
    <3> QED
      BY <1>1, <1>b, <2>2, <3>1, <3>3, <3>4, <3>5
  <2> QED
    BY <2>1, <2>2
<1>9. Good(d) /\ AddBinds(c, node, d)
  BY <1>3, <1>5, <1>7, <1>8 DEF Good, AddBinds
<1> QED
  BY <1>6, <1>9 DEF d

-----------------------------------------------------------------------------
\* What the nodes of a clause, one after the other, make of the params so far.
Steps(g, b, s, k) ==
  g = [n \in 0 .. k |-> IF n = 0 THEN [text |-> << >>, params |-> b] ELSE Add(g[n - 1], s[n])]

LEMMA ClauseChosen ==
  ASSUME NEW b, NEW s
  PROVE  Clause(b, s) = (CHOOSE g : Steps(g, b, s, Len(s)))[Len(s)]
BY DEF Clause, Steps

LEMMA StepsExist ==
  ASSUME NEW b, NEW s, NEW k \in Nat
  PROVE  \E g : Steps(g, b, s, k)
<1> DEFINE S == {n \in 0 .. k : \E g : Steps(g, b, s, n)}
           start == [text |-> << >>, params |-> b]
<1>1. 0 \in S
  <2> DEFINE g == [n \in 0 .. 0 |-> start]
  <2>1. g = [n \in 0 .. 0 |-> IF n = 0 THEN start ELSE Add(g[n - 1], s[n])]
    OBVIOUS
  <2>2. Steps(g, b, s, 0)
    BY <2>1 DEF Steps
  <2> QED
    BY <2>2
<1>2. ASSUME NEW n \in 1 .. k, n - 1 \in S PROVE n \in S
  <2>1. PICK g : Steps(g, b, s, n - 1)
    BY <1>2
  <2> DEFINE h == [m \in 0 .. n |-> IF m = n THEN Add(g[n - 1], s[n]) ELSE g[m]]
  <2>2. g = [m \in 0 .. n - 1 |-> IF m = 0 THEN start ELSE Add(g[m - 1], s[m])]
    BY <2>1 DEF Steps
  <2>3. ASSUME NEW m \in 0 .. n PROVE h[m] = IF m = 0 THEN start ELSE Add(h[m - 1], s[m])
    <3>1. CASE m = n
      <4>1. n - 1 \in 0 .. n /\ n - 1 # n /\ m # 0
        BY <3>1
      <4>2. h[m] = Add(g[n - 1], s[n]) /\ h[n - 1] = g[n - 1]
        BY <3>1, <4>1
      <4> QED
        BY <3>1, <4>1, <4>2
    <3>2. CASE m # n
      <4>1. m \in 0 .. n - 1 /\ h[m] = g[m]
        BY <3>2
      <4>2. g[m] = IF m = 0 THEN start ELSE Add(g[m - 1], s[m])
        BY <2>2, <4>1
      <4>3. m # 0 => m - 1 \in 0 .. n /\ m - 1 # n /\ h[m - 1] = g[m - 1]
        BY <4>1
      <4> QED
        BY <4>1, <4>2, <4>3
    <3> QED
      BY <3>1, <3>2
  <2>4. h = [m \in 0 .. n |-> h[m]]
    OBVIOUS
  <2> HIDE DEF h
  <2>5. h = [m \in 0 .. n |-> IF m = 0 THEN start ELSE Add(h[m - 1], s[m])]
    BY <2>3, <2>4
  <2>6. Steps(h, b, s, n)
    BY <2>5 DEF Steps
  <2> QED
    BY <2>6
<1> HIDE DEF S
<1>3. \A n \in 0 .. k : n \in S
  BY <1>1, <1>2, Induct
<1> QED
  BY <1>3 DEF S

StepsOf(g, b, s) ==
  /\ g[0] = [text |-> << >>, params |-> b] /\ g[Len(s)] = Clause(b, s)
  /\ \A n \in 1 .. Len(s) : g[n] = Add(g[n - 1], s[n])

LEMMA ClauseSteps ==
  ASSUME NEW b, NEW s, Len(s) \in Nat
  PROVE  \E g : StepsOf(g, b, s)
<1> DEFINE g == CHOOSE f : Steps(f, b, s, Len(s))
<1>1. Steps(g, b, s, Len(s)) /\ Clause(b, s) = g[Len(s)]
  BY StepsExist, ClauseChosen
<1> HIDE DEF g
<1>2. \A n \in 0 .. Len(s) : g[n] = IF n = 0 THEN [text |-> << >>, params |-> b] ELSE Add(g[n - 1], s[n])
  BY <1>1 DEF Steps
<1>3. g[0] = [text |-> << >>, params |-> b]
  BY <1>2
<1>4. \A n \in 1 .. Len(s) : n \in 0 .. Len(s) /\ n # 0
  OBVIOUS
<1>5. \A n \in 1 .. Len(s) : g[n] = Add(g[n - 1], s[n])
  BY <1>2, <1>4
<1>6. StepsOf(g, b, s)
  BY <1>1, <1>3, <1>5 DEF StepsOf
<1> QED
  BY <1>6

-----------------------------------------------------------------------------
\* A sequence of nodes whose values are all different, from no params.
FineAt(s, k) ==
  /\ ~(s[k].kind = "plan" /\ HasNumbers(s[k]) /\ \E l \in 1 .. k - 1 : s[l].code.params # << >>)
  /\ ~(HasMarks(s[k]) /\ \E l \in 1 .. k - 1 : HasNumbers(s[l]))
Apart(s) ==
  \A k, l \in 1 .. Len(s) : k # l => Vals(s[k].code) \cap Vals(s[l].code) = {}
\* What c, the code of the first n of them, has in common with them.
LinearVals(c, s, n) ==
  /\ \A v \in Vals(c) : \E k \in 1 .. n : v \in Vals(s[k].code)
  /\ c.params # << >> <=> \E k \in 1 .. n : s[k].code.params # << >>
  /\ c.text # << >> <=> \E k \in 1 .. n : s[k].code.text # << >>
  /\ (\E i \in 1 .. Len(c.text) : c.text[i].num # 0) <=> \E k \in 1 .. n : HasNumbers(s[k])
  /\ (\E i \in 1 .. Len(c.text) : c.text[i].num = 0) <=> \E k \in 1 .. n : HasMarks(s[k])
LinearBinds(c, s, n) ==
  /\ Entire(c) <=> \A k \in 1 .. n : Entire(s[k].code)
  /\ Bound(c, "positional") <=> \A k \in 1 .. n : Bound(s[k].code, "positional")
  /\ Bound(c, "numbered") <=> \A k \in 1 .. n : Bound(s[k].code, "numbered") /\ FineAt(s, k)
Linear(c, s, n) == Good(c) /\ LinearVals(c, s, n) /\ LinearBinds(c, s, n)

LEMMA EmptyCode ==
  ASSUME NEW c \in Codes
  PROVE  (c.params # << >> <=> Len(c.params) # 0) /\ (c.text # << >> <=> Len(c.text) # 0)
<1>1. c.params \in Seq(Nat) /\ c.text \in Seq(Hole)
  BY CodeFits
<1> DEFINE t == c.text
           p == c.params
<1>2. t \in Seq(Hole) /\ p \in Seq(Nat)
  BY <1>1
<1> HIDE DEF t, p
<1>3. (p # << >> <=> Len(p) # 0) /\ (t # << >> <=> Len(t) # 0)
  BY <1>2
<1> QED
  BY <1>3 DEF t, p

LEMMA ForeignVals ==
  ASSUME NEW c \in Codes, NEW b \in Codes, Vals(c) \cap Vals(b) = {}
  PROVE  RawBound(c, b.text, b.params)
<1>1. \A x \in {c, b} : /\ \A i \in 1 .. Len(x.text) : x.text[i].val \in Vals(x)
                        /\ \A q \in 1 .. Len(x.params) : x.params[q] \in Vals(x)
  <2>1. \A x \in {c, b} : DOMAIN x.params = 1 .. Len(x.params)
    BY CodeFits
  <2> QED
    BY <2>1 DEF Vals, TextVals, Range
<1> QED
  BY <1>1 DEF RawBound

LEMMA ValsShapes ==
  ASSUME NEW c \in Codes
  PROVE  \A v : v \in Vals(c) <=> \/ \E i \in 1 .. Len(c.text) : v = c.text[i].val
                                  \/ \E q \in 1 .. Len(c.params) : v = c.params[q]
<1>1. DOMAIN c.params = 1 .. Len(c.params)
  BY CodeFits
<1> QED
  BY <1>1 DEF Vals, TextVals, Range

LEMMA AddVals ==
  ASSUME NEW c \in Codes, NEW node, GoodNode(node)
  PROVE  /\ \A v : v \in Vals(Add(c, node)) <=> v \in Vals(c) \/ v \in Vals(node.code)
         /\ Add(c, node).params # << >> <=> c.params # << >> \/ node.code.params # << >>
         /\ Add(c, node).text # << >> <=> c.text # << >> \/ node.code.text # << >>
         /\ (\E i \in 1 .. Len(Add(c, node).text) : Add(c, node).text[i].num # 0) <=>
              (\E i \in 1 .. Len(c.text) : c.text[i].num # 0) \/ HasNumbers(node)
         /\ (\E i \in 1 .. Len(Add(c, node).text) : Add(c, node).text[i].num = 0) <=>
              (\E i \in 1 .. Len(c.text) : c.text[i].num = 0) \/ HasMarks(node)
<1> DEFINE d == Add(c, node)
           t == node.code.text
           p == node.code.params
           n == Len(c.text)
           m == Len(c.params)
<1>1. node \in PlanNodes /\ node.code \in Codes
  BY DEF GoodNode, PlanNodes
<1>2. AddRight(c, node, d, n, m, t, p)
  BY <1>1, AddShapes DEF GoodNode
<1>a. \A j \in 1 .. Len(t) : t[j].num \in Nat
  BY <1>1, CodeFits
<1>3. /\ d \in Codes /\ n \in Nat /\ m \in Nat /\ Len(t) \in Nat /\ Len(p) \in Nat
      /\ Len(d.text) = n + Len(t) /\ Len(d.params) = m + Len(p)
      /\ \A i \in 1 .. n : i \in 1 .. n + Len(t) /\ d.text[i] = c.text[i]
      /\ \A q \in 1 .. m : q \in 1 .. m + Len(p) /\ d.params[q] = c.params[q]
      /\ \A j \in 1 .. Len(t) : n + j \in 1 .. n + Len(t) /\ d.text[n + j].val = t[j].val
      /\ \A r \in 1 .. Len(p) : m + r \in 1 .. m + Len(p) /\ d.params[m + r] = p[r]
      /\ \A i \in 1 .. n + Len(t) : i \in 1 .. n \/ \E j \in 1 .. Len(t) : i = n + j
      /\ \A q \in 1 .. m + Len(p) : q \in 1 .. m \/ \E r \in 1 .. Len(p) : q = m + r
  BY <1>2 DEF AddRight
<1>4. \A j \in 1 .. Len(t) : d.text[n + j].num = 0 <=> t[j].num = 0
  <2>1. Raise(node, m) \in Nat
    BY <1>3 DEF Raise
  <2>2. \A j \in 1 .. Len(t) : d.text[n + j].num = IF t[j].num = 0 THEN 0 ELSE t[j].num + Raise(node, m)
    BY <1>2 DEF AddRight
  <2> SUFFICES ASSUME NEW j \in 1 .. Len(t)
               PROVE  d.text[n + j].num = 0 <=> t[j].num = 0
    OBVIOUS
  <2> DEFINE x == t[j].num
             y == d.text[n + j].num
             z == Raise(node, m)
  <2>3. x \in Nat /\ z \in Nat /\ y = IF x = 0 THEN 0 ELSE x + z
    BY <1>a, <2>1, <2>2
  <2>4. y = 0 <=> x = 0
    <3> HIDE DEF x, y, z
    <3> QED
      BY <2>3
  <2> QED
    BY <2>4
<1>b. /\ \A v : v \in Vals(d) <=> \/ \E i \in 1 .. Len(d.text) : v = d.text[i].val
                                  \/ \E q \in 1 .. Len(d.params) : v = d.params[q]
      /\ \A v : v \in Vals(c) <=> \/ \E i \in 1 .. n : v = c.text[i].val
                                  \/ \E q \in 1 .. m : v = c.params[q]
      /\ \A v : v \in Vals(node.code) <=> \/ \E i \in 1 .. Len(t) : v = t[i].val
                                          \/ \E q \in 1 .. Len(p) : v = p[q]
  BY <1>1, <1>3, ValsShapes
<1>c. /\ HasNumbers(node) <=> \E j \in 1 .. Len(t) : t[j].num # 0
      /\ HasMarks(node) <=> \E j \in 1 .. Len(t) : t[j].num = 0
  BY <1>1, NodeNumbers
<1>d. \A x \in {c, node.code, d} : (x.params # << >> <=> Len(x.params) # 0) /\ (x.text # << >> <=> Len(x.text) # 0)
  <2>1. d \in Codes
    BY <1>3
  <2> HIDE DEF d
  <2> QED
    BY <1>1, <2>1, EmptyCode
<1>5. d.params # << >> <=> c.params # << >> \/ p # << >>
  <2>1. Len(d.params) # 0 <=> m # 0 \/ Len(p) # 0
    <3> HIDE DEF d, m, p
    <3> QED
      BY <1>3
  <2> HIDE DEF d
  <2> QED
    BY <1>d, <2>1
<1>6. d.text # << >> <=> c.text # << >> \/ t # << >>
  <2>1. Len(d.text) # 0 <=> n # 0 \/ Len(t) # 0
    <3> HIDE DEF d, n, t
    <3> QED
      BY <1>3
  <2> HIDE DEF d
  <2> QED
    BY <1>d, <2>1
<1> DEFINE T == 1 .. Len(t)
           P == 1 .. Len(p)
           N == 1 .. n
           M == 1 .. m
           NT == 1 .. Len(d.text)
           MP == 1 .. Len(d.params)
<1>7. /\ \A i \in N : i \in NT /\ d.text[i] = c.text[i]
      /\ \A q \in M : q \in MP /\ d.params[q] = c.params[q]
      /\ \A j \in T : n + j \in NT /\ d.text[n + j].val = t[j].val /\ (d.text[n + j].num = 0 <=> t[j].num = 0)
      /\ \A r \in P : m + r \in MP /\ d.params[m + r] = p[r]
      /\ \A i \in NT : i \in N \/ \E j \in T : i = n + j
      /\ \A q \in MP : q \in M \/ \E r \in P : q = m + r
  BY <1>3, <1>4
<1>8. /\ \A v : v \in Vals(d) <=> (\E i \in NT : v = d.text[i].val) \/ (\E q \in MP : v = d.params[q])
      /\ \A v : v \in Vals(c) <=> (\E i \in N : v = c.text[i].val) \/ (\E q \in M : v = c.params[q])
      /\ \A v : v \in Vals(node.code) <=> (\E i \in T : v = t[i].val) \/ (\E q \in P : v = p[q])
      /\ HasNumbers(node) <=> \E j \in T : t[j].num # 0
      /\ HasMarks(node) <=> \E j \in T : t[j].num = 0
  BY <1>b, <1>c
<1> HIDE DEF T, P, N, M, NT, MP, d, t, p, n, m
<1>9. ASSUME NEW v PROVE v \in Vals(d) <=> v \in Vals(c) \/ v \in Vals(node.code)
  <2>1. (\E i \in NT : v = d.text[i].val) <=> (\E i \in N : v = c.text[i].val) \/ (\E i \in T : v = t[i].val)
    BY <1>7
  <2>2. (\E q \in MP : v = d.params[q]) <=> (\E q \in M : v = c.params[q]) \/ (\E q \in P : v = p[q])
    BY <1>7
  <2> QED
    BY <1>8, <2>1, <2>2
<1>10. (\E i \in NT : d.text[i].num # 0) <=> (\E i \in N : c.text[i].num # 0) \/ HasNumbers(node)
  BY <1>7, <1>8
<1>11. (\E i \in NT : d.text[i].num = 0) <=> (\E i \in N : c.text[i].num = 0) \/ HasMarks(node)
  BY <1>7, <1>8
<1> QED
  BY <1>5, <1>6, <1>9, <1>10, <1>11 DEF d, t, p, n, N, NT

GoodNodes(s) == s \in Seq(PlanNodes) /\ (\A k \in 1 .. Len(s) : GoodNode(s[k])) /\ Apart(s)

LEMMA EmptyIsGood ==
  ASSUME NEW s
  PROVE  Linear(Nothing, s, 0)
<1> DEFINE c == Nothing
<1>1. c.text = << >> /\ c.params = << >> /\ Len(c.text) = 0 /\ Len(c.params) = 0 /\ 1 .. 0 = {}
  BY DEF Nothing
<1>2. c \in Codes
  BY DEF Nothing, Codes
<1>3. Vals(c) = {}
  BY <1>2, <1>1, ValsShapes
<1> HIDE DEF c
<1>4. Bound(c, "positional") /\ Bound(c, "numbered") /\ OncePlaced(c) /\ Low(c) /\ Entire(c)
  BY <1>1 DEF Bound, OncePlaced, Low, Entire
<1>5. LinearVals(c, s, 0) /\ LinearBinds(c, s, 0) /\ Good(c)
  BY <1>1, <1>2, <1>3, <1>4 DEF LinearVals, LinearBinds, Good
<1> QED
  BY <1>5 DEF Linear, c

LEMMA LinearStep ==
  ASSUME NEW s, GoodNodes(s), NEW n \in 1 .. Len(s), NEW c, Linear(c, s, n - 1)
  PROVE  Linear(Add(c, s[n]), s, n)
<1> DEFINE d == Add(c, s[n])
<1>1. Len(s) \in Nat /\ n - 1 \in Nat /\ n \in Nat
  BY DEF GoodNodes
<1>2. \A k : k \in 1 .. n <=> k \in 1 .. n - 1 \/ k = n
  BY <1>1
<1>3. GoodNode(s[n]) /\ Good(c) /\ c \in Codes /\ s[n].code \in Codes
  BY DEF GoodNodes, Linear, Good, GoodNode
<1>4. Vals(c) \cap Vals(s[n].code) = {}
  <2>1. ASSUME NEW v \in Vals(c), v \in Vals(s[n].code) PROVE FALSE
    <3>1. PICK k \in 1 .. n - 1 : v \in Vals(s[k].code)
      BY DEF Linear, LinearVals
    <3>2. k \in 1 .. Len(s) /\ k # n
      BY <1>1
    <3> QED
      BY <2>1, <3>1, <3>2 DEF GoodNodes, Apart
  <2> QED
    BY <2>1
<1>5. Good(d) /\ AddBinds(c, s[n], d) /\ AddEntire(c, s[n].code, d)
  BY <1>3, <1>4, ForeignVals, AddGood
<1>6. /\ \A v : v \in Vals(d) <=> v \in Vals(c) \/ v \in Vals(s[n].code)
      /\ d.params # << >> <=> c.params # << >> \/ s[n].code.params # << >>
      /\ d.text # << >> <=> c.text # << >> \/ s[n].code.text # << >>
      /\ (\E i \in 1 .. Len(d.text) : d.text[i].num # 0) <=>
           (\E i \in 1 .. Len(c.text) : c.text[i].num # 0) \/ HasNumbers(s[n])
      /\ (\E i \in 1 .. Len(d.text) : d.text[i].num = 0) <=>
           (\E i \in 1 .. Len(c.text) : c.text[i].num = 0) \/ HasMarks(s[n])
  BY <1>3, AddVals
<1> HIDE DEF d
<1>7. LinearVals(c, s, n - 1) /\ LinearBinds(c, s, n - 1)
  BY DEF Linear
<1>8. LinearVals(d, s, n)
  <2>1. \A v \in Vals(d) : \E k \in 1 .. n : v \in Vals(s[k].code)
    BY <1>2, <1>6, <1>7 DEF LinearVals
  <2>2. /\ d.params # << >> <=> \E k \in 1 .. n : s[k].code.params # << >>
        /\ d.text # << >> <=> \E k \in 1 .. n : s[k].code.text # << >>
    BY <1>2, <1>6, <1>7 DEF LinearVals
  <2>3. /\ (\E i \in 1 .. Len(d.text) : d.text[i].num # 0) <=> \E k \in 1 .. n : HasNumbers(s[k])
        /\ (\E i \in 1 .. Len(d.text) : d.text[i].num = 0) <=> \E k \in 1 .. n : HasMarks(s[k])
    BY <1>2, <1>6, <1>7 DEF LinearVals
  <2> QED
    BY <2>1, <2>2, <2>3 DEF LinearVals
<1>9. AddFine(c, s[n]) <=> FineAt(s, n)
  BY <1>7 DEF AddFine, FineAt, LinearVals
<1>10. LinearBinds(d, s, n)
  <2>1. Entire(d) <=> \A k \in 1 .. n : Entire(s[k].code)
    BY <1>2, <1>5, <1>7 DEF LinearBinds, AddEntire
  <2>2. Bound(d, "positional") <=> \A k \in 1 .. n : Bound(s[k].code, "positional")
    BY <1>2, <1>5, <1>7 DEF LinearBinds, AddBinds
  <2>3. Bound(d, "numbered") <=> \A k \in 1 .. n : Bound(s[k].code, "numbered") /\ FineAt(s, k)
    BY <1>2, <1>5, <1>7, <1>9 DEF LinearBinds, AddBinds
  <2> QED
    BY <2>1, <2>2, <2>3 DEF LinearBinds
<1> QED
  BY <1>5, <1>8, <1>10 DEF Linear, d

LEMMA LinearRight ==
  ASSUME NEW s, GoodNodes(s)
  PROVE  Linear(Clause(<< >>, s), s, Len(s))
<1>1. Len(s) \in Nat
  BY DEF GoodNodes
<1>2. PICK g : StepsOf(g, << >>, s)
  BY <1>1, ClauseSteps
<1> DEFINE S == {n \in 0 .. Len(s) : Linear(g[n], s, n)}
<1>3. 0 \in S
  BY <1>1, <1>2, EmptyIsGood DEF StepsOf, Nothing
<1>4. ASSUME NEW n \in 1 .. Len(s), n - 1 \in S PROVE n \in S
  BY <1>2, <1>4, LinearStep DEF StepsOf
<1>5. \A n \in 0 .. Len(s) : n \in S
  <2> HIDE DEF S
  <2> QED
    BY <1>1, <1>3, <1>4, Induct
<1>6. Len(s) \in S
  <2>1. Len(s) \in 0 .. Len(s)
    BY <1>1
  <2> QED
    BY <1>5, <2>1
<1> QED
  BY <1>2, <1>6 DEF StepsOf

\* What the model's predicates on nodes say of it.
LEMMA AstrayMeans ==
  ASSUME NEW s, GoodNodes(s)
  PROVE  /\ Holding(s) <=> \E k \in 1 .. Len(s) : s[k].code.params # << >>
         /\ ~Astray(s, "positional") <=> \A k \in 1 .. Len(s) : Bound(s[k].code, "positional")
         /\ ~Astray(s, "numbered") <=> \A k \in 1 .. Len(s) : Bound(s[k].code, "numbered") /\ FineAt(s, k)
<1>1. Len(s) \in Nat /\ s \in Seq(PlanNodes) /\ DOMAIN s = 1 .. Len(s)
  BY DEF GoodNodes
<1>2. \A style : WrongSub(s, style) <=> \E k \in 1 .. Len(s) : ~Bound(s[k].code, style)
  BY <1>1 DEF WrongSub, Range
<1>3. ASSUME NEW k \in 1 .. Len(s)
      PROVE  LET before == SubSeq(s, 1, k - 1)
             IN  /\ Holding(before) <=> \E l \in 1 .. k - 1 : s[l].code.params # << >>
                 /\ (\E node \in Range(before) : HasNumbers(node)) <=> \E l \in 1 .. k - 1 : HasNumbers(s[l])
  <2> DEFINE before == SubSeq(s, 1, k - 1)
  <2>1. Len(before) = k - 1 /\ DOMAIN before = 1 .. k - 1 /\ \A l \in 1 .. k - 1 : before[l] = s[l]
    <3>1. k - 1 \in Nat /\ k - 1 <= Len(s) /\ 1 .. k - 1 \subseteq 1 .. Len(s)
      BY <1>1
    <3>2. before = [l \in 1 .. k - 1 |-> s[l]]
      BY <1>1, <3>1
    <3> QED
      BY <3>1, <3>2
  <2> HIDE DEF before
  <2>2. Holding(before) <=> \E l \in 1 .. k - 1 : s[l].code.params # << >>
    BY <2>1 DEF Holding
  <2>3. (\E node \in Range(before) : HasNumbers(node)) <=> \E l \in 1 .. k - 1 : HasNumbers(s[l])
    BY <2>1 DEF Range
  <2> QED
    BY <2>2, <2>3 DEF before
<1>4. Renumbered(s) <=> \E k \in 1 .. Len(s) : ~FineAt(s, k)
  BY <1>3 DEF Renumbered, FineAt
<1>5. Holding(s) <=> \E k \in 1 .. Len(s) : s[k].code.params # << >>
  BY DEF Holding
<1>6. "positional" # "numbered"
  OBVIOUS
<1> QED
  BY <1>2, <1>4, <1>5, <1>6 DEF Astray

\* A clause from no params binds wrongly just as the model says.
LEMMA ClauseBinds ==
  ASSUME NEW s, GoodNodes(s)
  PROVE  /\ Good(Clause(<< >>, s))
         /\ \A style \in Styles : Bound(Clause(<< >>, s), style) <=> ~Astray(s, style)
BY LinearRight, AstrayMeans DEF Linear, LinearBinds, Styles

-----------------------------------------------------------------------------
\* A clause of two parts, the second from the params of the first.
LEMMA NodeTextFits ==
  ASSUME NEW node \in PlanNodes, NEW m \in Nat
  PROVE  NodeText(node, m) \in Seq(Hole)
<1> DEFINE t == node.code.text
           f == [j \in 1 .. Len(t) |-> [t[j] EXCEPT !.num = IF @ = 0 THEN 0 ELSE @ + m]]
<1>1. /\ t \in Seq(Hole) /\ Len(t) \in Nat
      /\ \A j \in 1 .. Len(t) : t[j] \in Hole /\ t[j].val \in Nat /\ t[j].num \in Nat
  BY CodeFits DEF PlanNodes
<1> HIDE DEF t
<1>2. ASSUME NEW j \in 1 .. Len(t) PROVE f[j] \in Hole
  <2> DEFINE h == t[j]
             w == IF h.num = 0 THEN 0 ELSE h.num + m
  <2>1. f[j] = [h EXCEPT !.num = w]
    OBVIOUS
  <2>2. h \in [val : Nat, num : Nat] /\ w \in Nat
    BY <1>1 DEF Hole
  <2> HIDE DEF h, w, f
  <2> QED
    BY <2>1, <2>2 DEF Hole
<1>3. f \in [1 .. Len(t) -> Hole]
  BY <1>2
<1>4. NodeText(node, m) = f \/ NodeText(node, m) = t
  BY DEF NodeText, Shifted, t
<1> HIDE DEF f
<1>5. f \in Seq(Hole)
  BY <1>1, <1>3
<1> QED
  BY <1>1, <1>4, <1>5

LEMMA AddFits ==
  ASSUME NEW c \in Codes, NEW node \in PlanNodes
  PROVE  Add(c, node) \in Codes
<1> DEFINE x == NodeText(node, Len(c.params))
           p == node.code.params
           u == c.text
           w == c.params
<1>1. x \in Seq(Hole) /\ p \in Seq(Nat) /\ u \in Seq(Hole) /\ w \in Seq(Nat)
  BY NodeTextFits, CodeFits DEF PlanNodes
<1>2. Add(c, node) = [text |-> u \o x, params |-> w \o p]
  BY DEF Add
<1> HIDE DEF x, p, u, w
<1>3. u \o x \in Seq(Hole) /\ w \o p \in Seq(Nat)
  BY <1>1
<1> QED
  BY <1>2, <1>3 DEF Codes

SplitRight(b, s, t) ==
  Clause(b, s \o t) =
    [text |-> Clause(b, s).text \o Clause(Clause(b, s).params, t).text,
     params |-> Clause(Clause(b, s).params, t).params]

LEMMA ClauseFits ==
  ASSUME NEW b \in Seq(Nat), NEW s \in Seq(PlanNodes)
  PROVE  Clause(b, s) \in Codes
<1>1. Len(s) \in Nat /\ \A n \in 1 .. Len(s) : s[n] \in PlanNodes
  OBVIOUS
<1>2. PICK g : StepsOf(g, b, s)
  BY <1>1, ClauseSteps
<1> DEFINE S == {n \in 0 .. Len(s) : g[n] \in Codes}
<1>3. 0 \in S
  <2>1. [text |-> << >>, params |-> b] \in Codes
    BY DEF Codes
  <2> QED
    BY <1>1, <1>2, <2>1 DEF StepsOf
<1>4. ASSUME NEW n \in 1 .. Len(s), n - 1 \in S PROVE n \in S
  BY <1>1, <1>2, <1>4, AddFits DEF StepsOf
<1>5. \A n \in 0 .. Len(s) : n \in S
  <2> HIDE DEF S
  <2> QED
    BY <1>1, <1>3, <1>4, Induct
<1>6. Len(s) \in 0 .. Len(s)
  BY <1>1
<1> QED
  BY <1>2, <1>5, <1>6 DEF StepsOf

LEMMA ClauseSplit ==
  ASSUME NEW b \in Seq(Nat), NEW s \in Seq(PlanNodes), NEW t \in Seq(PlanNodes)
  PROVE  SplitRight(b, s, t)
<1> DEFINE u == s \o t
           n == Len(s)
           m == Len(t)
           c == Clause(b, s)
<1>0. ConcatRight(PlanNodes, s, t, u, n, m)
  BY ConcatPlaces
<1>1. /\ n \in Nat /\ m \in Nat /\ Len(u) = n + m /\ Len(u) \in Nat
      /\ \A i \in 1 .. n : i \in 1 .. n + m /\ u[i] = s[i]
      /\ \A j \in 1 .. m : n + j \in 1 .. n + m /\ u[n + j] = t[j]
  BY <1>0 DEF ConcatRight
<1>t. \A j \in 1 .. m : t[j] \in PlanNodes
  OBVIOUS
<1>c. c \in Codes
  BY ClauseFits
<1> HIDE DEF c, u, n, m
<1>2. PICK f : StepsOf(f, b, u)
  BY <1>1, ClauseSteps
<1>3. PICK g : StepsOf(g, b, s)
  BY <1>1, ClauseSteps DEF n
<1>4. PICK h : StepsOf(h, c.params, t)
  BY <1>1, ClauseSteps DEF m
<1>f. f[0] = [text |-> << >>, params |-> b] /\ f[n + m] = Clause(b, u) /\ \A i \in 1 .. n + m : f[i] = Add(f[i - 1], u[i])
  BY <1>1, <1>2 DEF StepsOf
<1>g. g[0] = [text |-> << >>, params |-> b] /\ g[n] = c /\ \A i \in 1 .. n : g[i] = Add(g[i - 1], s[i])
  BY <1>3 DEF StepsOf, n, c
<1>h. h[0] = [text |-> << >>, params |-> c.params] /\ h[m] = Clause(c.params, t)
      /\ \A i \in 1 .. m : h[i] = Add(h[i - 1], t[i])
  BY <1>4 DEF StepsOf, m
<1>5. \A i \in 0 .. n : f[i] = g[i]
  <2> DEFINE S == {i \in 0 .. n : f[i] = g[i]}
  <2>1. 0 \in S
    BY <1>1, <1>f, <1>g
  <2>2. ASSUME NEW i \in 1 .. n, i - 1 \in S PROVE i \in S
    <3>1. i \in 0 .. n /\ f[i - 1] = g[i - 1] /\ u[i] = s[i] /\ i \in 1 .. n + m
      BY <1>1, <2>2
    <3> QED
      BY <1>f, <1>g, <3>1
  <2>3. \A i \in 0 .. n : i \in S
    <3> HIDE DEF S
    <3> QED
      BY <1>1, <2>1, <2>2, Induct
  <2> QED
    BY <2>3
<1> DEFINE Joined(j) == [text |-> c.text \o h[j].text, params |-> h[j].params]
<1>6. \A j \in 0 .. m : h[j] \in Codes /\ f[n + j] = Joined(j)
  <2> DEFINE S == {j \in 0 .. m : h[j] \in Codes /\ f[n + j] = Joined(j)}
  <2>1. 0 \in S
    <3>1. n + 0 = n /\ n \in 0 .. n /\ 0 \in 0 .. m
      BY <1>1
    <3>2. f[n] = c
      BY <1>5, <1>g, <3>1
    <3>3. h[0].text = << >> /\ h[0].params = c.params /\ h[0] \in Codes
      BY <1>h, <1>c DEF Codes
    <3>4. c.text \o << >> = c.text /\ c = [text |-> c.text, params |-> c.params]
      BY <1>c, CodeFits, ConcatEmptySeq
    <3>5. f[n + 0] = Joined(0)
      BY <3>1, <3>2, <3>3, <3>4
    <3> QED
      BY <3>1, <3>3, <3>5
  <2>2. ASSUME NEW j \in 1 .. m, j - 1 \in S PROVE j \in S
    <3> DEFINE e == h[j - 1]
               x == NodeText(t[j], Len(e.params))
    <3>1. e \in Codes /\ f[n + (j - 1)] = [text |-> c.text \o e.text, params |-> e.params]
      BY <2>2
    <3>2. t[j] \in PlanNodes /\ u[n + j] = t[j] /\ n + j \in 1 .. n + m /\ (n + j) - 1 = n + (j - 1) /\ j \in 0 .. m
      BY <1>1, <1>t
    <3>3. h[j] = Add(e, t[j])
      BY <1>h
    <3>4. f[n + j] = Add(f[n + (j - 1)], t[j])
      BY <1>f, <3>2
    <3> HIDE DEF e
    <3>5. h[j] \in Codes
      BY <3>1, <3>2, <3>3, AddFits
    <3>6. h[j] = [text |-> e.text \o x, params |-> e.params \o t[j].code.params]
      BY <3>3 DEF Add
    <3>7. f[n + j] = [text |-> (c.text \o e.text) \o x, params |-> e.params \o t[j].code.params]
      BY <3>1, <3>4 DEF Add
    <3>8. x \in Seq(Hole) /\ e.text \in Seq(Hole) /\ c.text \in Seq(Hole)
      BY <1>c, <3>1, <3>2, CodeFits, NodeTextFits
    <3> HIDE DEF x
    <3>9. (c.text \o e.text) \o x = c.text \o (e.text \o x)
      <4> DEFINE y == c.text
                 z == e.text
      <4>1. x \in Seq(Hole) /\ y \in Seq(Hole) /\ z \in Seq(Hole)
        BY <3>8
      <4> HIDE DEF y, z
      <4>2. (y \o z) \o x = y \o (z \o x)
        BY <4>1, ConcatAssociative
      <4> QED
        BY <4>2 DEF y, z
    <3>10. f[n + j] = Joined(j)
      BY <3>6, <3>7, <3>9
    <3> QED
      BY <3>2, <3>5, <3>10
  <2>3. \A j \in 0 .. m : j \in S
    <3> HIDE DEF S
    <3> QED
      BY <1>1, <2>1, <2>2, Induct
  <2> QED
    BY <2>3
<1>7. f[n + m] = Joined(m)
  <2>1. m \in 0 .. m
    BY <1>1
  <2> QED
    BY <1>6, <2>1
<1> QED
  BY <1>7, <1>f, <1>h DEF SplitRight, u, c

-----------------------------------------------------------------------------
\* The same holes in another order. Ties are the values with their numbers, z
\* ?s being before.
AllZeros(t) == Zeros(t, Len(t))
Tie(t, i, z) == <<t[i].val, IF t[i].num # 0 THEN t[i].num ELSE z + Zeros(t, i)>>
Ties(t, z) == {Tie(t, i, z) : i \in 1 .. Len(t)}
Joins(s, t, u) ==
  /\ u \in Seq(Hole) /\ Len(u) = Len(s) + Len(t) /\ Range(u) = Range(s) \cup Range(t)
  /\ {AllZeros(s), AllZeros(t)} \subseteq Nat /\ AllZeros(u) = AllZeros(s) + AllZeros(t)
  /\ \A z \in Nat : Ties(u, z) = Ties(s, z) \cup Ties(t, z + AllZeros(s))

LEMMA TextJoins ==
  ASSUME NEW s \in Seq(Hole), NEW t \in Seq(Hole)
  PROVE  Joins(s, t, s \o t)
<1> DEFINE u == s \o t
           n == Len(s)
           m == Len(t)
<1>1. ConcatRight(Hole, s, t, u, n, m)
  BY ConcatPlaces
<1>2. /\ \A i \in 0 .. n : Zeros(u, i) = Zeros(s, i)
      /\ \A j \in 0 .. m : Zeros(u, n + j) = Zeros(s, n) + Zeros(t, j)
  BY ZerosConcat
<1>d. DOMAIN s = 1 .. n /\ DOMAIN t = 1 .. m /\ DOMAIN u = 1 .. Len(u)
  BY <1>1 DEF ConcatRight
<1> HIDE DEF u, n, m
<1>3. /\ n \in Nat /\ m \in Nat /\ u \in Seq(Hole) /\ Len(u) = n + m
      /\ \A i \in 1 .. n : i \in 1 .. n + m /\ u[i] = s[i]
      /\ \A j \in 1 .. m : n + j \in 1 .. n + m /\ u[n + j] = t[j]
      /\ \A i \in 1 .. n + m : i \in 1 .. n \/ \E j \in 1 .. m : i = n + j
  BY <1>1 DEF ConcatRight
<1>4. Range(u) = Range(s) \cup Range(t)
  <2>1. /\ Range(u) = {u[i] : i \in 1 .. n + m} /\ Range(s) = {s[i] : i \in 1 .. n} /\ Range(t) = {t[i] : i \in 1 .. m}
    BY <1>3, <1>d DEF Range
  <2> DEFINE N == 1 .. n
             M == 1 .. m
             NM == 1 .. n + m
  <2>2. /\ \A i \in N : i \in NM /\ u[i] = s[i]
        /\ \A j \in M : n + j \in NM /\ u[n + j] = t[j]
        /\ \A i \in NM : i \in N \/ \E j \in M : i = n + j
    BY <1>3
  <2> HIDE DEF N, M, NM
  <2>3. {u[i] : i \in NM} = {s[i] : i \in N} \cup {t[i] : i \in M}
    BY <2>2
  <2> QED
    BY <2>1, <2>3 DEF N, M, NM
<1>5. AllZeros(s) \in Nat /\ AllZeros(t) \in Nat /\ AllZeros(u) = AllZeros(s) + AllZeros(t)
  <2>1. m \in 0 .. m
    BY <1>3
  <2> QED
    BY <1>2, <1>3, <2>1, ZerosStep DEF AllZeros, n, m
<1>6. ASSUME NEW z \in Nat PROVE Ties(u, z) = Ties(s, z) \cup Ties(t, z + AllZeros(s))
  <2>1. ASSUME NEW i \in 1 .. n PROVE Tie(u, i, z) = Tie(s, i, z)
    <3>1. i \in 0 .. n
      BY <1>3
    <3> QED
      BY <1>2, <1>3, <3>1 DEF Tie
  <2>2. ASSUME NEW j \in 1 .. m PROVE Tie(u, n + j, z) = Tie(t, j, z + AllZeros(s))
    <3>1. j \in 0 .. m /\ j \in Nat /\ u[n + j] = t[j]
      BY <1>3
    <3>2. Zeros(u, n + j) = Zeros(s, n) + Zeros(t, j) /\ Zeros(s, n) \in Nat /\ Zeros(t, j) \in Nat
      BY <1>2, <1>3, <3>1, ZerosStep
    <3>3. z + Zeros(u, n + j) = (z + Zeros(s, n)) + Zeros(t, j)
      BY <3>2
    <3> QED
      BY <3>1, <3>3 DEF Tie, AllZeros, n
  <2> DEFINE N == 1 .. n
             M == 1 .. m
             NM == 1 .. n + m
  <2>3. /\ Ties(u, z) = {Tie(u, i, z) : i \in NM} /\ Ties(s, z) = {Tie(s, i, z) : i \in N}
        /\ Ties(t, z + AllZeros(s)) = {Tie(t, i, z + AllZeros(s)) : i \in M}
    BY <1>3 DEF Ties, n, m
  <2>4. /\ \A i \in N : i \in NM /\ Tie(u, i, z) = Tie(s, i, z)
        /\ \A j \in M : n + j \in NM /\ Tie(u, n + j, z) = Tie(t, j, z + AllZeros(s))
        /\ \A i \in NM : i \in N \/ \E j \in M : i = n + j
    BY <1>3, <2>1, <2>2
  <2> HIDE DEF N, M, NM
  <2>5. {Tie(u, i, z) : i \in NM} = {Tie(s, i, z) : i \in N} \cup {Tie(t, i, z + AllZeros(s)) : i \in M}
    BY <2>4
  <2> QED
    BY <2>3, <2>5
<1> QED
  BY <1>3, <1>4, <1>5, <1>6 DEF Joins, u, n, m

\* Holes with numbers need not know how many ?s are before.
LEMMA NumberedTies ==
  ASSUME NEW t \in Seq(Hole), \A i \in 1 .. Len(t) : t[i].num # 0
  PROVE  AllZeros(t) = 0 /\ \A z, y : Ties(t, z) = Ties(t, y)
<1>1. {k \in 1 .. Len(t) : t[k].num = 0} = {}
  OBVIOUS
<1>2. AllZeros(t) = 0
  BY <1>1, FS_EmptySet DEF AllZeros, Zeros
<1>3. \A z, y : \A i \in 1 .. Len(t) : Tie(t, i, z) = Tie(t, i, y)
  BY DEF Tie
<1>4. \A z, y : Ties(t, z) = Ties(t, y)
  BY <1>3 DEF Ties
<1> QED
  BY <1>2, <1>4

LEMMA NoTies == AllZeros(<< >>) = 0 /\ Range(<< >>) = {} /\ \A z : Ties(<< >>, z) = {}
<1>1. {k \in 1 .. 0 : << >>[k].num = 0} = {} /\ Len(<< >>) = 0 /\ 1 .. 0 = {} /\ DOMAIN << >> = {}
  OBVIOUS
<1>2. AllZeros(<< >>) = 0
  BY <1>1, FS_EmptySet DEF AllZeros, Zeros
<1> QED
  BY <1>1, <1>2 DEF Ties, Range

\* What two codes with the same holes have in common, and with the same ties.
LEMMA SameHoles ==
  ASSUME NEW c \in Codes, NEW d \in Codes, Range(c.text) = Range(d.text), c.params = d.params
  PROVE  (Entire(c) <=> Entire(d)) /\ (Low(c) <=> Low(d)) /\ Vals(c) = Vals(d)
<1>1. DOMAIN c.text = 1 .. Len(c.text) /\ DOMAIN d.text = 1 .. Len(d.text)
  BY CodeFits
<1>2. /\ \A i \in 1 .. Len(c.text) : \E j \in 1 .. Len(d.text) : c.text[i] = d.text[j]
      /\ \A i \in 1 .. Len(d.text) : \E j \in 1 .. Len(c.text) : d.text[i] = c.text[j]
  BY <1>1 DEF Range
<1> DEFINE N == 1 .. Len(c.text)
           M == 1 .. Len(d.text)
           P == 1 .. Len(c.params)
<1>3. (\A i \in N : \E j \in M : c.text[i] = d.text[j]) /\ (\A i \in M : \E j \in N : d.text[i] = c.text[j])
  BY <1>2
<1>4. /\ Entire(c) <=> /\ \A i \in N : \E q \in P : c.params[q] = c.text[i].val
                       /\ \A q \in P : \E i \in N : c.params[q] = c.text[i].val
      /\ Entire(d) <=> /\ \A i \in M : \E q \in P : c.params[q] = d.text[i].val
                       /\ \A q \in P : \E i \in M : c.params[q] = d.text[i].val
  BY DEF Entire
<1>5. /\ Low(c) <=> \A i \in N, q \in P : c.text[i].num # 0 /\ c.params[q] = c.text[i].val => c.text[i].num <= q
      /\ Low(d) <=> \A i \in M, q \in P : d.text[i].num # 0 /\ c.params[q] = d.text[i].val => d.text[i].num <= q
  BY DEF Low
<1>6. TextVals(c) = {c.text[i].val : i \in N} /\ TextVals(d) = {d.text[i].val : i \in M}
  BY DEF TextVals
<1> HIDE DEF N, M, P
<1>7. Entire(c) <=> Entire(d)
  BY <1>3, <1>4
<1>8. Low(c) <=> Low(d)
  BY <1>3, <1>5
<1>9. TextVals(c) = TextVals(d)
  BY <1>3, <1>6
<1> QED
  BY <1>7, <1>8, <1>9 DEF Vals

LEMMA SameOnce ==
  ASSUME NEW c \in Codes, NEW d \in Codes, Range(c.text) = Range(d.text), c.params = d.params,
         Len(c.text) = Len(d.text), OncePlaced(c)
  PROVE  OncePlaced(d)
<1> DEFINE n == Len(c.text)
           V == TextVals(c)
           f == [i \in 1 .. n |-> c.text[i].val]
           g == [i \in 1 .. n |-> d.text[i].val]
<1>1. n \in Nat /\ Len(d.text) = n
  BY CodeFits
<1>2. V = {c.text[i].val : i \in 1 .. n} /\ V = {d.text[i].val : i \in 1 .. n}
  <2>1. DOMAIN c.text = 1 .. n /\ DOMAIN d.text = 1 .. n
    BY CodeFits
  <2>2. Range(c.text) = {c.text[i] : i \in 1 .. n} /\ Range(d.text) = {d.text[i] : i \in 1 .. n}
    BY <2>1 DEF Range
  <2>3. {c.text[i] : i \in 1 .. n} = {d.text[i] : i \in 1 .. n}
    BY <2>2
  <2>4. /\ \A i \in 1 .. n : \E j \in 1 .. n : c.text[i] = d.text[j]
        /\ \A i \in 1 .. n : \E j \in 1 .. n : d.text[i] = c.text[j]
    BY <2>3
  <2> DEFINE N == 1 .. n
             x(i) == c.text[i].val
             y(i) == d.text[i].val
  <2>5. (\A i \in N : \E j \in N : x(i) = y(j)) /\ (\A i \in N : \E j \in N : y(i) = x(j))
    BY <2>4
  <2>6. V = {x(i) : i \in N} /\ {d.text[i].val : i \in 1 .. n} = {y(i) : i \in N}
        /\ {c.text[i].val : i \in 1 .. n} = {x(i) : i \in N}
    BY DEF TextVals
  <2> HIDE DEF N, x, y
  <2>7. {x(i) : i \in N} = {y(i) : i \in N}
    BY <2>5
  <2> HIDE DEF n, V
  <2> QED
    BY <2>6, <2>7
<1>3. IsFiniteSet(1 .. n) /\ Cardinality(1 .. n) = n
  BY <1>1, FS_Interval
<1>o. \A i, j \in 1 .. n : c.text[i].val = c.text[j].val => i = j
  BY DEF OncePlaced
<1> HIDE DEF n, V
<1>4. f \in Surjection(1 .. n, V)
  BY <1>2 DEF Surjection
<1>5. g \in Surjection(1 .. n, V)
  BY <1>2 DEF Surjection
<1>6. f \in Injection(1 .. n, V)
  BY <1>2, <1>o DEF Injection, IsInjective
<1> HIDE DEF f
<1>7. IsFiniteSet(V) /\ Cardinality(V) = Cardinality(1 .. n)
  BY <1>3, <1>4, <1>6, FS_Surjection
<1>i. \A i \in 1 .. n : g[i] = d.text[i].val
  OBVIOUS
<1> HIDE DEF g
<1>8. g \in Injection(1 .. n, V)
  BY <1>3, <1>5, <1>7, FS_SurjSameCardinalityImpliesInj
<1>9. \A i, j \in 1 .. n : d.text[i].val = d.text[j].val => i = j
  BY <1>8, <1>i DEF Injection, IsInjective
<1>10. \A q, r \in 1 .. Len(d.params) : d.params[q] = d.params[r] => q = r
  BY DEF OncePlaced
<1> QED
  BY <1>1, <1>9, <1>10 DEF OncePlaced

LEMMA SameTies ==
  ASSUME NEW c \in Codes, NEW d \in Codes, Range(c.text) = Range(d.text), c.params = d.params,
         Ties(c.text, 0) = Ties(d.text, 0), OncePlaced(c), OncePlaced(d)
  PROVE  (Bound(c, "numbered") <=> Bound(d, "numbered")) /\ (Strays(c) <=> Strays(d))
<1>1. Entire(c) <=> Entire(d)
  BY SameHoles
<1>2. \A x \in {c, d} : \A i \in 1 .. Len(x.text) : Tie(x.text, i, 0) = <<x.text[i].val, Number(x.text, i)>>
  <2>1. ASSUME NEW x \in {c, d}, NEW i \in 1 .. Len(x.text)
        PROVE  Tie(x.text, i, 0) = <<x.text[i].val, Number(x.text, i)>>
    <3>1. i \in Nat /\ Zeros(x.text, i) \in Nat
      BY ZerosStep
    <3>2. 0 + Zeros(x.text, i) = Zeros(x.text, i)
      BY <3>1
    <3> QED
      BY <3>2 DEF Tie, Number, Zeros
  <2> QED
    BY <2>1
<1>3. \A x \in {c, d} : Ties(x.text, 0) = {<<x.text[i].val, Number(x.text, i)>> : i \in 1 .. Len(x.text)}
  BY <1>2 DEF Ties
<1>4. /\ \A i \in 1 .. Len(c.text) : \E j \in 1 .. Len(d.text) :
           c.text[i].val = d.text[j].val /\ Number(c.text, i) = Number(d.text, j)
      /\ \A i \in 1 .. Len(d.text) : \E j \in 1 .. Len(c.text) :
           d.text[i].val = c.text[j].val /\ Number(d.text, i) = Number(c.text, j)
  <2>1. {<<c.text[i].val, Number(c.text, i)>> : i \in 1 .. Len(c.text)} =
        {<<d.text[i].val, Number(d.text, i)>> : i \in 1 .. Len(d.text)}
    BY <1>3
  <2> DEFINE x(i) == <<c.text[i].val, Number(c.text, i)>>
             y(i) == <<d.text[i].val, Number(d.text, i)>>
  <2>2. {x(i) : i \in 1 .. Len(c.text)} = {y(i) : i \in 1 .. Len(d.text)}
    BY <2>1
  <2>3. \A i, j : x(i) = y(j) <=> c.text[i].val = d.text[j].val /\ Number(c.text, i) = Number(d.text, j)
    OBVIOUS
  <2> HIDE DEF x, y
  <2>4. /\ \A i \in 1 .. Len(c.text) : \E j \in 1 .. Len(d.text) : x(i) = y(j)
        /\ \A i \in 1 .. Len(d.text) : \E j \in 1 .. Len(c.text) : x(j) = y(i)
    BY <2>2
  <2> QED
    BY <2>3, <2>4
<1> DEFINE N == 1 .. Len(c.text)
           M == 1 .. Len(d.text)
           P == 1 .. Len(c.params)
<1>5. /\ \A i \in N : \E j \in M : c.text[i].val = d.text[j].val /\ Number(c.text, i) = Number(d.text, j)
      /\ \A i \in M : \E j \in N : d.text[i].val = c.text[j].val /\ Number(d.text, i) = Number(c.text, j)
  BY <1>4
<1>6. /\ NumbersMatch(c, "numbered") <=> \A i \in N, q \in P : c.params[q] = c.text[i].val => Number(c.text, i) = q
      /\ NumbersMatch(d, "numbered") <=> \A i \in M, q \in P : c.params[q] = d.text[i].val => Number(d.text, i) = q
  BY DEF NumbersMatch, PlaceIn
<1>7. /\ Strays(c) <=> ~Entire(c) \/ \E i \in N, q \in P : c.params[q] = c.text[i].val /\ Number(c.text, i) < q
      /\ Strays(d) <=> ~Entire(d) \/ \E i \in M, q \in P : c.params[q] = d.text[i].val /\ Number(d.text, i) < q
  BY DEF Strays, Entire
<1>8. "numbered" \in Styles
  BY DEF Styles
<1>9. /\ Bound(c, "numbered") <=> Entire(c) /\ NumbersMatch(c, "numbered")
      /\ Bound(d, "numbered") <=> Entire(d) /\ NumbersMatch(d, "numbered")
  BY <1>8, BoundMatches
<1> HIDE DEF N, M, P
<1>10. NumbersMatch(c, "numbered") <=> NumbersMatch(d, "numbered")
  BY <1>5, <1>6
<1>11. Strays(c) <=> Strays(d)
  BY <1>1, <1>5, <1>7
<1> QED
  BY <1>1, <1>9, <1>10, <1>11

-----------------------------------------------------------------------------
\* Nodes, and what their values are.
NV(s) == UNION {Vals(s[k].code) : k \in 1 .. Len(s)}
PV(s) == UNION {Range(s[k].code.params) : k \in 1 .. Len(s)}
JoinNodes(s, t, u) ==
  /\ u \in Seq(PlanNodes) /\ NV(u) = NV(s) \cup NV(t) /\ PV(u) = PV(s) \cup PV(t)
  /\ Holding(u) <=> Holding(s) \/ Holding(t)
  /\ GoodNodes(s) /\ GoodNodes(t) /\ NV(s) \cap NV(t) = {} => GoodNodes(u)
  /\ (\A x \in Range(s) \cup Range(t) : Entire(x.code)) <=> \A x \in Range(u) : Entire(x.code)

LEMMA NodesJoin ==
  ASSUME NEW s \in Seq(PlanNodes), NEW t \in Seq(PlanNodes)
  PROVE  JoinNodes(s, t, s \o t)
<1> DEFINE u == s \o t
           n == Len(s)
           m == Len(t)
           N == 1 .. n
           M == 1 .. m
           NM == 1 .. n + m
<1>1. ConcatRight(PlanNodes, s, t, u, n, m)
  BY ConcatPlaces
<1>d. DOMAIN s = N /\ DOMAIN t = M /\ DOMAIN u = 1 .. Len(u)
  BY <1>1 DEF ConcatRight
<1> HIDE DEF u, n, m
<1>2. /\ u \in Seq(PlanNodes) /\ Len(u) = n + m /\ n \in Nat /\ m \in Nat
      /\ \A i \in N : i \in NM /\ u[i] = s[i]
      /\ \A j \in M : n + j \in NM /\ u[n + j] = t[j] /\ n + j \notin N
      /\ \A i \in NM : i \in N \/ \E j \in M : i = n + j
  BY <1>1 DEF ConcatRight
<1>3. DOMAIN u = NM /\ NM = 1 .. Len(u) /\ N = 1 .. Len(s) /\ M = 1 .. Len(t)
  BY <1>2, <1>d DEF n, m
<1>i. \A i, j \in M : n + i = n + j => i = j
  BY <1>2
<1> HIDE DEF N, M, NM
<1>4. NV(u) = NV(s) \cup NV(t)
  <2>1. NV(u) = UNION {Vals(u[k].code) : k \in NM} /\ NV(s) = UNION {Vals(s[k].code) : k \in N}
        /\ NV(t) = UNION {Vals(t[k].code) : k \in M}
    BY <1>3 DEF NV
  <2>2. ASSUME NEW v PROVE v \in NV(u) <=> v \in NV(s) \/ v \in NV(t)
    <3>1. v \in NV(u) <=> \E k \in NM : v \in Vals(u[k].code)
      BY <2>1
    <3>2. v \in NV(s) <=> \E k \in N : v \in Vals(s[k].code)
      BY <2>1
    <3>3. v \in NV(t) <=> \E k \in M : v \in Vals(t[k].code)
      BY <2>1
    <3> QED
      BY <1>2, <3>1, <3>2, <3>3
  <2> QED
    BY <2>2
<1>5. PV(u) = PV(s) \cup PV(t)
  <2>1. PV(u) = UNION {Range(u[k].code.params) : k \in NM} /\ PV(s) = UNION {Range(s[k].code.params) : k \in N}
        /\ PV(t) = UNION {Range(t[k].code.params) : k \in M}
    BY <1>3 DEF PV
  <2>2. ASSUME NEW v PROVE v \in PV(u) <=> v \in PV(s) \/ v \in PV(t)
    <3>1. v \in PV(u) <=> \E k \in NM : v \in Range(u[k].code.params)
      BY <2>1
    <3>2. v \in PV(s) <=> \E k \in N : v \in Range(s[k].code.params)
      BY <2>1
    <3>3. v \in PV(t) <=> \E k \in M : v \in Range(t[k].code.params)
      BY <2>1
    <3> QED
      BY <1>2, <3>1, <3>2, <3>3
  <2> QED
    BY <2>2
<1>6. Holding(u) <=> Holding(s) \/ Holding(t)
  <2>1. Holding(u) <=> \E k \in NM : u[k].code.params # << >>
    BY <1>3 DEF Holding
  <2>2. Holding(s) <=> \E k \in N : s[k].code.params # << >>
    BY <1>3 DEF Holding
  <2>3. Holding(t) <=> \E k \in M : t[k].code.params # << >>
    BY <1>3 DEF Holding
  <2> QED
    BY <1>2, <2>1, <2>2, <2>3
<1>7. ASSUME GoodNodes(s), GoodNodes(t), NV(s) \cap NV(t) = {} PROVE GoodNodes(u)
  <2>1. (\A k \in N : GoodNode(s[k])) /\ (\A k \in M : GoodNode(t[k]))
    BY <1>3, <1>7 DEF GoodNodes
  <2>2. \A k \in NM : GoodNode(u[k])
    BY <1>2, <2>1
  <2>3. /\ \A k, l \in N : k # l => Vals(s[k].code) \cap Vals(s[l].code) = {}
        /\ \A k, l \in M : k # l => Vals(t[k].code) \cap Vals(t[l].code) = {}
    BY <1>3, <1>7 DEF GoodNodes, Apart
  <2>4. \A k \in N, l \in M : Vals(s[k].code) \cap Vals(t[l].code) = {}
    <3>1. ASSUME NEW k \in N, NEW l \in M PROVE Vals(s[k].code) \cap Vals(t[l].code) = {}
      <4>1. Vals(s[k].code) \subseteq NV(s) /\ Vals(t[l].code) \subseteq NV(t)
        BY <1>3 DEF NV
      <4> QED
        BY <1>7, <4>1
    <3> QED
      BY <3>1
  <2>5. ASSUME NEW k \in NM, NEW l \in NM, k # l PROVE Vals(u[k].code) \cap Vals(u[l].code) = {}
    <3>1. CASE k \in N /\ l \in N
      BY <1>2, <2>3, <2>5, <3>1
    <3>2. CASE k \in N /\ \E j \in M : l = n + j
      BY <1>2, <2>4, <3>2
    <3>3. CASE (\E i \in M : k = n + i) /\ l \in N
      <4>1. PICK i \in M : k = n + i
        BY <3>3
      <4>2. Vals(s[l].code) \cap Vals(t[i].code) = {}
        BY <2>4, <3>3
      <4> QED
        BY <1>2, <3>3, <4>1, <4>2
    <3>4. CASE (\E i \in M : k = n + i) /\ (\E j \in M : l = n + j)
      <4>1. PICK i \in M : k = n + i
        BY <3>4
      <4>2. PICK j \in M : l = n + j
        BY <3>4
      <4>3. i # j
        BY <2>5, <4>1, <4>2
      <4> QED
        BY <1>2, <2>3, <4>1, <4>2, <4>3
    <3> QED
      BY <1>2, <3>1, <3>2, <3>3, <3>4
  <2> QED
    BY <1>2, <1>3, <2>2, <2>5 DEF GoodNodes, Apart
<1>8. (\A x \in Range(s) \cup Range(t) : Entire(x.code)) <=> \A x \in Range(u) : Entire(x.code)
  <2>1. Range(u) = Range(s) \cup Range(t)
    <3>1. Range(s) = {s[i] : i \in N} /\ Range(t) = {t[i] : i \in M} /\ Range(u) = {u[i] : i \in NM}
      BY <1>3, <1>d DEF Range
    <3>2. /\ \A i \in N : \E l \in NM : u[l] = s[i]
          /\ \A j \in M : \E l \in NM : u[l] = t[j]
          /\ \A l \in NM : (\E i \in N : u[l] = s[i]) \/ (\E j \in M : u[l] = t[j])
      BY <1>2
    <3> HIDE DEF u
    <3>3. ASSUME NEW x PROVE x \in Range(u) <=> x \in Range(s) \/ x \in Range(t)
      <4>1. x \in Range(u) <=> \E k \in NM : u[k] = x
        BY <3>1
      <4>2. x \in Range(s) <=> \E k \in N : s[k] = x
        BY <3>1
      <4>3. x \in Range(t) <=> \E k \in M : t[k] = x
        BY <3>1
      <4> QED
        BY <3>2, <4>1, <4>2, <4>3
    <3> QED
      BY <3>3
  <2> QED
    BY <2>1
<1> QED
  BY <1>2, <1>4, <1>5, <1>6, <1>7, <1>8 DEF JoinNodes, u

LEMMA NoNodes ==
  /\ << >> \in Seq(PlanNodes) /\ NV(<< >>) = {} /\ PV(<< >>) = {} /\ ~Holding(<< >>) /\ GoodNodes(<< >>)
<1>1. Len(<< >>) = 0 /\ 1 .. 0 = {} /\ << >> \in Seq(PlanNodes)
  OBVIOUS
<1> QED
  BY <1>1 DEF NV, PV, Holding, GoodNodes, Apart

LEMMA SingleNode ==
  ASSUME NEW node, GoodNode(node)
  PROVE  /\ <<node>> \in Seq(PlanNodes) /\ NV(<<node>>) = Vals(node.code) /\ PV(<<node>>) = Range(node.code.params)
         /\ (Holding(<<node>>) <=> node.code.params # << >>) /\ GoodNodes(<<node>>)
<1>1. Len(<<node>>) = 1 /\ 1 .. 1 = {1} /\ <<node>>[1] = node /\ node \in PlanNodes
  BY DEF GoodNode
<1>2. <<node>> \in Seq(PlanNodes)
  BY <1>1
<1>3. NV(<<node>>) = Vals(node.code)
  BY <1>1 DEF NV
<1>4. PV(<<node>>) = Range(node.code.params)
  BY <1>1 DEF PV
<1>5. Holding(<<node>>) <=> node.code.params # << >>
  BY <1>1 DEF Holding
<1>6. GoodNodes(<<node>>)
  BY <1>1, <1>2 DEF GoodNodes, Apart
<1> QED
  BY <1>2, <1>3, <1>4, <1>5, <1>6

\* The text and params of a clause are its nodes', behind the params before.
ClauseHas(b, s, c) ==
  /\ c \in Codes /\ TextVals(c) \subseteq NV(s)
  /\ c.text # << >> <=> \E k \in 1 .. Len(s) : s[k].code.text # << >>
  /\ \E w \in Seq(Nat) : c.params = b \o w /\ Range(w) = PV(s)

LEMMA AddHas ==
  ASSUME NEW c \in Codes, NEW node \in PlanNodes
  PROVE  /\ \A v \in TextVals(Add(c, node)) : v \in TextVals(c) \/ v \in Vals(node.code)
         /\ Add(c, node).params = c.params \o node.code.params
<1> DEFINE x == NodeText(node, Len(c.params))
           t == node.code.text
           d == Add(c, node)
<1>1. /\ x \in Seq(Hole) /\ c.text \in Seq(Hole) /\ t \in Seq(Hole) /\ Len(t) \in Nat
      /\ \A j \in 1 .. Len(t) : t[j] \in Hole
  BY NodeTextFits, CodeFits DEF PlanNodes
<1>2. d.text = c.text \o x /\ d.params = c.params \o node.code.params
  BY DEF Add
<1>3. Len(x) = Len(t) /\ \A j \in 1 .. Len(t) : x[j].val = t[j].val
  <2>1. CASE node.kind \in {"values", "union"}
    <3> DEFINE o == Len(c.params)
               f == [j \in 1 .. Len(t) |-> [t[j] EXCEPT !.num = IF @ = 0 THEN 0 ELSE @ + o]]
    <3>1. x = f
      BY <2>1 DEF NodeText, Shifted
    <3>2. ASSUME NEW j \in 1 .. Len(t) PROVE f[j].val = t[j].val
      <4> DEFINE h == t[j]
                 w == IF h.num = 0 THEN 0 ELSE h.num + o
      <4>1. f[j] = [h EXCEPT !.num = w] /\ h \in [val : Nat, num : Nat]
        BY <1>1 DEF Hole
      <4> HIDE DEF h, w, f
      <4>2. f[j].val = h.val
        BY <4>1
      <4> QED
        BY <4>2 DEF h
    <3>3. Len(f) = Len(t)
      BY <1>1
    <3> HIDE DEF f
    <3> QED
      BY <3>1, <3>2, <3>3
  <2>2. CASE node.kind \notin {"values", "union"}
    <3>1. x = t
      BY <2>2 DEF NodeText
    <3> QED
      BY <3>1
  <2> QED
    BY <2>1, <2>2
<1> HIDE DEF x, d, t
<1>4. ConcatRight(Hole, c.text, x, d.text, Len(c.text), Len(x))
  BY <1>1, <1>2, ConcatPlaces
<1>5. ASSUME NEW v \in TextVals(d) PROVE v \in TextVals(c) \/ v \in Vals(node.code)
  <2>0. Len(d.text) = Len(c.text) + Len(x)
    BY <1>4 DEF ConcatRight
  <2>1. PICK i \in 1 .. Len(c.text) + Len(x) : v = d.text[i].val
    BY <2>0, <1>5 DEF TextVals
  <2>2. CASE i \in 1 .. Len(c.text)
    BY <1>4, <2>1, <2>2 DEF ConcatRight, TextVals
  <2>3. CASE \E j \in 1 .. Len(x) : i = Len(c.text) + j
    <3>1. PICK j \in 1 .. Len(x) : i = Len(c.text) + j
      BY <2>3
    <3>2. v = t[j].val /\ j \in 1 .. Len(t)
      BY <1>3, <1>4, <2>1, <3>1 DEF ConcatRight
    <3> QED
      BY <3>2 DEF Vals, TextVals, t
  <2> QED
    BY <1>4, <2>2, <2>3 DEF ConcatRight
<1> QED
  BY <1>2, <1>5 DEF d

LEMMA JoinAssociates ==
  ASSUME NEW S, NEW s \in Seq(S), NEW t \in Seq(S), NEW u \in Seq(S)
  PROVE  (s \o t) \o u = s \o (t \o u)
BY ConcatAssociative

LEMMA ParamsAssociate == \A p, q, r \in Seq(Nat) : (p \o q) \o r = p \o (q \o r)
<1> TAKE p, q, r \in Seq(Nat)
<1> DEFINE S == Nat
<1>1. p \in Seq(S) /\ q \in Seq(S) /\ r \in Seq(S)
  OBVIOUS
<1> HIDE DEF S
<1> QED
  BY <1>1, ConcatAssociative

LEMMA TextsAssociate == \A p, q, r \in Seq(Hole) : (p \o q) \o r = p \o (q \o r)
<1> TAKE p, q, r \in Seq(Hole)
<1> DEFINE S == Hole
<1>1. p \in Seq(S) /\ q \in Seq(S) /\ r \in Seq(S)
  OBVIOUS
<1> HIDE DEF S
<1> QED
  BY <1>1, ConcatAssociative

LEMMA RangeJoin ==
  ASSUME NEW S, NEW s \in Seq(S), NEW t \in Seq(S)
  PROVE  (s \o t) \in Seq(S) /\ Range(s \o t) = Range(s) \cup Range(t)
<1> DEFINE u == s \o t
           n == Len(s)
           m == Len(t)
           N == 1 .. n
           M == 1 .. m
           NM == 1 .. n + m
<1>1. ConcatRight(S, s, t, u, n, m)
  BY ConcatPlaces
<1>d. DOMAIN s = N /\ DOMAIN t = M /\ DOMAIN u = 1 .. Len(u)
  BY <1>1 DEF ConcatRight
<1> HIDE DEF u, n, m
<1>2. /\ \A i \in N : i \in NM /\ u[i] = s[i]
      /\ \A j \in M : n + j \in NM /\ u[n + j] = t[j]
      /\ \A i \in NM : i \in N \/ \E j \in M : i = n + j
  BY <1>1 DEF ConcatRight
<1>3. u \in Seq(S) /\ DOMAIN u = NM
  BY <1>1, <1>d DEF ConcatRight
<1> HIDE DEF N, M, NM
<1>4. ASSUME NEW v PROVE v \in Range(u) <=> v \in Range(s) \/ v \in Range(t)
  <2>1. v \in Range(u) <=> \E i \in NM : u[i] = v
    BY <1>3 DEF Range
  <2>2. v \in Range(s) <=> \E i \in N : s[i] = v
    BY <1>d DEF Range
  <2>3. v \in Range(t) <=> \E i \in M : t[i] = v
    BY <1>d DEF Range
  <2> QED
    BY <1>2, <2>1, <2>2, <2>3
<1>5. Range(u) = Range(s) \cup Range(t)
  BY <1>4
<1> QED
  BY <1>3, <1>5 DEF u

\* What the first n nodes add to the params b.
HasUpTo(b, s, n, c) ==
  /\ c \in Codes
  /\ \A v \in TextVals(c) : \E k \in 1 .. n : v \in Vals(s[k].code)
  /\ c.text # << >> <=> \E k \in 1 .. n : s[k].code.text # << >>
  /\ \E w \in Seq(Nat) : c.params = b \o w /\ \A v : v \in Range(w) <=> \E k \in 1 .. n : v \in Range(s[k].code.params)

LEMMA AddTextEmpty ==
  ASSUME NEW c \in Codes, NEW node \in PlanNodes
  PROVE  Add(c, node).text # << >> <=> c.text # << >> \/ node.code.text # << >>
<1> DEFINE x == NodeText(node, Len(c.params))
           t == node.code.text
<1>1. /\ x \in Seq(Hole) /\ c.text \in Seq(Hole) /\ t \in Seq(Hole)
  BY NodeTextFits, CodeFits DEF PlanNodes
<1>2. Add(c, node).text = c.text \o x
  BY DEF Add
<1>3. Len(x) = Len(t)
  <2>1. CASE node.kind \in {"values", "union"}
    <3> DEFINE o == Len(c.params)
               f == [j \in 1 .. Len(t) |-> [t[j] EXCEPT !.num = IF @ = 0 THEN 0 ELSE @ + o]]
    <3>1. x = f
      BY <2>1 DEF NodeText, Shifted
    <3>3. Len(f) = Len(t)
      BY <1>1
    <3> HIDE DEF f
    <3> QED
      BY <3>1, <3>3
  <2>2. CASE node.kind \notin {"values", "union"}
    <3>1. x = t
      BY <2>2 DEF NodeText
    <3> QED
      BY <3>1
  <2> QED
    BY <2>1, <2>2
<1> DEFINE a == c.text
<1>4. a \in Seq(Hole)
  BY <1>1
<1> HIDE DEF x, t, a
<1>5. (a \o x) # << >> <=> a # << >> \/ t # << >>
  <2>1. Len(a \o x) = Len(a) + Len(x) /\ (a \o x) \in Seq(Hole)
    BY <1>1, <1>4
  <2>2. (a # << >> <=> Len(a) # 0) /\ (t # << >> <=> Len(t) # 0)
    BY <1>1, <1>4
  <2> DEFINE y == a \o x
  <2>3. y \in Seq(Hole) /\ Len(y) = Len(a) + Len(x)
    BY <2>1
  <2> HIDE DEF y
  <2>4. y # << >> <=> Len(y) # 0
    BY <2>3
  <2>5. Len(a) \in Nat /\ Len(x) \in Nat
    BY <1>1, <1>4
  <2>6. y # << >> <=> a # << >> \/ t # << >>
    BY <1>3, <2>2, <2>3, <2>4, <2>5
  <2> QED
    BY <2>6 DEF y
<1> QED
  BY <1>2, <1>5 DEF a, t

LEMMA HasStep ==
  ASSUME NEW b \in Seq(Nat), NEW s \in Seq(PlanNodes), NEW n \in 1 .. Len(s), NEW c, HasUpTo(b, s, n - 1, c)
  PROVE  HasUpTo(b, s, n, Add(c, s[n]))
<1> DEFINE d == Add(c, s[n])
<1>1. c \in Codes /\ s[n] \in PlanNodes /\ n \in Nat /\ n # 0
  BY DEF HasUpTo
<1>2. \A k : k \in 1 .. n <=> k \in 1 .. n - 1 \/ k = n
  BY <1>1
<1>3. d \in Codes
  BY <1>1, AddFits
<1>4. \A v \in TextVals(d) : v \in TextVals(c) \/ v \in Vals(s[n].code)
  BY <1>1, AddHas
<1>5. d.params = c.params \o s[n].code.params
  BY <1>1, AddHas
<1>6. d.text # << >> <=> c.text # << >> \/ s[n].code.text # << >>
  BY <1>1, AddTextEmpty
<1> HIDE DEF d
<1>7. \A v \in TextVals(d) : \E k \in 1 .. n : v \in Vals(s[k].code)
  BY <1>2, <1>4 DEF HasUpTo
<1>8. d.text # << >> <=> \E k \in 1 .. n : s[k].code.text # << >>
  BY <1>2, <1>6 DEF HasUpTo
<1>9. PICK w \in Seq(Nat) : c.params = b \o w /\ \A v : v \in Range(w) <=> \E k \in 1 .. n - 1 : v \in Range(s[k].code.params)
  BY DEF HasUpTo
<1> DEFINE y == s[n].code.params
           x == w \o y
<1>10. y \in Seq(Nat)
  BY <1>1, CodeFits DEF PlanNodes
<1>11. x \in Seq(Nat) /\ \A v : v \in Range(x) <=> v \in Range(w) \/ v \in Range(y)
  <2> HIDE DEF y
  <2>1. (w \o y) \in Seq(Nat) /\ Range(w \o y) = Range(w) \cup Range(y)
    BY <1>10, RangeJoin
  <2> QED
    BY <2>1
<1>12. d.params = b \o x
  <2> HIDE DEF y
  <2>0. w \in Seq(Nat) /\ y \in Seq(Nat)
    BY <1>10
  <2>1. (b \o w) \o y = b \o (w \o y)
    <3> QED
      BY <2>0, ParamsAssociate, Zenon
  <2>2. d.params = (b \o w) \o y
    BY <1>5, <1>9 DEF y
  <2> QED
    BY <2>1, <2>2
<1>13. \A v : v \in Range(x) <=> \E k \in 1 .. n : v \in Range(s[k].code.params)
  <2>1. \A v : v \in Range(x) <=> (\E k \in 1 .. n - 1 : v \in Range(s[k].code.params)) \/ v \in Range(s[n].code.params)
    BY <1>9, <1>11 DEF y
  <2> HIDE DEF x
  <2> QED
    BY <1>2, <2>1
<1> HIDE DEF x
<1>14. \E z \in Seq(Nat) : d.params = b \o z /\ \A v : v \in Range(z) <=> \E k \in 1 .. n : v \in Range(s[k].code.params)
  BY <1>11, <1>12, <1>13
<1> QED
  BY <1>3, <1>7, <1>8, <1>14 DEF HasUpTo, d

LEMMA ClauseHasRight ==
  ASSUME NEW b \in Seq(Nat), NEW s \in Seq(PlanNodes)
  PROVE  ClauseHas(b, s, Clause(b, s))
<1>1. Len(s) \in Nat
  OBVIOUS
<1>2. PICK g : StepsOf(g, b, s)
  BY <1>1, ClauseSteps
<1> DEFINE S == {n \in 0 .. Len(s) : HasUpTo(b, s, n, g[n])}
<1>3. 0 \in S
  <2>1. [text |-> << >>, params |-> b] \in Codes /\ g[0] = [text |-> << >>, params |-> b]
    BY <1>2 DEF Codes, StepsOf
  <2>2. b = b \o << >> /\ << >> \in Seq(Nat) /\ \A v : v \notin Range(<< >>)
    BY ConcatEmptySeq DEF Range
  <2>3. g[0].text = << >> /\ g[0].params = b /\ TextVals(g[0]) = {} /\ 1 .. 0 = {} /\ 0 \in 0 .. Len(s)
    BY <1>1, <2>1 DEF TextVals
  <2>4. HasUpTo(b, s, 0, g[0])
    BY <2>1, <2>2, <2>3 DEF HasUpTo
  <2> QED
    BY <2>3, <2>4
<1>4. ASSUME NEW n \in 1 .. Len(s), n - 1 \in S PROVE n \in S
  <2>1. g[n] = Add(g[n - 1], s[n])
    BY <1>2 DEF StepsOf
  <2>2. HasUpTo(b, s, n, g[n])
    BY <1>4, <2>1, HasStep
  <2> QED
    BY <1>1, <2>2
<1>5. \A n \in 0 .. Len(s) : n \in S
  <2> HIDE DEF S
  <2> QED
    BY <1>1, <1>3, <1>4, Induct
<1>6. HasUpTo(b, s, Len(s), Clause(b, s))
  <2>1. Len(s) \in S /\ g[Len(s)] = Clause(b, s)
    BY <1>1, <1>2, <1>5 DEF StepsOf
  <2> QED
    BY <2>1
<1> DEFINE c == Clause(b, s)
<1> HIDE DEF c
<1>7. HasUpTo(b, s, Len(s), c)
  BY <1>6 DEF c
<1>8. TextVals(c) \subseteq NV(s)
  BY <1>7 DEF HasUpTo, NV
<1>9. \E w \in Seq(Nat) : c.params = b \o w /\ Range(w) = PV(s)
  <2>1. PICK w \in Seq(Nat) : c.params = b \o w /\ \A v : v \in Range(w) <=> \E k \in 1 .. Len(s) : v \in Range(s[k].code.params)
    BY <1>7 DEF HasUpTo
  <2>2. \A v : v \in PV(s) <=> \E k \in 1 .. Len(s) : v \in Range(s[k].code.params)
    BY DEF PV
  <2>3. Range(w) = PV(s)
    BY <2>1, <2>2
  <2> QED
    BY <2>1, <2>3
<1> QED
  BY <1>7, <1>8, <1>9 DEF HasUpTo, ClauseHas, c

\* A clause of one node, and of none.
LEMMA OneNode ==
  ASSUME NEW b, NEW node
  PROVE  Clause(b, <<node>>) = [text |-> << >> \o NodeText(node, Len(b)), params |-> b \o node.code.params]
<1>1. Len(<<node>>) = 1 /\ 1 \in Nat
  OBVIOUS
<1>2. PICK g : StepsOf(g, b, <<node>>)
  BY <1>1, ClauseSteps
<1>3. g[0] = [text |-> << >>, params |-> b] /\ g[1] = Clause(b, <<node>>) /\ g[1] = Add(g[1 - 1], <<node>>[1])
  BY <1>1, <1>2 DEF StepsOf
<1>4. g[1] = Add([text |-> << >>, params |-> b], node)
  BY <1>3
<1> QED
  BY <1>3, <1>4 DEF Add

LEMMA NoNode ==
  ASSUME NEW b
  PROVE  Clause(b, << >>) = [text |-> << >>, params |-> b]
<1>1. Len(<< >>) = 0 /\ 0 \in Nat
  OBVIOUS
<1>2. PICK g : StepsOf(g, b, << >>)
  BY <1>1, ClauseSteps
<1> QED
  BY <1>1, <1>2 DEF StepsOf

-----------------------------------------------------------------------------
\* What the clauses of a plan hold: nodes that are good, of values of their own.
ClauseNames == {"jsonOps", "fromSubquery", "fts", "filters", "rawFilters", "having", "unions", "with"}
Inserted(node) == node.kind = "values" /\ node.code.params # << >>
PlanFits(p) ==
  /\ DOMAIN p = ClauseNames \cup {"fts5", "deny"} /\ {p.fts5, p.deny} \subseteq BOOLEAN
  /\ \A a \in ClauseNames : GoodNodes(p[a])
  /\ \A a, b \in ClauseNames : a # b => NV(p[a]) \cap NV(p[b]) = {}
  /\ \A k \in 1 .. Len(p.jsonOps) : Inserted(p.jsonOps[k])
  /\ p.fts = << >> \/ \E node : p.fts = <<node>> /\ Inserted(node)
  /\ p.with = << >> \/ \E node : p.with = <<node>> /\ node.kind = "plan"

JsonOf(p) == Clause(<< >>, p.jsonOps)
FromOf(p) == Clause(JsonOf(p).params, p.fromSubquery)
FtsOf(p) == Clause(FromOf(p).params, p.fts)
WhereNodes(p) == p.filters \o p.rawFilters
WhereOf(p) == Clause(FtsOf(p).params, WhereNodes(p))
HavingOf(p) == Clause(WhereOf(p).params, p.having)
UnionsOf(p) == Clause(HavingOf(p).params, p.unions)
WithOf(p) == Clause(UnionsOf(p).params, p.with)

SelectIs(p) ==
  CompileSelect(p) =
    IF p.deny THEN [text |-> JsonOf(p).text, params |-> << >>]
    ELSE [text |-> WithOf(p).text \o JsonOf(p).text \o (IF p.fts5 THEN << >> ELSE FromOf(p).text)
                     \o WhereOf(p).text \o FtsOf(p).text \o HavingOf(p).text \o UnionsOf(p).text,
          params |-> WithOf(p).params]
LEMMA SelectMeans == ASSUME NEW p PROVE SelectIs(p)
BY DEF SelectIs, CompileSelect, JsonOf, FromOf, FtsOf, WhereNodes, WhereOf, HavingOf, UnionsOf, WithOf

\* What the clauses are, one by one.
ClausesRight(p) ==
  /\ ClauseHas(<< >>, p.jsonOps, JsonOf(p)) /\ ClauseHas(JsonOf(p).params, p.fromSubquery, FromOf(p))
  /\ ClauseHas(FromOf(p).params, p.fts, FtsOf(p)) /\ ClauseHas(FtsOf(p).params, WhereNodes(p), WhereOf(p))
  /\ ClauseHas(WhereOf(p).params, p.having, HavingOf(p)) /\ ClauseHas(HavingOf(p).params, p.unions, UnionsOf(p))
  /\ ClauseHas(UnionsOf(p).params, p.with, WithOf(p))

PlanClausesFit(p) ==
  /\ p.jsonOps \in Seq(PlanNodes) /\ p.fromSubquery \in Seq(PlanNodes) /\ p.fts \in Seq(PlanNodes)
  /\ p.filters \in Seq(PlanNodes) /\ p.rawFilters \in Seq(PlanNodes) /\ WhereNodes(p) \in Seq(PlanNodes)
  /\ p.having \in Seq(PlanNodes) /\ p.unions \in Seq(PlanNodes) /\ p.with \in Seq(PlanNodes)

LEMMA ClausesOf ==
  ASSUME NEW p, PlanFits(p)
  PROVE  PlanClausesFit(p) /\ ClausesRight(p)
<1>1. \A a \in ClauseNames : p[a] \in Seq(PlanNodes)
  BY DEF PlanFits, GoodNodes
<1>2. /\ p.jsonOps \in Seq(PlanNodes) /\ p.fromSubquery \in Seq(PlanNodes) /\ p.fts \in Seq(PlanNodes)
      /\ p.filters \in Seq(PlanNodes) /\ p.rawFilters \in Seq(PlanNodes)
      /\ p.having \in Seq(PlanNodes) /\ p.unions \in Seq(PlanNodes) /\ p.with \in Seq(PlanNodes)
  BY <1>1 DEF ClauseNames
<1>3. WhereNodes(p) \in Seq(PlanNodes)
  BY <1>2, RangeJoin DEF WhereNodes
<1>4. ASSUME NEW b \in Seq(Nat), NEW s \in Seq(PlanNodes)
      PROVE  ClauseHas(b, s, Clause(b, s)) /\ Clause(b, s).params \in Seq(Nat)
  <2>1. ClauseHas(b, s, Clause(b, s))
    BY ClauseHasRight
  <2>2. Clause(b, s) \in Codes
    BY <2>1 DEF ClauseHas
  <2> QED
    BY <2>1, <2>2, CodeFits
<1>5. << >> \in Seq(Nat)
  OBVIOUS
<1>6. ClauseHas(<< >>, p.jsonOps, JsonOf(p)) /\ JsonOf(p).params \in Seq(Nat)
  BY <1>2, <1>4, <1>5 DEF JsonOf
<1>7. ClauseHas(JsonOf(p).params, p.fromSubquery, FromOf(p)) /\ FromOf(p).params \in Seq(Nat)
  BY <1>2, <1>4, <1>6 DEF FromOf
<1>8. ClauseHas(FromOf(p).params, p.fts, FtsOf(p)) /\ FtsOf(p).params \in Seq(Nat)
  BY <1>2, <1>4, <1>7 DEF FtsOf
<1>9. ClauseHas(FtsOf(p).params, WhereNodes(p), WhereOf(p)) /\ WhereOf(p).params \in Seq(Nat)
  BY <1>3, <1>4, <1>8 DEF WhereOf
<1>10. ClauseHas(WhereOf(p).params, p.having, HavingOf(p)) /\ HavingOf(p).params \in Seq(Nat)
  BY <1>2, <1>4, <1>9 DEF HavingOf
<1>11. ClauseHas(HavingOf(p).params, p.unions, UnionsOf(p)) /\ UnionsOf(p).params \in Seq(Nat)
  BY <1>2, <1>4, <1>10 DEF UnionsOf
<1>12. ClauseHas(UnionsOf(p).params, p.with, WithOf(p))
  BY <1>2, <1>4, <1>11 DEF WithOf
<1> QED
  BY <1>2, <1>3, <1>6, <1>7, <1>8, <1>9, <1>10, <1>11, <1>12 DEF PlanClausesFit, ClausesRight

\* All of a plan's nodes as one clause.
FirstTwo(p) == p.jsonOps \o p.fromSubquery
FirstThree(p) == FirstTwo(p) \o p.fts
WithoutWith(p) == FirstThree(p) \o WhereNodes(p) \o p.having \o p.unions
AllIs(p) ==
  /\ SelectNodes(p) = WithoutWith(p) \o p.with
  /\ SelectNodes(p) \in Seq(PlanNodes)
  /\ Clause(<< >>, SelectNodes(p)) =
       [text |-> JsonOf(p).text \o FromOf(p).text \o FtsOf(p).text \o WhereOf(p).text
                   \o HavingOf(p).text \o UnionsOf(p).text \o WithOf(p).text,
        params |-> WithOf(p).params]
  /\ Clause(<< >>, FirstTwo(p)) = [text |-> JsonOf(p).text \o FromOf(p).text, params |-> FromOf(p).params]
  /\ Clause(<< >>, WithoutWith(p)) =
       [text |-> JsonOf(p).text \o FromOf(p).text \o FtsOf(p).text \o WhereOf(p).text \o HavingOf(p).text \o UnionsOf(p).text,
        params |-> UnionsOf(p).params]

LEMMA CodeParts == \A c, x, y : c = [text |-> x, params |-> y] => c.text = x /\ c.params = y
OBVIOUS

LEMMA AllMeans ==
  ASSUME NEW p, PlanFits(p)
  PROVE  AllIs(p)
<1> DEFINE Q == Seq(PlanNodes)
<1>1. PlanClausesFit(p)
  BY ClausesOf
<1>2. \A s, t \in Q : (s \o t) \in Q
  BY RangeJoin
<1>3. \A s, t, u \in Q : (s \o t) \o u = s \o (t \o u)
  BY JoinAssociates, Z3
<1>4. << >> \in Seq(Nat)
  OBVIOUS
<1>5. \A s, t \in Q : SplitRight(<< >>, s, t)
  BY <1>4, ClauseSplit
<1>6. /\ p.jsonOps \in Q /\ p.fromSubquery \in Q /\ p.fts \in Q /\ p.filters \in Q /\ p.rawFilters \in Q
      /\ WhereNodes(p) \in Q /\ p.having \in Q /\ p.unions \in Q /\ p.with \in Q
  BY <1>1 DEF PlanClausesFit
<1> HIDE DEF Q
<1>7. FirstTwo(p) \in Q /\ FirstThree(p) \in Q
  BY <1>2, <1>6 DEF FirstTwo, FirstThree
<1> DEFINE four == FirstThree(p) \o WhereNodes(p)
           five == four \o p.having
           six == five \o p.unions
           all == six \o p.with
<1>8. four \in Q /\ five \in Q /\ six \in Q /\ all \in Q
  BY <1>2, <1>6, <1>7
<1>9. four = (FirstThree(p) \o p.filters) \o p.rawFilters
  <2> DEFINE f == p.filters
             r == p.rawFilters
             h == FirstThree(p)
  <2>1. f \in Q /\ r \in Q /\ h \in Q
    BY <1>6, <1>7
  <2> HIDE DEF f, r, h
  <2>2. (h \o f) \o r = h \o (f \o r)
    BY <1>3, <2>1
  <2> QED
    BY <2>2 DEF f, r, h, WhereNodes
<1>10. SelectNodes(p) = all
  BY <1>9 DEF SelectNodes, FirstThree, FirstTwo
<1>11. Clause(<< >>, FirstTwo(p)) = [text |-> JsonOf(p).text \o FromOf(p).text, params |-> FromOf(p).params]
  <2>1. SplitRight(<< >>, p.jsonOps, p.fromSubquery)
    BY <1>5, <1>6
  <2>2. Clause(<< >>, p.jsonOps \o p.fromSubquery) =
          [text |-> JsonOf(p).text \o Clause(JsonOf(p).params, p.fromSubquery).text,
           params |-> Clause(JsonOf(p).params, p.fromSubquery).params]
    BY <2>1 DEF SplitRight, JsonOf
  <2> QED
    BY <2>2 DEF FirstTwo, FromOf
<1>12. Clause(<< >>, FirstThree(p)) = [text |-> JsonOf(p).text \o FromOf(p).text \o FtsOf(p).text, params |-> FtsOf(p).params]
  <2>1. SplitRight(<< >>, FirstTwo(p), p.fts)
    BY <1>5, <1>6, <1>7
  <2>2. Clause(<< >>, FirstTwo(p) \o p.fts) =
          [text |-> Clause(<< >>, FirstTwo(p)).text \o Clause(Clause(<< >>, FirstTwo(p)).params, p.fts).text,
           params |-> Clause(Clause(<< >>, FirstTwo(p)).params, p.fts).params]
    BY <2>1 DEF SplitRight
  <2>3. /\ Clause(<< >>, FirstTwo(p)).text = JsonOf(p).text \o FromOf(p).text
        /\ Clause(<< >>, FirstTwo(p)).params = FromOf(p).params
    BY <1>11, CodeParts, Zenon
  <2> QED
    BY <2>2, <2>3 DEF FirstThree, FtsOf
<1>13. Clause(<< >>, four) =
         [text |-> JsonOf(p).text \o FromOf(p).text \o FtsOf(p).text \o WhereOf(p).text, params |-> WhereOf(p).params]
  <2>1. SplitRight(<< >>, FirstThree(p), WhereNodes(p))
    BY <1>5, <1>6, <1>7
  <2>2. Clause(<< >>, FirstThree(p) \o WhereNodes(p)) =
          [text |-> Clause(<< >>, FirstThree(p)).text \o Clause(Clause(<< >>, FirstThree(p)).params, WhereNodes(p)).text,
           params |-> Clause(Clause(<< >>, FirstThree(p)).params, WhereNodes(p)).params]
    BY <2>1 DEF SplitRight
  <2>3. /\ Clause(<< >>, FirstThree(p)).text = JsonOf(p).text \o FromOf(p).text \o FtsOf(p).text
        /\ Clause(<< >>, FirstThree(p)).params = FtsOf(p).params
    BY <1>12, CodeParts, Zenon
  <2> QED
    BY <2>2, <2>3 DEF WhereOf
<1> HIDE DEF four
<1>14. Clause(<< >>, five) =
         [text |-> JsonOf(p).text \o FromOf(p).text \o FtsOf(p).text \o WhereOf(p).text \o HavingOf(p).text,
          params |-> HavingOf(p).params]
  <2>1. SplitRight(<< >>, four, p.having)
    BY <1>5, <1>6, <1>8
  <2>2. Clause(<< >>, four \o p.having) =
          [text |-> Clause(<< >>, four).text \o Clause(Clause(<< >>, four).params, p.having).text,
           params |-> Clause(Clause(<< >>, four).params, p.having).params]
    BY <2>1 DEF SplitRight
  <2>3. /\ Clause(<< >>, four).text = JsonOf(p).text \o FromOf(p).text \o FtsOf(p).text \o WhereOf(p).text
        /\ Clause(<< >>, four).params = WhereOf(p).params
    BY <1>13, CodeParts, Zenon
  <2> QED
    BY <2>2, <2>3 DEF HavingOf
<1> HIDE DEF five
<1>15. Clause(<< >>, six) =
         [text |-> JsonOf(p).text \o FromOf(p).text \o FtsOf(p).text \o WhereOf(p).text \o HavingOf(p).text \o UnionsOf(p).text,
          params |-> UnionsOf(p).params]
  <2>1. SplitRight(<< >>, five, p.unions)
    BY <1>5, <1>6, <1>8
  <2>2. Clause(<< >>, five \o p.unions) =
          [text |-> Clause(<< >>, five).text \o Clause(Clause(<< >>, five).params, p.unions).text,
           params |-> Clause(Clause(<< >>, five).params, p.unions).params]
    BY <2>1 DEF SplitRight
  <2>3. /\ Clause(<< >>, five).text = JsonOf(p).text \o FromOf(p).text \o FtsOf(p).text \o WhereOf(p).text \o HavingOf(p).text
        /\ Clause(<< >>, five).params = HavingOf(p).params
    BY <1>14, CodeParts, Zenon
  <2> QED
    BY <2>2, <2>3 DEF UnionsOf
<1> HIDE DEF six
<1>16. Clause(<< >>, all) =
         [text |-> JsonOf(p).text \o FromOf(p).text \o FtsOf(p).text \o WhereOf(p).text \o HavingOf(p).text
                     \o UnionsOf(p).text \o WithOf(p).text,
          params |-> WithOf(p).params]
  <2>1. SplitRight(<< >>, six, p.with)
    BY <1>5, <1>6, <1>8
  <2>2. Clause(<< >>, six \o p.with) =
          [text |-> Clause(<< >>, six).text \o Clause(Clause(<< >>, six).params, p.with).text,
           params |-> Clause(Clause(<< >>, six).params, p.with).params]
    BY <2>1 DEF SplitRight
  <2>3. /\ Clause(<< >>, six).text = JsonOf(p).text \o FromOf(p).text \o FtsOf(p).text \o WhereOf(p).text \o HavingOf(p).text \o UnionsOf(p).text
        /\ Clause(<< >>, six).params = UnionsOf(p).params
    BY <1>15, CodeParts, Zenon
  <2> QED
    BY <2>2, <2>3 DEF WithOf
<1>17. six = WithoutWith(p)
  BY DEF WithoutWith, four, five, six
<1>18. all \in Seq(PlanNodes)
  BY <1>8 DEF Q
<1> QED
  BY <1>10, <1>11, <1>15, <1>16, <1>17, <1>18 DEF AllIs

\* The nodes of some clauses of a plan, one clause after the other.
EntireNodes(u) == \A x \in Range(u) : Entire(x.code)
Gathers(p, u, A) ==
  /\ GoodNodes(u) /\ A \subseteq ClauseNames
  /\ \A v : v \in NV(u) <=> \E a \in A : v \in NV(p[a])
  /\ \A v : v \in PV(u) <=> \E a \in A : v \in PV(p[a])
  /\ Holding(u) <=> \E a \in A : Holding(p[a])
  /\ EntireNodes(u) <=> \A a \in A : EntireNodes(p[a])

LEMMA GathersOne ==
  ASSUME NEW p, PlanFits(p)
  PROVE  \A a \in ClauseNames : Gathers(p, p[a], {a})
<1> TAKE a \in ClauseNames
<1>1. GoodNodes(p[a])
  BY DEF PlanFits
<1> QED
  BY <1>1 DEF Gathers

LEMMA GathersJoin ==
  ASSUME NEW p, PlanFits(p), NEW s, NEW t, NEW A, NEW B, Gathers(p, s, A), Gathers(p, t, B), A \cap B = {}
  PROVE  Gathers(p, s \o t, A \cup B)
<1> DEFINE u == s \o t
<1>1. s \in Seq(PlanNodes) /\ t \in Seq(PlanNodes) /\ GoodNodes(s) /\ GoodNodes(t)
  BY DEF Gathers, GoodNodes
<1>2. JoinNodes(s, t, u)
  BY <1>1, NodesJoin
<1> HIDE DEF u
<1>3. NV(s) \cap NV(t) = {}
  <2>1. ASSUME NEW v, v \in NV(s), v \in NV(t) PROVE FALSE
    <3>1. PICK a \in A : v \in NV(p[a])
      BY <2>1 DEF Gathers
    <3>2. PICK b \in B : v \in NV(p[b])
      BY <2>1 DEF Gathers
    <3>3. a # b /\ a \in ClauseNames /\ b \in ClauseNames
      BY <3>1, <3>2 DEF Gathers
    <3> QED
      BY <3>1, <3>2, <3>3 DEF PlanFits
  <2> QED
    BY <2>1
<1>4. GoodNodes(u)
  BY <1>1, <1>2, <1>3 DEF JoinNodes
<1>5. \A v : v \in NV(u) <=> \E a \in A \cup B : v \in NV(p[a])
  <2>1. NV(u) = NV(s) \cup NV(t)
    BY <1>2 DEF JoinNodes
  <2> QED
    BY <2>1 DEF Gathers
<1>6. \A v : v \in PV(u) <=> \E a \in A \cup B : v \in PV(p[a])
  <2>1. PV(u) = PV(s) \cup PV(t)
    BY <1>2 DEF JoinNodes
  <2> QED
    BY <2>1 DEF Gathers
<1>7. Holding(u) <=> \E a \in A \cup B : Holding(p[a])
  <2>1. Holding(u) <=> Holding(s) \/ Holding(t)
    BY <1>2 DEF JoinNodes
  <2> QED
    BY <2>1 DEF Gathers
<1>8. EntireNodes(u) <=> \A a \in A \cup B : EntireNodes(p[a])
  <2>1. EntireNodes(u) <=> EntireNodes(s) /\ EntireNodes(t)
    BY <1>2 DEF JoinNodes, EntireNodes
  <2> QED
    BY <2>1 DEF Gathers
<1> QED
  BY <1>4, <1>5, <1>6, <1>7, <1>8 DEF Gathers, u

AllGather(p) ==
  /\ Gathers(p, FirstTwo(p), {"jsonOps", "fromSubquery"})
  /\ Gathers(p, WhereNodes(p), {"filters", "rawFilters"})
  /\ Gathers(p, WithoutWith(p), ClauseNames \ {"with"})
  /\ Gathers(p, SelectNodes(p), ClauseNames)

LEMMA SelectGathers ==
  ASSUME NEW p, PlanFits(p)
  PROVE  AllGather(p)
<1>1. /\ Gathers(p, p.jsonOps, {"jsonOps"}) /\ Gathers(p, p.fromSubquery, {"fromSubquery"}) /\ Gathers(p, p.fts, {"fts"})
      /\ Gathers(p, p.filters, {"filters"}) /\ Gathers(p, p.rawFilters, {"rawFilters"})
      /\ Gathers(p, p.having, {"having"}) /\ Gathers(p, p.unions, {"unions"}) /\ Gathers(p, p.with, {"with"})
  <2>1. /\ Gathers(p, p["jsonOps"], {"jsonOps"}) /\ Gathers(p, p["fromSubquery"], {"fromSubquery"}) /\ Gathers(p, p["fts"], {"fts"})
        /\ Gathers(p, p["filters"], {"filters"}) /\ Gathers(p, p["rawFilters"], {"rawFilters"})
        /\ Gathers(p, p["having"], {"having"}) /\ Gathers(p, p["unions"], {"unions"}) /\ Gathers(p, p["with"], {"with"})
    BY GathersOne, Zenon DEF ClauseNames
  <2> QED
    BY <2>1
<1> DEFINE A2 == {"jsonOps", "fromSubquery"}
           AW == {"filters", "rawFilters"}
           A3 == A2 \cup {"fts"}
           A4 == A3 \cup AW
           A5 == A4 \cup {"having"}
           A6 == A5 \cup {"unions"}
           A7 == A6 \cup {"with"}
<1>2. Gathers(p, FirstTwo(p), {"jsonOps"} \cup {"fromSubquery"}) /\ Gathers(p, WhereNodes(p), {"filters"} \cup {"rawFilters"})
  BY <1>1, GathersJoin DEF FirstTwo, WhereNodes
<1>3. Gathers(p, FirstTwo(p), A2) /\ Gathers(p, WhereNodes(p), AW)
  <2>1. {"jsonOps"} \cup {"fromSubquery"} = A2 /\ {"filters"} \cup {"rawFilters"} = AW
    OBVIOUS
  <2> HIDE DEF A2, AW
  <2> QED
    BY <1>2, <2>1
<1>d. /\ A2 \cap {"fts"} = {} /\ A3 \cap AW = {} /\ A4 \cap {"having"} = {} /\ A5 \cap {"unions"} = {}
      /\ A6 \cap {"with"} = {} /\ A7 = ClauseNames /\ A6 = ClauseNames \ {"with"}
  BY DEF ClauseNames
<1> HIDE DEF A2, AW, A3, A4, A5, A6, A7
<1>4. Gathers(p, FirstThree(p), A3)
  BY <1>1, <1>3, <1>d, GathersJoin DEF FirstThree, A3
<1> DEFINE four == FirstThree(p) \o WhereNodes(p)
           five == four \o p.having
           six == five \o p.unions
<1>5. Gathers(p, four, A4)
  BY <1>3, <1>4, <1>d, GathersJoin DEF A4
<1> HIDE DEF four
<1>6. Gathers(p, five, A5)
  BY <1>1, <1>5, <1>d, GathersJoin DEF A5
<1> HIDE DEF five
<1>7. Gathers(p, six, A6)
  BY <1>1, <1>6, <1>d, GathersJoin DEF A6
<1>8. six = WithoutWith(p)
  BY DEF WithoutWith, four, five, six
<1> HIDE DEF six
<1>9. Gathers(p, six \o p.with, A7)
  BY <1>1, <1>7, <1>d, GathersJoin DEF A7
<1>10. SelectNodes(p) = six \o p.with
  BY <1>8, AllMeans DEF AllIs
<1> QED
  BY <1>3, <1>7, <1>8, <1>9, <1>10, <1>d DEF AllGather, A2, AW

-----------------------------------------------------------------------------
\* The texts of the clauses in the order of the statement.
TextsOf(j, f, s, w, h, u, x) == j \o f \o s \o w \o h \o u \o x
PutTogether(j, f, s, w, h, u, x) == x \o j \o f \o w \o s \o h \o u
SameText(a, b) == Range(a) = Range(b) /\ Len(a) = Len(b) /\ a \in Seq(Hole) /\ b \in Seq(Hole)
Unmarked(s) == AllZeros(s) = 0 /\ \A z, y : Ties(s, z) = Ties(s, y)

LEMMA TextsRange ==
  ASSUME NEW j \in Seq(Hole), NEW f \in Seq(Hole), NEW s \in Seq(Hole), NEW w \in Seq(Hole),
         NEW h \in Seq(Hole), NEW u \in Seq(Hole), NEW x \in Seq(Hole)
  PROVE  /\ SameText(TextsOf(j, f, s, w, h, u, x), PutTogether(j, f, s, w, h, u, x))
         /\ SameText(TextsOf(j, f, s, w, h, u, x), PutTogether(j, << >>, s, w, h, u, x) \o f)
<1> DEFINE H == Seq(Hole)
           a(p, q) == p \o q
           r(p) == Range(p)
           l(p) == Len(p)
<1>1. \A p, q \in H : a(p, q) \in H /\ r(a(p, q)) = r(p) \cup r(q) /\ l(a(p, q)) = l(p) + l(q)
  <2>1. \A p, q \in Seq(Hole) : (p \o q) \in Seq(Hole) /\ Range(p \o q) = Range(p) \cup Range(q) /\ Len(p \o q) = Len(p) + Len(q)
    <3> TAKE p, q \in Seq(Hole)
    <3>1. Joins(p, q, p \o q)
      BY TextJoins
    <3> QED
      BY <3>1 DEF Joins
  <2> QED
    BY <2>1
<1>2. \A p \in H : l(p) \in Nat
  OBVIOUS
<1>3. j \in H /\ f \in H /\ s \in H /\ w \in H /\ h \in H /\ u \in H /\ x \in H /\ << >> \in H /\ r(<< >>) = {} /\ l(<< >>) = 0
  BY NoTies
<1> DEFINE e == << >>
<1>4. e \in H /\ r(e) = {} /\ l(e) = 0
  BY <1>3
<1> DEFINE all == a(a(a(a(a(a(j, f), s), w), h), u), x)
           whole == a(a(a(a(a(a(x, j), f), w), s), h), u)
           less == a(a(a(a(a(a(a(x, j), e), w), s), h), u), f)
<1>5. TextsOf(j, f, s, w, h, u, x) = all /\ PutTogether(j, f, s, w, h, u, x) = whole
      /\ PutTogether(j, << >>, s, w, h, u, x) \o f = less
  BY DEF TextsOf, PutTogether
<1> HIDE DEF H, a, r, l, e
<1>6. /\ all \in H /\ r(all) = UNION {r(j), r(f), r(s), r(w), r(h), r(u), r(x)}
      /\ l(all) = l(j) + l(f) + l(s) + l(w) + l(h) + l(u) + l(x)
  <2> DEFINE z1 == a(j, f)
             z2 == a(z1, s)
             z3 == a(z2, w)
             z4 == a(z3, h)
             z5 == a(z4, u)
             z6 == a(z5, x)
  <2>0. all = z6
    OBVIOUS
  <2>1. z1 \in H /\ r(z1) = r(j) \cup r(f) /\ l(z1) = l(j) + l(f)
    BY <1>1, <1>3, <1>4
  <2> HIDE DEF z1
  <2>2. z2 \in H /\ r(z2) = r(z1) \cup r(s) /\ l(z2) = l(z1) + l(s)
    BY <1>1, <1>3, <1>4, <2>1
  <2> HIDE DEF z2
  <2>3. z3 \in H /\ r(z3) = r(z2) \cup r(w) /\ l(z3) = l(z2) + l(w)
    BY <1>1, <1>3, <1>4, <2>2
  <2> HIDE DEF z3
  <2>4. z4 \in H /\ r(z4) = r(z3) \cup r(h) /\ l(z4) = l(z3) + l(h)
    BY <1>1, <1>3, <1>4, <2>3
  <2> HIDE DEF z4
  <2>5. z5 \in H /\ r(z5) = r(z4) \cup r(u) /\ l(z5) = l(z4) + l(u)
    BY <1>1, <1>3, <1>4, <2>4
  <2> HIDE DEF z5
  <2>6. z6 \in H /\ r(z6) = r(z5) \cup r(x) /\ l(z6) = l(z5) + l(x)
    BY <1>1, <1>3, <1>4, <2>5
  <2> HIDE DEF z6
  <2>r. \A v : v \in r(z6) <=> v \in r(j) \/ v \in r(f) \/ v \in r(s) \/ v \in r(w) \/ v \in r(h) \/ v \in r(u) \/ v \in r(x)
    BY <1>4, <2>1, <2>2, <2>3, <2>4, <2>5, <2>6
  <2>u. \A v : v \in UNION {r(j), r(f), r(s), r(w), r(h), r(u), r(x)} <=> v \in r(j) \/ v \in r(f) \/ v \in r(s) \/ v \in r(w) \/ v \in r(h) \/ v \in r(u) \/ v \in r(x)
    OBVIOUS
  <2>l. l(z6) = l(j) + l(f) + l(s) + l(w) + l(h) + l(u) + l(x)
    BY <1>2, <1>3, <1>4, <2>1, <2>2, <2>3, <2>4, <2>5, <2>6
  <2>e. r(z6) = UNION {r(j), r(f), r(s), r(w), r(h), r(u), r(x)}
    BY <2>r, <2>u
  <2> HIDE DEF all
  <2> QED
    BY <2>0, <2>6, <2>l, <2>e
<1>7. /\ whole \in H /\ r(whole) = UNION {r(j), r(f), r(s), r(w), r(h), r(u), r(x)}
      /\ l(whole) = l(j) + l(f) + l(s) + l(w) + l(h) + l(u) + l(x)
  <2> DEFINE z1 == a(x, j)
             z2 == a(z1, f)
             z3 == a(z2, w)
             z4 == a(z3, s)
             z5 == a(z4, h)
             z6 == a(z5, u)
  <2>0. whole = z6
    OBVIOUS
  <2>1. z1 \in H /\ r(z1) = r(x) \cup r(j) /\ l(z1) = l(x) + l(j)
    BY <1>1, <1>3, <1>4
  <2> HIDE DEF z1
  <2>2. z2 \in H /\ r(z2) = r(z1) \cup r(f) /\ l(z2) = l(z1) + l(f)
    BY <1>1, <1>3, <1>4, <2>1
  <2> HIDE DEF z2
  <2>3. z3 \in H /\ r(z3) = r(z2) \cup r(w) /\ l(z3) = l(z2) + l(w)
    BY <1>1, <1>3, <1>4, <2>2
  <2> HIDE DEF z3
  <2>4. z4 \in H /\ r(z4) = r(z3) \cup r(s) /\ l(z4) = l(z3) + l(s)
    BY <1>1, <1>3, <1>4, <2>3
  <2> HIDE DEF z4
  <2>5. z5 \in H /\ r(z5) = r(z4) \cup r(h) /\ l(z5) = l(z4) + l(h)
    BY <1>1, <1>3, <1>4, <2>4
  <2> HIDE DEF z5
  <2>6. z6 \in H /\ r(z6) = r(z5) \cup r(u) /\ l(z6) = l(z5) + l(u)
    BY <1>1, <1>3, <1>4, <2>5
  <2> HIDE DEF z6
  <2>r. \A v : v \in r(z6) <=> v \in r(j) \/ v \in r(f) \/ v \in r(s) \/ v \in r(w) \/ v \in r(h) \/ v \in r(u) \/ v \in r(x)
    BY <1>4, <2>1, <2>2, <2>3, <2>4, <2>5, <2>6
  <2>u. \A v : v \in UNION {r(j), r(f), r(s), r(w), r(h), r(u), r(x)} <=> v \in r(j) \/ v \in r(f) \/ v \in r(s) \/ v \in r(w) \/ v \in r(h) \/ v \in r(u) \/ v \in r(x)
    OBVIOUS
  <2>l. l(z6) = l(j) + l(f) + l(s) + l(w) + l(h) + l(u) + l(x)
    <3>1. /\ l(j) \in Nat /\ l(f) \in Nat /\ l(s) \in Nat /\ l(w) \in Nat /\ l(h) \in Nat /\ l(u) \in Nat /\ l(x) \in Nat /\ l(e) = 0
      BY <1>2, <1>3, <1>4
    <3>2. l(z1) = l(x) + l(j)
      BY <2>1, <3>1
    <3>3. l(z2) = l(x) + l(j) + l(f)
      BY <2>2, <3>1, <3>2
    <3>4. l(z3) = l(x) + l(j) + l(f) + l(w)
      BY <2>3, <3>1, <3>3
    <3>5. l(z4) = l(x) + l(j) + l(f) + l(w) + l(s)
      BY <2>4, <3>1, <3>4
    <3>6. l(z5) = l(x) + l(j) + l(f) + l(w) + l(s) + l(h)
      BY <2>5, <3>1, <3>5
    <3>7. l(z6) = l(x) + l(j) + l(f) + l(w) + l(s) + l(h) + l(u)
      BY <2>6, <3>1, <3>6
    <3>s. l(x) + l(j) + l(f) + l(w) + l(s) + l(h) + l(u) = l(j) + l(f) + l(s) + l(w) + l(h) + l(u) + l(x)
      <4> DEFINE a1 == l(j)
                 a2 == l(f)
                 a3 == l(s)
                 a4 == l(w)
                 a5 == l(h)
                 a6 == l(u)
                 a7 == l(x)
      <4>1. a1 \in Nat /\ a2 \in Nat /\ a3 \in Nat /\ a4 \in Nat /\ a5 \in Nat /\ a6 \in Nat /\ a7 \in Nat
        BY <3>1
      <4> HIDE DEF a1, a2, a3, a4, a5, a6, a7
      <4>2. a7 + a1 + a2 + a4 + a3 + a5 + a6 = a1 + a2 + a3 + a4 + a5 + a6 + a7
        BY <4>1
      <4> QED
        BY <4>2 DEF a1, a2, a3, a4, a5, a6, a7
    <3> QED
      BY <3>s, <3>7, Zenon
  <2>e. r(z6) = UNION {r(j), r(f), r(s), r(w), r(h), r(u), r(x)}
    BY <2>r, <2>u
  <2> HIDE DEF whole
  <2> QED
    BY <2>0, <2>6, <2>l, <2>e
<1>8. /\ less \in H /\ r(less) = UNION {r(j), r(f), r(s), r(w), r(h), r(u), r(x)}
      /\ l(less) = l(j) + l(f) + l(s) + l(w) + l(h) + l(u) + l(x)
  <2> DEFINE z1 == a(x, j)
             z2 == a(z1, e)
             z3 == a(z2, w)
             z4 == a(z3, s)
             z5 == a(z4, h)
             z6 == a(z5, u)
             z7 == a(z6, f)
  <2>0. less = z7
    OBVIOUS
  <2>1. z1 \in H /\ r(z1) = r(x) \cup r(j) /\ l(z1) = l(x) + l(j)
    BY <1>1, <1>3, <1>4
  <2> HIDE DEF z1
  <2>2. z2 \in H /\ r(z2) = r(z1) \cup r(e) /\ l(z2) = l(z1) + l(e)
    BY <1>1, <1>3, <1>4, <2>1
  <2> HIDE DEF z2
  <2>3. z3 \in H /\ r(z3) = r(z2) \cup r(w) /\ l(z3) = l(z2) + l(w)
    BY <1>1, <1>3, <1>4, <2>2
  <2> HIDE DEF z3
  <2>4. z4 \in H /\ r(z4) = r(z3) \cup r(s) /\ l(z4) = l(z3) + l(s)
    BY <1>1, <1>3, <1>4, <2>3
  <2> HIDE DEF z4
  <2>5. z5 \in H /\ r(z5) = r(z4) \cup r(h) /\ l(z5) = l(z4) + l(h)
    BY <1>1, <1>3, <1>4, <2>4
  <2> HIDE DEF z5
  <2>6. z6 \in H /\ r(z6) = r(z5) \cup r(u) /\ l(z6) = l(z5) + l(u)
    BY <1>1, <1>3, <1>4, <2>5
  <2> HIDE DEF z6
  <2>7. z7 \in H /\ r(z7) = r(z6) \cup r(f) /\ l(z7) = l(z6) + l(f)
    BY <1>1, <1>3, <1>4, <2>6
  <2> HIDE DEF z7
  <2>r. \A v : v \in r(z7) <=> v \in r(j) \/ v \in r(f) \/ v \in r(s) \/ v \in r(w) \/ v \in r(h) \/ v \in r(u) \/ v \in r(x)
    BY <1>4, <2>1, <2>2, <2>3, <2>4, <2>5, <2>6, <2>7
  <2>u. \A v : v \in UNION {r(j), r(f), r(s), r(w), r(h), r(u), r(x)} <=> v \in r(j) \/ v \in r(f) \/ v \in r(s) \/ v \in r(w) \/ v \in r(h) \/ v \in r(u) \/ v \in r(x)
    OBVIOUS
  <2>l. l(z7) = l(j) + l(f) + l(s) + l(w) + l(h) + l(u) + l(x)
    <3>1. /\ l(j) \in Nat /\ l(f) \in Nat /\ l(s) \in Nat /\ l(w) \in Nat /\ l(h) \in Nat /\ l(u) \in Nat /\ l(x) \in Nat /\ l(e) = 0
      BY <1>2, <1>3, <1>4
    <3>2. l(z1) = l(x) + l(j)
      BY <2>1, <3>1
    <3>3. l(z2) = l(x) + l(j) + l(e)
      BY <2>2, <3>1, <3>2
    <3>4. l(z3) = l(x) + l(j) + l(e) + l(w)
      BY <2>3, <3>1, <3>3
    <3>5. l(z4) = l(x) + l(j) + l(e) + l(w) + l(s)
      BY <2>4, <3>1, <3>4
    <3>6. l(z5) = l(x) + l(j) + l(e) + l(w) + l(s) + l(h)
      BY <2>5, <3>1, <3>5
    <3>7. l(z6) = l(x) + l(j) + l(e) + l(w) + l(s) + l(h) + l(u)
      BY <2>6, <3>1, <3>6
    <3>8. l(z7) = l(x) + l(j) + l(e) + l(w) + l(s) + l(h) + l(u) + l(f)
      BY <2>7, <3>1, <3>7
    <3>s. l(x) + l(j) + 0 + l(w) + l(s) + l(h) + l(u) + l(f) = l(j) + l(f) + l(s) + l(w) + l(h) + l(u) + l(x)
      <4> DEFINE a1 == l(j)
                 a2 == l(f)
                 a3 == l(s)
                 a4 == l(w)
                 a5 == l(h)
                 a6 == l(u)
                 a7 == l(x)
      <4>1. a1 \in Nat /\ a2 \in Nat /\ a3 \in Nat /\ a4 \in Nat /\ a5 \in Nat /\ a6 \in Nat /\ a7 \in Nat
        BY <3>1
      <4> HIDE DEF a1, a2, a3, a4, a5, a6, a7
      <4>2. a7 + a1 + 0 + a4 + a3 + a5 + a6 + a2 = a1 + a2 + a3 + a4 + a5 + a6 + a7
        BY <4>1
      <4> QED
        BY <4>2 DEF a1, a2, a3, a4, a5, a6, a7
    <3>t. l(z7) = l(x) + l(j) + 0 + l(w) + l(s) + l(h) + l(u) + l(f)
      BY <3>1, <3>8
    <3> QED
      BY <3>s, <3>t, Zenon
  <2>e. r(z7) = UNION {r(j), r(f), r(s), r(w), r(h), r(u), r(x)}
    BY <2>r, <2>u
  <2> HIDE DEF less
  <2> QED
    BY <2>0, <2>7, <2>l, <2>e
<1>9. l(all) = l(whole) /\ l(all) = l(less)
  BY <1>6, <1>7, <1>8
<1> HIDE DEF all, whole, less
<1>10. r(all) = r(whole) /\ r(all) = r(less) /\ all \in H /\ whole \in H /\ less \in H
  BY <1>6, <1>7, <1>8
<1> QED
  BY <1>5, <1>9, <1>10 DEF SameText, r, l, H

Alike(a, b) == a \in Seq(Hole) /\ b \in Seq(Hole) /\ AllZeros(a) = AllZeros(b) /\ Ties(a, 0) = Ties(b, 0)

LEMMA AlikeJoin ==
  ASSUME NEW a, NEW b, Alike(a, b), NEW t \in Seq(Hole)
  PROVE  Alike(a \o t, b \o t)
<1>1. a \in Seq(Hole) /\ b \in Seq(Hole) /\ AllZeros(a) = AllZeros(b) /\ Ties(a, 0) = Ties(b, 0)
  BY DEF Alike
<1>2. Joins(a, t, a \o t) /\ Joins(b, t, b \o t)
  BY <1>1, TextJoins
<1>3. 0 \in Nat /\ AllZeros(a) \in Nat /\ 0 + AllZeros(a) = AllZeros(a)
  BY <1>2 DEF Joins
<1>4. /\ Ties(a \o t, 0) = Ties(a, 0) \cup Ties(t, 0 + AllZeros(a))
      /\ Ties(b \o t, 0) = Ties(b, 0) \cup Ties(t, 0 + AllZeros(b))
      /\ (a \o t) \in Seq(Hole) /\ (b \o t) \in Seq(Hole)
      /\ AllZeros(a \o t) = AllZeros(a) + AllZeros(t) /\ AllZeros(b \o t) = AllZeros(b) + AllZeros(t)
  BY <1>2, <1>3 DEF Joins
<1> QED
  BY <1>1, <1>4 DEF Alike

\* A text without ?s may change places with the next.
LEMMA AlikeSwap ==
  ASSUME NEW p \in Seq(Hole), NEW s \in Seq(Hole), NEW w \in Seq(Hole), Unmarked(s)
  PROVE  Alike((p \o s) \o w, (p \o w) \o s)
<1> DEFINE ps == p \o s
           pw == p \o w
           a == ps \o w
           b == pw \o s
<1>1. Joins(p, s, ps) /\ Joins(p, w, pw)
  BY TextJoins
<1>2. ps \in Seq(Hole) /\ pw \in Seq(Hole)
  BY <1>1 DEF Joins
<1> HIDE DEF ps, pw
<1>3. Joins(ps, w, a) /\ Joins(pw, s, b)
  BY <1>2, TextJoins
<1> HIDE DEF a, b
<1>4. AllZeros(s) = 0 /\ \A z, y : Ties(s, z) = Ties(s, y)
  BY DEF Unmarked
<1>5. AllZeros(p) \in Nat /\ AllZeros(w) \in Nat /\ AllZeros(ps) = AllZeros(p) + 0 /\ AllZeros(pw) = AllZeros(p) + AllZeros(w)
  BY <1>1, <1>4 DEF Joins
<1>6. AllZeros(a) = AllZeros(ps) + AllZeros(w) /\ AllZeros(b) = AllZeros(pw) + AllZeros(s)
  BY <1>3 DEF Joins
<1>7. AllZeros(a) = AllZeros(b)
  BY <1>4, <1>5, <1>6
<1>z. 0 \in Nat /\ 0 + AllZeros(ps) = AllZeros(p) /\ 0 + AllZeros(p) = AllZeros(p)
  BY <1>5
<1>8. /\ Ties(ps, 0) = Ties(p, 0) \cup Ties(s, 0 + AllZeros(p)) /\ Ties(pw, 0) = Ties(p, 0) \cup Ties(w, 0 + AllZeros(p))
      /\ Ties(a, 0) = Ties(ps, 0) \cup Ties(w, 0 + AllZeros(ps)) /\ Ties(b, 0) = Ties(pw, 0) \cup Ties(s, 0 + AllZeros(pw))
  BY <1>1, <1>3, <1>z DEF Joins
<1>9. Ties(s, 0 + AllZeros(p)) = Ties(s, 0 + AllZeros(pw))
  BY <1>4
<1>10. Ties(a, 0) = Ties(b, 0)
  BY <1>8, <1>9, <1>z
<1>11. a \in Seq(Hole) /\ b \in Seq(Hole)
  BY <1>3 DEF Joins
<1> QED
  BY <1>7, <1>10, <1>11 DEF Alike, a, b, ps, pw

LEMMA TextsAlike ==
  ASSUME NEW j \in Seq(Hole), NEW f \in Seq(Hole), NEW s \in Seq(Hole), NEW w \in Seq(Hole),
         NEW h \in Seq(Hole), NEW u \in Seq(Hole), Unmarked(s)
  PROVE  Ties(TextsOf(j, f, s, w, h, u, << >>), 0) = Ties(PutTogether(j, f, s, w, h, u, << >>), 0)
<1> DEFINE p == j \o f
           a == (p \o s) \o w
           b == (p \o w) \o s
<1>1. p \in Seq(Hole)
  BY RangeJoin
<1> HIDE DEF p
<1>2. Alike(a, b)
  BY <1>1, AlikeSwap
<1> HIDE DEF a, b
<1>3. Alike(a \o h, b \o h)
  BY <1>2, AlikeJoin
<1> DEFINE c == a \o h
           d == b \o h
<1>4. Alike(c, d)
  BY <1>3
<1> HIDE DEF c, d
<1>5. Alike(c \o u, d \o u)
  BY <1>4, AlikeJoin
<1>6. TextsOf(j, f, s, w, h, u, << >>) = c \o u
  <2>1. TextsOf(j, f, s, w, h, u, << >>) = (c \o u) \o << >>
    BY DEF TextsOf, c, a, p
  <2> DEFINE e == c \o u
  <2>2. e \in Seq(Hole)
    BY <1>5 DEF Alike
  <2> HIDE DEF e
  <2>3. e \o << >> = e
    BY <2>2, ConcatEmptySeq
  <2> QED
    BY <2>1, <2>3 DEF e
<1>7. PutTogether(j, f, s, w, h, u, << >>) = d \o u
  <2>1. PutTogether(j, f, s, w, h, u, << >>) = ((((((<< >> \o j) \o f) \o w) \o s) \o h) \o u)
    BY DEF PutTogether
  <2>2. << >> \o j = j
    BY ConcatEmptySeq
  <2>3. PutTogether(j, f, s, w, h, u, << >>) = (((((j \o f) \o w) \o s) \o h) \o u)
    BY <2>1, <2>2, Zenon
  <2> QED
    BY <2>3 DEF d, b, p
<1> QED
  BY <1>5, <1>6, <1>7 DEF Alike

LEMMA EmptyJoins ==
  /\ \A t \in Seq(Hole) : t \o << >> = t /\ << >> \o t = t
  /\ << >> \in Seq(Hole) /\ \A s, t \in Seq(Hole) : (s \o t) \in Seq(Hole)
<1>1. \A t \in Seq(Hole) : t \o << >> = t /\ << >> \o t = t
  BY ConcatEmptySeq
<1> QED
  BY <1>1

TextsMeet(j, f, s, w, h, u, x) ==
  /\ x = << >> /\ (s = << >> \/ w = << >>) => TextsOf(j, f, s, w, h, u, x) = PutTogether(j, f, s, w, h, u, x)
  /\ j = << >> /\ f = << >> /\ s = << >> /\ w = << >> /\ h = << >> /\ u = << >> =>
       TextsOf(j, f, s, w, h, u, x) = PutTogether(j, f, s, w, h, u, x)

LEMMA TextsSame ==
  ASSUME NEW j \in Seq(Hole), NEW f \in Seq(Hole), NEW s \in Seq(Hole), NEW w \in Seq(Hole),
         NEW h \in Seq(Hole), NEW u \in Seq(Hole), NEW x \in Seq(Hole)
  PROVE  TextsMeet(j, f, s, w, h, u, x)
<1> DEFINE H == Seq(Hole)
           a(p, q) == p \o q
           e == << >>
           all == a(a(a(a(a(a(j, f), s), w), h), u), x)
           whole == a(a(a(a(a(a(x, j), f), w), s), h), u)
<1>1. TextsOf(j, f, s, w, h, u, x) = all /\ PutTogether(j, f, s, w, h, u, x) = whole
  BY DEF TextsOf, PutTogether
<1>2. e \in H /\ \A t \in H : a(t, e) = t /\ a(e, t) = t
  BY EmptyJoins
<1>3. \A p, q \in H : a(p, q) \in H
  BY EmptyJoins
<1>4. j \in H /\ f \in H /\ s \in H /\ w \in H /\ h \in H /\ u \in H /\ x \in H
  OBVIOUS
<1>e. e = << >>
  OBVIOUS
<1> HIDE DEF H, a, e
<1>5. ASSUME x = e, s = e \/ w = e PROVE all = whole
  <2>1. a(x, j) = j /\ a(j, f) \in H
    BY <1>2, <1>3, <1>4, <1>5
  <2>2. a(a(a(j, f), s), w) \in H /\ a(a(a(j, f), s), w) = a(a(a(j, f), w), s)
    BY <1>2, <1>3, <1>4, <1>5, <2>1
  <2> DEFINE z == a(a(a(j, f), s), w)
  <2>3. z \in H /\ a(a(a(j, f), w), s) = z
    BY <2>2
  <2> HIDE DEF z
  <2>4. a(a(z, h), u) \in H
    BY <1>3, <1>4, <2>3
  <2>5. whole = a(a(z, h), u)
    BY <2>1, <2>3, Zenon
  <2>6. all = a(a(a(z, h), u), e)
    BY <1>5 DEF z
  <2> QED
    BY <1>2, <2>4, <2>5, <2>6
<1>6. ASSUME j = e, f = e, s = e, w = e, h = e, u = e PROVE all = whole
  <2>1. a(e, e) = e /\ a(e, x) = x /\ a(x, e) = x
    BY <1>2, <1>4
  <2>2. all = a(a(a(a(a(a(e, e), e), e), e), e), x)
    BY <1>6, Zenon
  <2>3. whole = a(a(a(a(a(a(x, e), e), e), e), e), e)
    BY <1>6, Zenon
  <2> HIDE DEF all, whole
  <2>4. all = x
    BY <2>1, <2>2, Zenon
  <2>5. whole = x
    BY <2>1, <2>3, Zenon
  <2> QED
    BY <2>4, <2>5
<1> HIDE DEF all, whole
<1> QED
  BY <1>1, <1>5, <1>6, <1>e DEF TextsMeet

-----------------------------------------------------------------------------
\* A plan without one of its clauses.
LEMMA FitsLess ==
  ASSUME NEW p, PlanFits(p), NEW c \in ClauseNames
  PROVE  LET q == [p EXCEPT ![c] = << >>]
         IN  /\ PlanFits(q) /\ q[c] = << >> /\ q.fts5 = p.fts5 /\ q.deny = p.deny
             /\ \A a \in ClauseNames : a # c => q[a] = p[a]
<1> DEFINE q == [p EXCEPT ![c] = << >>]
<1>0. DOMAIN p = ClauseNames \cup {"fts5", "deny"} /\ c \in DOMAIN p
  BY DEF PlanFits
<1>1. DOMAIN q = DOMAIN p /\ \A a \in DOMAIN p : q[a] = IF a = c THEN << >> ELSE p[a]
  BY <1>0
<1> HIDE DEF q
<1>2. q[c] = << >> /\ \A a \in ClauseNames : a # c => q[a] = p[a]
  BY <1>0, <1>1
<1>3. c # "fts5" /\ c # "deny"
  BY DEF ClauseNames
<1>4. q.fts5 = p.fts5 /\ q.deny = p.deny
  BY <1>0, <1>1, <1>3
<1>5. \A a \in ClauseNames : GoodNodes(q[a])
  BY <1>2, NoNodes DEF PlanFits
<1>6. \A a, b \in ClauseNames : a # b => NV(q[a]) \cap NV(q[b]) = {}
  <2>1. ASSUME NEW a \in ClauseNames, NEW b \in ClauseNames, a # b PROVE NV(q[a]) \cap NV(q[b]) = {}
    <3>1. CASE a = c \/ b = c
      BY <1>2, <3>1, NoNodes
    <3>2. CASE a # c /\ b # c
      BY <1>2, <2>1, <3>2 DEF PlanFits
    <3> QED
      BY <3>1, <3>2
  <2> QED
    BY <2>1
<1>7. (q.jsonOps = << >> \/ q.jsonOps = p.jsonOps) /\ (q.fts = << >> \/ q.fts = p.fts) /\ (q.with = << >> \/ q.with = p.with)
  BY <1>2 DEF ClauseNames
<1>8. \A k \in 1 .. Len(q.jsonOps) : Inserted(q.jsonOps[k])
  <2>1. 1 .. Len(<< >>) = {}
    OBVIOUS
  <2>2. CASE q.jsonOps = << >>
    BY <2>1, <2>2
  <2>3. CASE q.jsonOps = p.jsonOps
    BY <2>3 DEF PlanFits
  <2> QED
    BY <1>7, <2>2, <2>3
<1>9. (q.fts = << >> \/ \E node : q.fts = <<node>> /\ Inserted(node))
      /\ (q.with = << >> \/ \E node : q.with = <<node>> /\ node.kind = "plan")
  BY <1>7 DEF PlanFits
<1>10. DOMAIN q = ClauseNames \cup {"fts5", "deny"} /\ {q.fts5, q.deny} \subseteq BOOLEAN
  BY <1>0, <1>1, <1>4 DEF PlanFits
<1>11. PlanFits(q)
  BY <1>5, <1>6, <1>8, <1>9, <1>10 DEF PlanFits
<1> QED
  BY <1>2, <1>4, <1>11 DEF q

\* What Misplaced says of a plan whose FROM source, if any, is in its text.
Plain(p) == ~p.deny /\ (~p.fts5 \/ p.fromSubquery = << >>)
WithTooMany(p) == Holding(p.with) /\ Holding(WithoutWith(p))
FtsBefore(p, style) == style = "positional" /\ p.fts # << >> /\ Holding(WhereNodes(p))

LEMMA WithLeftOut ==
  ASSUME NEW p, PlanFits(p)
  PROVE  SelectNodes([p EXCEPT !.with = << >>]) = WithoutWith(p)
<1> DEFINE q == [p EXCEPT !.with = << >>]
<1>1. "with" \in ClauseNames
  BY DEF ClauseNames
<1>2. PlanFits(q) /\ q.with = << >> /\ \A a \in ClauseNames : a # "with" => q[a] = p[a]
  BY <1>1, FitsLess
<1> HIDE DEF q
<1>3. SelectNodes(q) = WithoutWith(q) \o q.with
  BY <1>2, AllMeans DEF AllIs
<1>4. WithoutWith(q) \in Seq(PlanNodes)
  BY <1>2, SelectGathers DEF AllGather, Gathers, GoodNodes
<1>5. WithoutWith(q) \o << >> = WithoutWith(q)
  BY <1>4, ConcatEmptySeq
<1>6. /\ q.jsonOps = p.jsonOps /\ q.fromSubquery = p.fromSubquery /\ q.fts = p.fts /\ q.filters = p.filters
      /\ q.rawFilters = p.rawFilters /\ q.having = p.having /\ q.unions = p.unions
  BY <1>2 DEF ClauseNames
<1>7. WithoutWith(q) = WithoutWith(p)
  BY <1>6 DEF WithoutWith, FirstThree, FirstTwo, WhereNodes
<1> QED
  BY <1>2, <1>3, <1>5, <1>7 DEF q

LEMMA PlainMisplaced ==
  ASSUME NEW p, PlanFits(p), Plain(p), NEW style
  PROVE  Misplaced(p, style) <=> \/ Astray(SelectNodes(p), style) \/ WithTooMany(p) \/ FtsBefore(p, style)
<1> DEFINE q == [p EXCEPT !.fromSubquery = IF p.fts5 THEN << >> ELSE @]
<1>1. SelectNodes(q) = SelectNodes(p)
  <2>0. DOMAIN p = ClauseNames \cup {"fts5", "deny"} /\ p.fts5 \in BOOLEAN
    BY DEF PlanFits
  <2>1. \A a \in ClauseNames : q[a] = IF a = "fromSubquery" THEN IF p.fts5 THEN << >> ELSE p.fromSubquery ELSE p[a]
    BY <2>0
  <2> HIDE DEF q
  <2>2. q["fromSubquery"] = p.fromSubquery
    BY <2>0, <2>1 DEF Plain, ClauseNames
  <2>3. \A a \in ClauseNames : q[a] = p[a]
    BY <2>1, <2>2
  <2>4. /\ q.jsonOps = p.jsonOps /\ q.fromSubquery = p.fromSubquery /\ q.fts = p.fts /\ q.filters = p.filters
        /\ q.rawFilters = p.rawFilters /\ q.having = p.having /\ q.unions = p.unions /\ q.with = p.with
    BY <2>3 DEF ClauseNames
  <2> QED
    BY <2>4 DEF SelectNodes
<1>2. SelectNodes([p EXCEPT !.with = << >>]) = WithoutWith(p)
  BY WithLeftOut
<1>3. ~(p.fts5 /\ Holding(p.fromSubquery))
  BY NoNodes DEF Plain
<1>4. Misplaced(p, style) <=> \/ Astray(SelectNodes(q), style)
                              \/ p.fts5 /\ Holding(p.fromSubquery)
                              \/ Holding(p.with) /\ Holding(SelectNodes([p EXCEPT !.with = << >>]))
                              \/ style = "positional" /\ p.fts # << >> /\ Holding(p.filters \o p.rawFilters)
  BY DEF Misplaced, Plain
<1> HIDE DEF q
<1> QED
  BY <1>1, <1>2, <1>3, <1>4 DEF WithTooMany, FtsBefore, WhereNodes

\* The code of such a plan, and that of its nodes as one clause.
AllOf(p) == Clause(<< >>, SelectNodes(p))
Texts(p) ==
  /\ JsonOf(p).text \in Seq(Hole) /\ FromOf(p).text \in Seq(Hole) /\ FtsOf(p).text \in Seq(Hole)
  /\ WhereOf(p).text \in Seq(Hole) /\ HavingOf(p).text \in Seq(Hole) /\ UnionsOf(p).text \in Seq(Hole)
  /\ WithOf(p).text \in Seq(Hole) /\ WithOf(p).params \in Seq(Nat)
AllText(p) ==
  TextsOf(JsonOf(p).text, FromOf(p).text, FtsOf(p).text, WhereOf(p).text, HavingOf(p).text, UnionsOf(p).text, WithOf(p).text)
PlainText(p) ==
  PutTogether(JsonOf(p).text, FromOf(p).text, FtsOf(p).text, WhereOf(p).text, HavingOf(p).text, UnionsOf(p).text, WithOf(p).text)

LEMMA TextsFit ==
  ASSUME NEW p, PlanFits(p)
  PROVE  Texts(p)
<1>1. /\ JsonOf(p) \in Codes /\ FromOf(p) \in Codes /\ FtsOf(p) \in Codes /\ WhereOf(p) \in Codes
      /\ HavingOf(p) \in Codes /\ UnionsOf(p) \in Codes /\ WithOf(p) \in Codes
  BY ClausesOf DEF ClausesRight, ClauseHas
<1> QED
  BY <1>1, CodeFits DEF Texts

Agree(c, d) ==
  /\ c \in Codes /\ d \in Codes /\ Range(c.text) = Range(d.text) /\ Len(c.text) = Len(d.text) /\ c.params = d.params
  /\ (Entire(c) <=> Entire(d)) /\ OncePlaced(c) /\ Low(c) /\ Vals(c) = Vals(d) /\ Good(d)

LEMMA AllIsGood ==
  ASSUME NEW p, PlanFits(p)
  PROVE  /\ Good(AllOf(p)) /\ AllOf(p) \in Codes
         /\ AllOf(p).text = AllText(p) /\ AllOf(p).params = WithOf(p).params
<1>1. GoodNodes(SelectNodes(p))
  BY SelectGathers DEF AllGather, Gathers
<1>2. Good(AllOf(p))
  BY <1>1, ClauseBinds DEF AllOf
<1>3. AllOf(p) = [text |-> AllText(p), params |-> WithOf(p).params]
  BY AllMeans DEF AllIs, AllOf, AllText, TextsOf
<1> HIDE DEF AllOf
<1>4. AllOf(p).text = AllText(p) /\ AllOf(p).params = WithOf(p).params
  BY <1>3, CodeParts, Zenon
<1> QED
  BY <1>2, <1>4 DEF Good

LEMMA PlainAgrees ==
  ASSUME NEW p, PlanFits(p), Plain(p)
  PROVE  Agree(CompileSelect(p), AllOf(p)) /\ CompileSelect(p).text = PlainText(p) /\ CompileSelect(p).params = WithOf(p).params
<1> DEFINE c == CompileSelect(p)
           d == AllOf(p)
<1>1. (IF p.fts5 THEN << >> ELSE FromOf(p).text) = FromOf(p).text
  <2>1. p.fts5 \in BOOLEAN
    BY DEF PlanFits
  <2>2. CASE p.fts5
    <3>1. p.fromSubquery = << >>
      BY <2>2 DEF Plain
    <3>2. FromOf(p) = [text |-> << >>, params |-> JsonOf(p).params]
      BY <3>1, NoNode DEF FromOf
    <3> QED
      BY <2>2, <3>2
  <2>3. CASE ~p.fts5
    BY <2>3
  <2> QED
    BY <2>1, <2>2, <2>3
<1>2. c = [text |-> PlainText(p), params |-> WithOf(p).params]
  BY <1>1, SelectMeans DEF SelectIs, PlainText, PutTogether, Plain
<1>3. Good(d) /\ d \in Codes /\ d.text = AllText(p) /\ d.params = WithOf(p).params
  BY AllIsGood
<1> HIDE DEF c, d
<1>4. c.text = PlainText(p) /\ c.params = WithOf(p).params
  BY <1>2, CodeParts, Zenon
<1>5. SameText(AllText(p), PlainText(p))
  BY TextsFit, TextsRange DEF Texts, AllText, PlainText
<1>6. c \in Codes
  <2>1. PlainText(p) \in Seq(Hole) /\ WithOf(p).params \in Seq(Nat)
    BY <1>5, TextsFit DEF SameText, Texts
  <2> QED
    BY <1>2, <2>1 DEF Codes
<1>7. Range(c.text) = Range(d.text) /\ Len(c.text) = Len(d.text) /\ c.params = d.params
  BY <1>3, <1>4, <1>5 DEF SameText
<1>8. (Entire(c) <=> Entire(d)) /\ (Low(c) <=> Low(d)) /\ Vals(c) = Vals(d)
  BY <1>3, <1>6, <1>7, SameHoles
<1>9. OncePlaced(d) /\ Low(d)
  BY <1>3 DEF Good
<1>10. OncePlaced(c)
  BY <1>3, <1>6, <1>7, <1>9, SameOnce
<1> QED
  BY <1>3, <1>4, <1>6, <1>7, <1>8, <1>9, <1>10 DEF Agree, c, d

-----------------------------------------------------------------------------
\* What a select comes to.
SelectRight(p) ==
  /\ Good(CompileSelect(p)) /\ Vals(CompileSelect(p)) \subseteq NV(SelectNodes(p))
  /\ \A style \in Styles : Bound(CompileSelect(p), style) <=> ~Misplaced(p, style)

LEMMA AllBinds ==
  ASSUME NEW p, PlanFits(p)
  PROVE  /\ Vals(AllOf(p)) \subseteq NV(SelectNodes(p))
         /\ Entire(AllOf(p)) <=> EntireNodes(SelectNodes(p))
         /\ \A style \in Styles : Bound(AllOf(p), style) <=> ~Astray(SelectNodes(p), style)
         /\ ~Entire(AllOf(p)) => \A style \in Styles : Astray(SelectNodes(p), style)
<1> DEFINE s == SelectNodes(p)
           c == AllOf(p)
<1>1. GoodNodes(s) /\ s \in Seq(PlanNodes)
  BY SelectGathers DEF AllGather, Gathers, GoodNodes
<1> HIDE DEF s
<1>2. Linear(c, s, Len(s)) /\ Good(c) /\ \A style \in Styles : Bound(c, style) <=> ~Astray(s, style)
  BY <1>1, LinearRight, ClauseBinds DEF AllOf, s
<1> HIDE DEF c
<1>3. Entire(c) <=> \A k \in 1 .. Len(s) : Entire(s[k].code)
  BY <1>2 DEF Linear, LinearBinds
<1>4. EntireNodes(s) <=> \A k \in 1 .. Len(s) : Entire(s[k].code)
  <2>1. DOMAIN s = 1 .. Len(s)
    BY <1>1
  <2> QED
    BY <2>1 DEF EntireNodes, Range
<1>5. Vals(c) \subseteq NV(s)
  BY <1>2 DEF Linear, LinearVals, NV
<1>6. \A style \in Styles : Bound(c, style) => Entire(c)
  BY <1>2, BoundEntire DEF Good
<1> QED
  BY <1>2, <1>3, <1>4, <1>5, <1>6 DEF c, s

LEMMA PlainWrong ==
  ASSUME NEW p, PlanFits(p), Plain(p), ~Entire(AllOf(p))
  PROVE  SelectRight(p)
<1> DEFINE c == CompileSelect(p)
<1>1. Agree(c, AllOf(p))
  BY PlainAgrees
<1> HIDE DEF c
<1>2. c \in Codes /\ OncePlaced(c) /\ Low(c) /\ ~Entire(c) /\ Vals(c) = Vals(AllOf(p))
  BY <1>1 DEF Agree
<1>3. Strays(c)
  BY <1>2, StraysNot
<1>4. \A style \in Styles : ~Bound(c, style)
  BY <1>2, BoundEntire
<1>5. \A style \in Styles : Misplaced(p, style)
  BY AllBinds, PlainMisplaced
<1>6. Vals(c) \subseteq NV(SelectNodes(p))
  BY <1>2, AllBinds
<1> QED
  BY <1>2, <1>3, <1>4, <1>5, <1>6 DEF SelectRight, Good, c

\* Nodes that bind entirely hold values just when they have holes.
LEMMA HoldsText ==
  ASSUME NEW s \in Seq(PlanNodes), EntireNodes(s)
  PROVE  Holding(s) <=> \E k \in 1 .. Len(s) : s[k].code.text # << >>
<1>1. ASSUME NEW k \in 1 .. Len(s) PROVE s[k].code.params # << >> <=> s[k].code.text # << >>
  <2> DEFINE c == s[k].code
  <2>0. s[k] \in PlanNodes
    OBVIOUS
  <2>1. c \in Codes
    BY <2>0 DEF PlanNodes
  <2>2. Entire(c)
    <3>1. s[k] \in Range(s)
      BY DEF Range
    <3> QED
      BY <3>1 DEF EntireNodes
  <2> HIDE DEF c
  <2>3. (c.params # << >> <=> Len(c.params) # 0) /\ (c.text # << >> <=> Len(c.text) # 0) /\ Len(c.params) \in Nat /\ Len(c.text) \in Nat
    BY <2>1, EmptyCode, CodeFits
  <2>4. Len(c.params) # 0 => Len(c.text) # 0
    <3>1. ASSUME Len(c.params) # 0 PROVE Len(c.text) # 0
      <4>1. 1 \in 1 .. Len(c.params)
        BY <2>3, <3>1
      <4>2. PICK i \in 1 .. Len(c.text) : c.params[1] = c.text[i].val
        BY <2>2, <4>1 DEF Entire
      <4> QED
        BY <2>3, <4>2
    <3> QED
      BY <3>1
  <2>5. Len(c.text) # 0 => Len(c.params) # 0
    <3>1. ASSUME Len(c.text) # 0 PROVE Len(c.params) # 0
      <4>1. 1 \in 1 .. Len(c.text)
        BY <2>3, <3>1
      <4>2. PICK q \in 1 .. Len(c.params) : c.params[q] = c.text[1].val
        BY <2>2, <4>1 DEF Entire
      <4> QED
        BY <2>3, <4>2
    <3> QED
      BY <3>1
  <2> QED
    BY <2>3, <2>4, <2>5 DEF c
<1> QED
  BY <1>1 DEF Holding

\* The params before the WITH clause.
LEMMA BeforeWith ==
  ASSUME NEW p, PlanFits(p)
  PROVE  /\ UnionsOf(p).params \in Seq(Nat) /\ Range(UnionsOf(p).params) = PV(WithoutWith(p))
         /\ UnionsOf(p).params # << >> <=> Holding(WithoutWith(p))
<1> DEFINE s == WithoutWith(p)
           c == Clause(<< >>, s)
           u == UnionsOf(p).params
<1>1. GoodNodes(s) /\ s \in Seq(PlanNodes)
  BY SelectGathers DEF AllGather, Gathers, GoodNodes
<1> HIDE DEF s
<1>2. c.params = u
  <2>1. AllIs(p)
    BY AllMeans
  <2> DEFINE tt == JsonOf(p).text \o FromOf(p).text \o FtsOf(p).text \o WhereOf(p).text \o HavingOf(p).text \o UnionsOf(p).text
  <2>2. c = [text |-> tt, params |-> u]
    BY <2>1 DEF AllIs, s
  <2> HIDE DEF c, u, tt
  <2> QED
    BY <2>2, CodeParts, Zenon
<1>3. ClauseHas(<< >>, s, c) /\ Linear(c, s, Len(s))
  <2>1. << >> \in Seq(Nat)
    OBVIOUS
  <2> QED
    BY <1>1, <2>1, ClauseHasRight, LinearRight
<1> HIDE DEF c, u
<1>4. PICK w \in Seq(Nat) : c.params = << >> \o w /\ Range(w) = PV(s)
  BY <1>3 DEF ClauseHas
<1>5. c.params = w
  BY <1>4, ConcatEmptySeq
<1>6. c.params # << >> <=> Holding(s)
  BY <1>3 DEF Linear, LinearVals, Holding
<1>7. c.params \in Seq(Nat)
  BY <1>3, CodeFits DEF ClauseHas
<1> QED
  BY <1>2, <1>4, <1>5, <1>6, <1>7 DEF s, u

\* A WITH clause with values beside others: its text goes first, its params last.
LEMMA WithGoesFirst ==
  ASSUME NEW p, PlanFits(p), Plain(p), Entire(AllOf(p)), WithTooMany(p)
  PROVE  Strays(CompileSelect(p)) /\ ~Bound(CompileSelect(p), "positional")
<1> DEFINE c == CompileSelect(p)
           u == UnionsOf(p).params
           m == Len(u)
<1>1. Agree(c, AllOf(p)) /\ c.text = PlainText(p) /\ c.params = WithOf(p).params
  BY PlainAgrees
<1>2. u \in Seq(Nat) /\ Range(u) = PV(WithoutWith(p)) /\ u # << >>
  BY BeforeWith DEF WithTooMany
<1>3. m \in Nat /\ m >= 1 /\ u[1] \in PV(WithoutWith(p))
  <2> HIDE DEF u
  <2>1. m \in Nat /\ m # 0 /\ DOMAIN u = 1 .. m
    BY <1>2
  <2>2. u[1] \in Range(u)
    BY <2>1 DEF Range
  <2> QED
    BY <1>2, <2>1, <2>2
<1>4. PICK node : p.with = <<node>> /\ node.kind = "plan"
  <2>1. p.with # << >>
    BY NoNodes DEF WithTooMany
  <2> QED
    BY <2>1 DEF PlanFits
<1>5. p.with \in Seq(PlanNodes) /\ GoodNodes(p.with) /\ EntireNodes(p.with)
  <2>1. "with" \in ClauseNames
    BY DEF ClauseNames
  <2>2. EntireNodes(SelectNodes(p))
    BY AllBinds
  <2>3. EntireNodes(p["with"]) /\ GoodNodes(p["with"])
    BY <2>1, <2>2, SelectGathers DEF AllGather, Gathers, PlanFits
  <2> QED
    BY <2>3 DEF GoodNodes
<1> DEFINE b == node.code
           x == b.text
           y == b.params
<1>6. node \in PlanNodes /\ Good(b) /\ Entire(b) /\ b \in Codes
  <2>1. Len(p.with) = 1 /\ p.with[1] = node /\ 1 \in 1 .. 1
    BY <1>4
  <2>2. node \in PlanNodes /\ GoodNode(node)
    BY <1>5, <2>1 DEF GoodNodes
  <2>3. node \in Range(p.with)
    BY <1>4 DEF Range
  <2> QED
    BY <1>5, <2>2, <2>3 DEF EntireNodes, GoodNode, Good
<1>7. x \in Seq(Hole) /\ y \in Seq(Nat) /\ x # << >>
  <2>1. x \in Seq(Hole) /\ y \in Seq(Nat)
    BY <1>6, CodeFits
  <2>2. \E k \in 1 .. Len(p.with) : p.with[k].code.text # << >>
    BY <1>5, HoldsText DEF WithTooMany
  <2>3. Len(p.with) = 1 /\ p.with[1] = node
    BY <1>4
  <2> QED
    BY <2>1, <2>2, <2>3
<1>8. WithOf(p) = [text |-> << >> \o x, params |-> u \o y]
  <2>1. WithOf(p) = [text |-> << >> \o NodeText(node, Len(u)), params |-> u \o node.code.params]
    BY <1>4, OneNode DEF WithOf
  <2>2. NodeText(node, Len(u)) = x
    BY <1>4 DEF NodeText
  <2> QED
    BY <2>1, <2>2
<1>9. WithOf(p).text = x /\ WithOf(p).params = u \o y
  <2>1. << >> \o x = x
    BY <1>7, ConcatEmptySeq
  <2> HIDE DEF u, x, y
  <2> QED
    BY <1>8, <2>1
<1>10. x[1].val \in NV(p.with) /\ 1 \in 1 .. Len(x)
  <2>1. Len(x) # 0 /\ Len(x) \in Nat
    <3> HIDE DEF x
    <3> QED
      BY <1>7
  <2>2. 1 \in 1 .. Len(x) /\ x[1].val \in Vals(b)
    BY <2>1 DEF Vals, TextVals
  <2>3. Len(p.with) = 1 /\ p.with[1] = node /\ 1 \in 1 .. 1
    BY <1>4
  <2> QED
    BY <2>2, <2>3 DEF NV
<1>11. ASSUME NEW v \in NV(p.with) PROVE v \notin PV(WithoutWith(p))
  <2>1. Gathers(p, WithoutWith(p), ClauseNames \ {"with"}) /\ "with" \in ClauseNames
    BY SelectGathers DEF AllGather, ClauseNames
  <2>2. ASSUME v \in PV(WithoutWith(p)) PROVE FALSE
    <3>1. PICK a \in ClauseNames \ {"with"} : v \in PV(p[a])
      BY <2>1, <2>2 DEF Gathers
    <3>2. v \in NV(p[a])
      BY <3>1 DEF PV, NV, Vals
    <3>3. v \in NV(p["with"])
      BY <1>11
    <3> QED
      BY <2>1, <3>1, <3>2, <3>3 DEF PlanFits
  <2> QED
    BY <2>2
<1>12. c.text[1] = x[1] /\ 1 \in 1 .. Len(c.text) /\ Len(c.text) \in Nat
  <2> DEFINE rest == JsonOf(p).text \o FromOf(p).text \o WhereOf(p).text \o FtsOf(p).text \o HavingOf(p).text \o UnionsOf(p).text
  <2>1. c.text = x \o rest /\ rest \in Seq(Hole)
    <3> DEFINE H == Seq(Hole)
               a(q, r) == q \o r
               tj == JsonOf(p).text
               tf == FromOf(p).text
               tw == WhereOf(p).text
               ts == FtsOf(p).text
               th == HavingOf(p).text
               tu == UnionsOf(p).text
    <3>1. tj \in H /\ tf \in H /\ tw \in H /\ ts \in H /\ th \in H /\ tu \in H /\ x \in H
      BY <1>7, TextsFit DEF Texts
    <3>2. c.text = a(a(a(a(a(a(x, tj), tf), tw), ts), th), tu)
      BY <1>1, <1>9 DEF PlainText, PutTogether
    <3>3. rest = a(a(a(a(a(tj, tf), tw), ts), th), tu)
      OBVIOUS
    <3>4. (\A q, r \in H : a(q, r) \in H) /\ \A o, q, r \in H : a(a(o, q), r) = a(o, a(q, r))
      BY EmptyJoins, TextsAssociate
    <3>a. a(x, rest) = x \o rest
      OBVIOUS
    <3> HIDE DEF H, a, tj, tf, tw, ts, th, tu, x, c, rest
    <3> DEFINE r2 == a(tj, tf)
    <3>5. r2 \in H /\ a(a(x, tj), tf) = a(x, r2)
      BY <3>1, <3>4
    <3> HIDE DEF r2
    <3> DEFINE r3 == a(r2, tw)
    <3>6. r3 \in H /\ a(a(x, r2), tw) = a(x, r3)
      BY <3>1, <3>4, <3>5
    <3> HIDE DEF r3
    <3> DEFINE r4 == a(r3, ts)
    <3>7. r4 \in H /\ a(a(x, r3), ts) = a(x, r4)
      BY <3>1, <3>4, <3>6
    <3> HIDE DEF r4
    <3> DEFINE r5 == a(r4, th)
    <3>8. r5 \in H /\ a(a(x, r4), th) = a(x, r5)
      BY <3>1, <3>4, <3>7
    <3> HIDE DEF r5
    <3>9. a(r5, tu) \in H /\ a(a(x, r5), tu) = a(x, a(r5, tu))
      BY <3>1, <3>4, <3>8
    <3>r. rest = a(r5, tu)
      BY <3>3 DEF r5, r4, r3, r2
    <3>10. c.text = a(x, rest)
      BY <3>2, <3>5, <3>6, <3>7, <3>8, <3>9, <3>r, Zenon
    <3> QED
      BY <3>9, <3>10, <3>r, <3>a DEF H
  <2> HIDE DEF rest, x, c
  <2>2. ConcatRight(Hole, x, rest, x \o rest, Len(x), Len(rest))
    BY <1>7, <2>1, ConcatPlaces
  <2>3. c.text[1] = x[1] /\ Len(c.text) = Len(x) + Len(rest) /\ Len(x) \in Nat /\ Len(rest) \in Nat
    BY <1>10, <2>1, <2>2 DEF ConcatRight
  <2> QED
    BY <1>10, <2>3
<1>13. ConcatRight(Nat, u, y, c.params, m, Len(y))
  <2> HIDE DEF u, y
  <2>1. ConcatRight(Nat, u, y, u \o y, Len(u), Len(y))
    BY <1>2, <1>7, ConcatPlaces
  <2> QED
    BY <1>1, <1>9, <2>1
<1>14. ~Bound(c, "positional")
  <2>0. 1 \in 1 .. m
    BY <1>3
  <2>1. c.params[1] = u[1]
    <3> HIDE DEF u, m, c, y
    <3> QED
      BY <2>0, <1>13 DEF ConcatRight
  <2>2. x[1].val # u[1]
    BY <1>3, <1>10, <1>11
  <2> HIDE DEF c, u, x
  <2> QED
    BY <1>12, <2>1, <2>2 DEF Bound
<1>15. PICK r \in 1 .. Len(y) : y[r] = x[1].val
  BY <1>6, <1>10 DEF Entire
<1>16. m + r \in 1 .. Len(c.params) /\ c.params[m + r] = x[1].val /\ r \in Nat /\ r >= 1
  <2> HIDE DEF u, m, c, x, y
  <2>1. Len(y) \in Nat /\ Len(c.params) = m + Len(y) /\ c.params[m + r] = y[r] /\ m + r \in 1 .. m + Len(y)
    BY <1>13 DEF ConcatRight
  <2> QED
    BY <1>15, <2>1
<1>17. Number(c.text, 1) < m + r
  <2>1. CASE c.text[1].num = 0
    <3>1. Number(c.text, 1) = Zeros(c.text, 1)
      BY <2>1 DEF Number, Zeros
    <3>2. Zeros(c.text, 0) = 0 /\ Zeros(c.text, 0 + 1) = Zeros(c.text, 0) + (IF c.text[0 + 1].num = 0 THEN 1 ELSE 0)
      BY ZerosStep
    <3> HIDE DEF c
    <3>3. Zeros(c.text, 1) = 1
      BY <2>1, <3>2
    <3> QED
      BY <1>3, <1>16, <3>1, <3>3
  <2>2. CASE c.text[1].num # 0
    <3>1. Number(c.text, 1) = x[1].num
      BY <1>12, <2>2 DEF Number
    <3>2. Low(b) /\ x[1].num # 0
      BY <1>6, <1>12, <2>2 DEF Good
    <3>3. x[1].num <= r
      BY <1>10, <1>15, <3>2 DEF Low
    <3>4. x[1].num \in Nat
      BY <1>6, <1>10, CodeFits
    <3> QED
      BY <1>3, <1>16, <3>1, <3>3, <3>4
  <2> QED
    BY <2>1, <2>2
<1>18. Strays(c)
  <2>1. 1 \in 1 .. Len(c.text) /\ m + r \in 1 .. Len(c.params) /\ c.params[m + r] = c.text[1].val /\ Number(c.text, 1) < m + r
    BY <1>12, <1>16, <1>17
  <2> HIDE DEF c, m
  <2> QED
    BY <2>1 DEF Strays
<1> QED
  BY <1>14, <1>18

-----------------------------------------------------------------------------
\* What a longer sequence keeps.
Begins(a, b) == Len(a) \in Nat /\ Len(b) \in Nat /\ Len(a) <= Len(b) /\ \A i \in 1 .. Len(a) : i \in 1 .. Len(b) /\ b[i] = a[i]

LEMMA JoinBegins ==
  ASSUME NEW S, NEW s \in Seq(S), NEW t \in Seq(S)
  PROVE  Begins(s, s \o t)
<1>1. ConcatRight(S, s, t, s \o t, Len(s), Len(t))
  BY ConcatPlaces
<1> QED
  BY <1>1 DEF Begins, ConcatRight

LEMMA BeginsOn ==
  ASSUME NEW a, NEW b, NEW c, Begins(a, b), Begins(b, c)
  PROVE  Begins(a, c)
BY DEF Begins

LEMMA ClauseBegins ==
  ASSUME NEW b \in Seq(Nat), NEW s, NEW c, ClauseHas(b, s, c)
  PROVE  Begins(b, c.params)
<1>1. PICK w \in Seq(Nat) : c.params = b \o w
  BY DEF ClauseHas
<1> QED
  BY <1>1, JoinBegins

LEMMA ParamsBegin ==
  ASSUME NEW p, PlanFits(p)
  PROVE  Begins(FtsOf(p).params, WithOf(p).params)
<1>1. ClausesRight(p)
  BY ClausesOf
<1>2. /\ FtsOf(p).params \in Seq(Nat) /\ WhereOf(p).params \in Seq(Nat) /\ HavingOf(p).params \in Seq(Nat)
      /\ UnionsOf(p).params \in Seq(Nat)
  BY <1>1, CodeFits DEF ClausesRight, ClauseHas
<1>3. /\ Begins(FtsOf(p).params, WhereOf(p).params) /\ Begins(WhereOf(p).params, HavingOf(p).params)
      /\ Begins(HavingOf(p).params, UnionsOf(p).params) /\ Begins(UnionsOf(p).params, WithOf(p).params)
  BY <1>1, <1>2, ClauseBegins DEF ClausesRight
<1> QED
  BY <1>3, BeginsOn

\* The full text search has a value, and numbered holes.
LEMMA FtsText ==
  ASSUME NEW p, PlanFits(p)
  PROVE  /\ Unmarked(FtsOf(p).text)
         /\ FtsOf(p).text = << >> <=> p.fts = << >>
         /\ p.fts # << >> => /\ Len(FtsOf(p).params) > Len(FromOf(p).params)
                             /\ FtsOf(p).params[Len(FromOf(p).params) + 1] \in PV(p.fts)
<1> DEFINE b == FromOf(p).params
           c == FtsOf(p)
<1>1. p.fts = << >> \/ \E node : p.fts = <<node>> /\ Inserted(node)
  BY DEF PlanFits
<1>2. b \in Seq(Nat)
  BY ClausesOf, CodeFits DEF ClausesRight, ClauseHas
<1>3. CASE p.fts = << >>
  <2>1. c.text = << >>
    BY <1>3, NoNode DEF FtsOf
  <2> QED
    BY <1>3, <2>1, NoTies DEF Unmarked
<1>4. ASSUME NEW node, p.fts = <<node>>, Inserted(node)
      PROVE  /\ Unmarked(c.text) /\ c.text # << >>
             /\ Len(c.params) > Len(b) /\ c.params[Len(b) + 1] \in PV(p.fts)
  <2> DEFINE y == node.code.params
             x == Shifted(node.code.text, Len(b))
  <2>1. node \in PlanNodes /\ GoodNode(node)
    <3>1. GoodNodes(p["fts"]) /\ p["fts"] = <<node>>
      BY <1>4 DEF PlanFits, ClauseNames
    <3>2. Len(<<node>>) = 1 /\ <<node>>[1] = node /\ 1 \in 1 .. 1
      OBVIOUS
    <3> QED
      BY <3>1, <3>2 DEF GoodNodes, GoodNode
  <2>2. y \in Seq(Nat) /\ y # << >> /\ node.code.text = Holes(y, 0) /\ node.kind = "values"
    BY <1>4, <2>1, CodeFits DEF PlanNodes, Inserted, GoodNode
  <2>3. c = [text |-> << >> \o x, params |-> b \o y]
    <3>1. FtsOf(p) = [text |-> << >> \o NodeText(node, Len(b)), params |-> b \o y]
      BY <1>4, OneNode DEF FtsOf
    <3>2. NodeText(node, Len(b)) = x
      BY <2>2 DEF NodeText
    <3> QED
      BY <3>1, <3>2
  <2>4. Len(y) \in Nat /\ Len(y) # 0 /\ Len(b) \in Nat
    <3> HIDE DEF y, b
    <3> QED
      BY <1>2, <2>2
  <2>5. x \in Seq(Hole) /\ Len(x) = Len(y) /\ \A i \in 1 .. Len(x) : x[i].num # 0
    <3> HIDE DEF y, b
    <3> DEFINE k == Len(y)
               o == Len(b)
               t == [i \in 1 .. k |-> [val |-> y[i], num |-> i]]
               f == [i \in 1 .. k |-> [t[i] EXCEPT !.num = IF @ = 0 THEN 0 ELSE @ + o]]
    <3>0. k \in Nat /\ o \in Nat
      BY <2>4
    <3>1. node.code.text = t
      BY <2>2 DEF Holes
    <3>2. Len(t) = k
      BY <3>0
    <3>3. x = f
      BY <3>1, <3>2 DEF Shifted
    <3>4. ASSUME NEW i \in 1 .. k PROVE f[i] \in Hole /\ f[i].num # 0
      <4> DEFINE e == t[i]
                 n == IF e.num = 0 THEN 0 ELSE e.num + o
      <4>1. y[i] \in Nat
        BY <2>2
      <4>2. e = [val |-> y[i], num |-> i]
        OBVIOUS
      <4>3. e \in [val : Nat, num : Nat] /\ e.num = i /\ i # 0 /\ i \in Nat
        BY <3>0, <4>1, <4>2
      <4>4. n \in Nat /\ n # 0
        BY <3>0, <4>3
      <4>5. f[i] = [e EXCEPT !.num = n]
        OBVIOUS
      <4> HIDE DEF f, e, n
      <4>6. f[i] \in [val : Nat, num : Nat] /\ f[i].num = n
        BY <4>3, <4>4, <4>5
      <4> QED
        BY <4>4, <4>6 DEF Hole
    <3>5. DOMAIN f = 1 .. k
      OBVIOUS
    <3> HIDE DEF f
    <3>6. f \in Seq(Hole) /\ Len(f) = k
      <4>1. f \in [1 .. k -> Hole]
        BY <3>3, <3>4, <3>5 DEF Shifted
      <4> QED
        BY <3>0, <4>1
    <3> QED
      BY <3>3, <3>4, <3>6
  <2> HIDE DEF x, c
  <2>6. c.text = x
    <3>1. << >> \o x = x
      BY <2>5, ConcatEmptySeq
    <3> QED
      BY <2>3, <3>1
  <2>7. Unmarked(x) /\ x # << >>
    <3>1. AllZeros(x) = 0 /\ \A z, q : Ties(x, z) = Ties(x, q)
      BY <2>5, NumberedTies
    <3>2. x # << >>
      BY <2>4, <2>5
    <3> QED
      BY <3>1, <3>2 DEF Unmarked
  <2>8. Len(c.params) > Len(b) /\ c.params[Len(b) + 1] = y[1] /\ 1 \in 1 .. Len(y)
    <3> HIDE DEF y, b
    <3>1. ConcatRight(Nat, b, y, b \o y, Len(b), Len(y))
      BY <1>2, <2>2, ConcatPlaces
    <3>2. c.params = b \o y
      BY <2>3
    <3>3. 1 \in 1 .. Len(y)
      BY <2>4
    <3> QED
      BY <2>4, <3>1, <3>2, <3>3 DEF ConcatRight
  <2>9. y[1] \in PV(p.fts)
    <3>1. y[1] \in Range(y)
      <4>1. DOMAIN y = 1 .. Len(y)
        <5> HIDE DEF y
        <5> QED
          BY <2>2
      <4> QED
        BY <2>8, <4>1 DEF Range
    <3>2. Len(p.fts) = 1 /\ p.fts[1] = node /\ 1 \in 1 .. 1
      BY <1>4
    <3> QED
      BY <3>1, <3>2 DEF PV
  <2> QED
    BY <2>6, <2>7, <2>8, <2>9
<1> HIDE DEF b, c
<1> QED
  BY <1>1, <1>3, <1>4 DEF b, c

\* With positional holes, filters between the search and its value.
LEMMA FtsOutOfPlace ==
  ASSUME NEW p, PlanFits(p), Plain(p), Entire(AllOf(p)), WithOf(p).text = << >>, p.fts # << >>, WhereOf(p).text # << >>
  PROVE  ~Bound(CompileSelect(p), "positional")
<1> DEFINE c == CompileSelect(p)
           d == Clause(<< >>, FirstTwo(p))
           a == d.text
           b == FromOf(p).params
           w == WhereOf(p).text
           n == Len(b)
<1>1. c.text = PlainText(p) /\ c.params = WithOf(p).params
  BY PlainAgrees
<1>2. GoodNodes(FirstTwo(p)) /\ EntireNodes(FirstTwo(p))
  <2>1. EntireNodes(SelectNodes(p))
    BY AllBinds
  <2> QED
    BY <2>1, SelectGathers DEF AllGather, Gathers, ClauseNames
<1>3. Good(d) /\ Entire(d)
  <2> DEFINE s == FirstTwo(p)
  <2> HIDE DEF s
  <2>1. GoodNodes(s) /\ EntireNodes(s) /\ s \in Seq(PlanNodes)
    BY <1>2 DEF s, GoodNodes
  <2>2. Linear(Clause(<< >>, s), s, Len(s))
    BY <2>1, LinearRight
  <2>3. \A k \in 1 .. Len(s) : Entire(s[k].code)
    <3>1. DOMAIN s = 1 .. Len(s)
      BY <2>1
    <3> QED
      BY <2>1, <3>1 DEF EntireNodes, Range
  <2>4. Good(Clause(<< >>, s)) /\ Entire(Clause(<< >>, s))
    BY <2>2, <2>3 DEF Linear, LinearBinds
  <2> QED
    BY <2>4 DEF s
<1>4. a = JsonOf(p).text \o FromOf(p).text /\ d.params = b
  <2>1. d = [text |-> JsonOf(p).text \o FromOf(p).text, params |-> b]
    BY AllMeans DEF AllIs
  <2> HIDE DEF d, b
  <2> QED
    BY <2>1, CodeParts, Zenon
<1>5. a \in Seq(Hole) /\ b \in Seq(Nat) /\ Len(a) = n /\ n \in Nat
  <2>1. d \in Codes /\ OncePlaced(d)
    BY <1>3 DEF Good
  <2>2. Len(d.text) = Len(d.params)
    BY <1>3, <2>1, EntireLengths
  <2> HIDE DEF d
  <2> QED
    BY <1>4, <2>1, <2>2, CodeFits
<1>6. w \in Seq(Hole) /\ Len(w) \in Nat /\ Len(w) # 0 /\ 1 \in 1 .. Len(w)
  <2>1. w \in Seq(Hole) /\ w # << >>
    BY TextsFit DEF Texts
  <2> HIDE DEF w
  <2> QED
    BY <2>1
<1>7. Begins(a \o w, c.text)
  <2> DEFINE H == Seq(Hole)
             j == JsonOf(p).text
             f == FromOf(p).text
             s == FtsOf(p).text
             h == HavingOf(p).text
             u == UnionsOf(p).text
             aw == a \o w
             r == aw \o s
             t == r \o h
  <2>1. j \in H /\ f \in H /\ s \in H /\ h \in H /\ u \in H /\ w \in H
    BY TextsFit DEF Texts
  <2>2. c.text = ((((((<< >> \o j) \o f) \o w) \o s) \o h) \o u)
    BY <1>1 DEF PlainText, PutTogether
  <2>3. << >> \o j = j
    BY <2>1, EmptyJoins
  <2>4. c.text = (((((j \o f) \o w) \o s) \o h) \o u)
    BY <2>2, <2>3, Zenon
  <2>5. c.text = t \o u
    BY <1>4, <2>4
  <2> HIDE DEF c, a, j, f, s, h, u, w
  <2>6. aw \in Seq(Hole)
    BY <1>5, <2>1, EmptyJoins
  <2> HIDE DEF aw
  <2>7. r \in Seq(Hole) /\ Begins(aw, r)
    BY <2>1, <2>6, EmptyJoins, JoinBegins
  <2> HIDE DEF r
  <2>8. t \in Seq(Hole) /\ Begins(r, t)
    BY <2>1, <2>7, EmptyJoins, JoinBegins
  <2> HIDE DEF t
  <2>9. Begins(t, t \o u)
    BY <2>1, <2>8, JoinBegins
  <2>10. Begins(aw, c.text)
    BY <2>5, <2>7, <2>8, <2>9, BeginsOn
  <2> QED
    BY <2>10 DEF aw
<1>8. c.text[n + 1] = w[1] /\ n + 1 \in 1 .. Len(c.text)
  <2> HIDE DEF a, w, n, c
  <2>1. ConcatRight(Hole, a, w, a \o w, Len(a), Len(w))
    BY <1>5, <1>6, ConcatPlaces
  <2>2. n + 1 \in 1 .. Len(a \o w) /\ (a \o w)[n + 1] = w[1]
    BY <1>5, <1>6, <2>1 DEF ConcatRight
  <2> QED
    BY <1>7, <2>2 DEF Begins
<1>9. c.params[n + 1] \in PV(p.fts)
  <2>1. Len(FtsOf(p).params) > n /\ FtsOf(p).params[n + 1] \in PV(p.fts)
    BY FtsText
  <2>2. Begins(FtsOf(p).params, c.params)
    BY <1>1, ParamsBegin
  <2> HIDE DEF c, n
  <2>3. n + 1 \in 1 .. Len(FtsOf(p).params)
    BY <1>5, <2>1, <2>2 DEF Begins
  <2> QED
    BY <2>1, <2>2, <2>3 DEF Begins
<1>10. w[1].val \in NV(WhereNodes(p))
  <2>1. ClauseHas(FtsOf(p).params, WhereNodes(p), WhereOf(p))
    BY ClausesOf DEF ClausesRight
  <2>2. w[1].val \in TextVals(WhereOf(p))
    BY <1>6 DEF TextVals
  <2> QED
    BY <2>1, <2>2 DEF ClauseHas
<1>11. \A v : v \in PV(p.fts) => v \notin NV(WhereNodes(p))
  <2>1. ASSUME NEW v, v \in PV(p.fts), v \in NV(WhereNodes(p)) PROVE FALSE
    <3>1. PICK x \in {"filters", "rawFilters"} : v \in NV(p[x])
      BY <2>1, SelectGathers DEF AllGather, Gathers
    <3>2. v \in NV(p["fts"])
      BY <2>1 DEF PV, NV, Vals
    <3>3. x # "fts" /\ x \in ClauseNames /\ "fts" \in ClauseNames
      BY DEF ClauseNames
    <3> QED
      BY <3>1, <3>2, <3>3 DEF PlanFits
  <2> QED
    BY <2>1
<1> HIDE DEF c, w, n
<1>12. c.params[n + 1] # c.text[n + 1].val
  BY <1>8, <1>9, <1>10, <1>11
<1> QED
  BY <1>8, <1>12 DEF Bound, c

-----------------------------------------------------------------------------
\* Clauses whose nodes all bind entirely have text if they hold values.
LEMMA ClauseText ==
  ASSUME NEW p, PlanFits(p), Entire(AllOf(p))
  PROVE  /\ WithOf(p).text # << >> <=> Holding(p.with)
         /\ WhereOf(p).text # << >> <=> Holding(WhereNodes(p))
         /\ ~Holding(WithoutWith(p)) => /\ JsonOf(p).text = << >> /\ FromOf(p).text = << >> /\ FtsOf(p).text = << >>
                                        /\ WhereOf(p).text = << >> /\ HavingOf(p).text = << >> /\ UnionsOf(p).text = << >>
<1>1. \A a \in ClauseNames : EntireNodes(p[a]) /\ p[a] \in Seq(PlanNodes)
  <2>1. EntireNodes(SelectNodes(p))
    BY AllBinds
  <2> QED
    BY <2>1, SelectGathers DEF AllGather, Gathers, PlanFits, GoodNodes
<1>2. WhereNodes(p) \in Seq(PlanNodes) /\ EntireNodes(WhereNodes(p))
      /\ (Holding(WhereNodes(p)) <=> Holding(p.filters) \/ Holding(p.rawFilters))
  <2>1. Gathers(p, WhereNodes(p), {"filters", "rawFilters"})
    BY SelectGathers DEF AllGather
  <2>2. EntireNodes(WhereNodes(p)) <=> \A a \in {"filters", "rawFilters"} : EntireNodes(p[a])
    BY <2>1 DEF Gathers
  <2>3. Holding(WhereNodes(p)) <=> \E a \in {"filters", "rawFilters"} : Holding(p[a])
    BY <2>1 DEF Gathers
  <2>4. EntireNodes(p["filters"]) /\ EntireNodes(p["rawFilters"])
    BY <1>1 DEF ClauseNames
  <2>5. EntireNodes(WhereNodes(p))
    BY <2>2, <2>4
  <2>6. Holding(WhereNodes(p)) <=> Holding(p.filters) \/ Holding(p.rawFilters)
    BY <2>3
  <2> QED
    BY <2>5, <2>6, ClausesOf DEF PlanClausesFit
<1>3. ASSUME NEW b, NEW s \in Seq(PlanNodes), NEW c, EntireNodes(s), ClauseHas(b, s, c)
      PROVE  c.text # << >> <=> Holding(s)
  BY <1>3, HoldsText DEF ClauseHas
<1>4. /\ p.jsonOps \in Seq(PlanNodes) /\ EntireNodes(p.jsonOps) /\ p.fromSubquery \in Seq(PlanNodes) /\ EntireNodes(p.fromSubquery)
      /\ p.fts \in Seq(PlanNodes) /\ EntireNodes(p.fts) /\ p.having \in Seq(PlanNodes) /\ EntireNodes(p.having)
      /\ p.unions \in Seq(PlanNodes) /\ EntireNodes(p.unions) /\ p.with \in Seq(PlanNodes) /\ EntireNodes(p.with)
  BY <1>1 DEF ClauseNames
<1>5. /\ JsonOf(p).text # << >> <=> Holding(p.jsonOps)
      /\ FromOf(p).text # << >> <=> Holding(p.fromSubquery)
      /\ FtsOf(p).text # << >> <=> Holding(p.fts)
      /\ WhereOf(p).text # << >> <=> Holding(WhereNodes(p))
      /\ HavingOf(p).text # << >> <=> Holding(p.having)
      /\ UnionsOf(p).text # << >> <=> Holding(p.unions)
      /\ WithOf(p).text # << >> <=> Holding(p.with)
  <2>1. ClausesRight(p)
    BY ClausesOf
  <2>2. JsonOf(p).text # << >> <=> Holding(p.jsonOps)
    BY <1>3, <1>4, <2>1 DEF ClausesRight
  <2>3. FromOf(p).text # << >> <=> Holding(p.fromSubquery)
    BY <1>3, <1>4, <2>1 DEF ClausesRight
  <2>4. FtsOf(p).text # << >> <=> Holding(p.fts)
    BY <1>3, <1>4, <2>1 DEF ClausesRight
  <2>5. WhereOf(p).text # << >> <=> Holding(WhereNodes(p))
    BY <1>2, <1>3, <2>1 DEF ClausesRight
  <2>6. HavingOf(p).text # << >> <=> Holding(p.having)
    BY <1>3, <1>4, <2>1 DEF ClausesRight
  <2>7. UnionsOf(p).text # << >> <=> Holding(p.unions)
    BY <1>3, <1>4, <2>1 DEF ClausesRight
  <2>8. WithOf(p).text # << >> <=> Holding(p.with)
    BY <1>3, <1>4, <2>1 DEF ClausesRight
  <2> QED
    BY <2>2, <2>3, <2>4, <2>5, <2>6, <2>7, <2>8
<1>6. ASSUME ~Holding(WithoutWith(p))
      PROVE  /\ ~Holding(p.jsonOps) /\ ~Holding(p.fromSubquery) /\ ~Holding(p.fts) /\ ~Holding(WhereNodes(p))
             /\ ~Holding(p.having) /\ ~Holding(p.unions)
  <2>1. Gathers(p, WithoutWith(p), ClauseNames \ {"with"})
    BY SelectGathers DEF AllGather
  <2>2. \A a \in ClauseNames \ {"with"} : ~Holding(p[a])
    BY <1>6, <2>1 DEF Gathers
  <2>3. /\ ~Holding(p.jsonOps) /\ ~Holding(p.fromSubquery) /\ ~Holding(p.fts) /\ ~Holding(p.filters) /\ ~Holding(p.rawFilters)
        /\ ~Holding(p.having) /\ ~Holding(p.unions)
    BY <2>2 DEF ClauseNames
  <2> QED
    BY <1>2, <2>3
<1> QED
  BY <1>5, <1>6

LEMMA PlainFine ==
  ASSUME NEW p, PlanFits(p), Plain(p), Entire(AllOf(p)), ~WithTooMany(p)
  PROVE  SelectRight(p)
<1> DEFINE c == CompileSelect(p)
           d == AllOf(p)
           j == JsonOf(p).text
           f == FromOf(p).text
           s == FtsOf(p).text
           w == WhereOf(p).text
           h == HavingOf(p).text
           u == UnionsOf(p).text
           x == WithOf(p).text
<1>1. Agree(c, d) /\ c.text = PlainText(p) /\ c.params = WithOf(p).params
  BY PlainAgrees
<1>2. d.text = AllText(p) /\ d.params = WithOf(p).params
  BY AllIsGood
<1>3. c \in Codes /\ d \in Codes /\ Good(d) /\ OncePlaced(c) /\ Low(c) /\ OncePlaced(d) /\ Vals(c) = Vals(d)
      /\ Range(c.text) = Range(d.text) /\ c.params = d.params
  BY <1>1 DEF Agree, Good
<1>4. /\ j \in Seq(Hole) /\ f \in Seq(Hole) /\ s \in Seq(Hole) /\ w \in Seq(Hole) /\ h \in Seq(Hole)
      /\ u \in Seq(Hole) /\ x \in Seq(Hole)
  BY TextsFit DEF Texts
<1>5. AllText(p) = TextsOf(j, f, s, w, h, u, x) /\ PlainText(p) = PutTogether(j, f, s, w, h, u, x)
  BY DEF AllText, PlainText
<1>6. Unmarked(s) /\ (s = << >> <=> p.fts = << >>)
  BY FtsText
<1>7. (x # << >> <=> Holding(p.with)) /\ (w # << >> <=> Holding(WhereNodes(p)))
      /\ (~Holding(WithoutWith(p)) => j = << >> /\ f = << >> /\ s = << >> /\ w = << >> /\ h = << >> /\ u = << >>)
  BY ClauseText
<1>8. Vals(c) \subseteq NV(SelectNodes(p)) /\ \A style \in Styles : Bound(d, style) <=> ~Astray(SelectNodes(p), style)
  BY <1>3, AllBinds
<1>9. \A style \in Styles : Misplaced(p, style) <=> Astray(SelectNodes(p), style) \/ FtsBefore(p, style)
  BY PlainMisplaced
<1>10. FtsBefore(p, "positional") <=> s # << >> /\ w # << >>
  BY <1>6, <1>7 DEF FtsBefore
<1>11. ~FtsBefore(p, "numbered")
  BY DEF FtsBefore
<1>12. CASE c.text = d.text
  <2>1. c = d
    <3> HIDE DEF c, d
    <3> QED
      BY <1>3, <1>12, CodeFits
  <2>2. ~FtsBefore(p, "positional") \/ ~Bound(c, "positional")
    <3>1. CASE x = << >>
      <4>1. s # << >> /\ w # << >> => ~Bound(c, "positional")
        BY <1>6, <3>1, FtsOutOfPlace
      <4> QED
        BY <1>10, <4>1
    <3>2. CASE x # << >>
      <4>1. ~Holding(WithoutWith(p))
        BY <1>7, <3>2 DEF WithTooMany
      <4>2. s = << >>
        BY <1>7, <4>1
      <4> QED
        BY <1>10, <4>2
    <3> QED
      BY <3>1, <3>2
  <2>3. \A style \in Styles : FtsBefore(p, style) => ~Bound(c, style)
    BY <1>11, <2>2 DEF Styles
  <2> HIDE DEF c, d
  <2>4. \A style \in Styles : Bound(c, style) <=> ~Misplaced(p, style)
    BY <1>8, <1>9, <2>1, <2>3
  <2> QED
    BY <1>3, <1>8, <2>1, <2>4 DEF SelectRight, c
<1>13. CASE c.text # d.text
  <2>1. x = << >> /\ s # << >> /\ w # << >>
    <3>1. /\ x = << >> /\ (s = << >> \/ w = << >>) => c.text = d.text
          /\ j = << >> /\ f = << >> /\ s = << >> /\ w = << >> /\ h = << >> /\ u = << >> => c.text = d.text
      <4>1. /\ x = << >> /\ (s = << >> \/ w = << >>) => TextsOf(j, f, s, w, h, u, x) = PutTogether(j, f, s, w, h, u, x)
            /\ j = << >> /\ f = << >> /\ s = << >> /\ w = << >> /\ h = << >> /\ u = << >> =>
                 TextsOf(j, f, s, w, h, u, x) = PutTogether(j, f, s, w, h, u, x)
        <5> HIDE DEF c, d, j, f, s, w, h, u, x
        <5>1. TextsMeet(j, f, s, w, h, u, x)
          BY <1>4, TextsSame
        <5> QED
          BY <5>1 DEF TextsMeet
      <4>2. d.text = TextsOf(j, f, s, w, h, u, x)
        BY <1>2, <1>5, Zenon
      <4>3. c.text = PutTogether(j, f, s, w, h, u, x)
        BY <1>1, <1>5, Zenon
      <4> HIDE DEF c, d, j, f, s, w, h, u, x
      <4> QED
        BY <4>1, <4>2, <4>3, Zenon
    <3>2. x = << >>
      <4>1. ASSUME x # << >> PROVE FALSE
        <5>1. ~Holding(WithoutWith(p))
          BY <1>7, <4>1 DEF WithTooMany
        <5> HIDE DEF c, d, j, f, s, w, h, u, x
        <5> QED
          BY <1>7, <1>13, <3>1, <5>1
      <4> QED
        BY <4>1
    <3> HIDE DEF c, d, j, f, s, w, h, u, x
    <3> QED
      BY <1>13, <3>1, <3>2
  <2>2. Ties(c.text, 0) = Ties(d.text, 0)
    <3>1. Ties(TextsOf(j, f, s, w, h, u, << >>), 0) = Ties(PutTogether(j, f, s, w, h, u, << >>), 0)
      <4> HIDE DEF c, d, j, f, s, w, h, u, x
      <4> QED
        BY <1>4, <1>6, TextsAlike
    <3>2. d.text = TextsOf(j, f, s, w, h, u, << >>)
      BY <1>2, <1>5, <2>1, Zenon
    <3>3. c.text = PutTogether(j, f, s, w, h, u, << >>)
      BY <1>1, <1>5, <2>1, Zenon
    <3> HIDE DEF c, d, j, f, s, w, h, u, x
    <3> QED
      BY <3>1, <3>2, <3>3, Zenon
  <2>3. ~Bound(c, "positional") /\ FtsBefore(p, "positional")
    BY <1>6, <1>10, <2>1, FtsOutOfPlace
  <2> HIDE DEF c, d, s, w, x
  <2>4. (Bound(c, "numbered") <=> Bound(d, "numbered")) /\ (Strays(c) <=> Strays(d))
    BY <1>3, <2>2, SameTies
  <2>5. Good(c)
    BY <1>3, <2>4 DEF Good
  <2>6. \A style \in Styles : Bound(c, style) <=> ~Misplaced(p, style)
    BY <1>8, <1>9, <1>11, <2>3, <2>4 DEF Styles
  <2> QED
    BY <1>8, <2>5, <2>6 DEF SelectRight, c
<1> QED
  BY <1>12, <1>13

LEMMA PlainRight ==
  ASSUME NEW p, PlanFits(p), Plain(p)
  PROVE  SelectRight(p)
<1>1. CASE ~Entire(AllOf(p))
  BY <1>1, PlainWrong
<1>2. CASE Entire(AllOf(p)) /\ ~WithTooMany(p)
  BY <1>2, PlainFine
<1>3. CASE Entire(AllOf(p)) /\ WithTooMany(p)
  <2> DEFINE c == CompileSelect(p)
  <2>1. Agree(c, AllOf(p))
    BY PlainAgrees
  <2>2. Strays(c) /\ ~Bound(c, "positional")
    BY <1>3, WithGoesFirst
  <2> HIDE DEF c
  <2>3. c \in Codes /\ OncePlaced(c) /\ Low(c) /\ Vals(c) = Vals(AllOf(p))
    BY <2>1 DEF Agree
  <2>4. ~Bound(c, "numbered")
    BY <2>2, <2>3, StraysUnbound
  <2>5. \A style \in Styles : ~Bound(c, style)
    BY <2>2, <2>4 DEF Styles
  <2>6. \A style \in Styles : Misplaced(p, style)
    BY <1>3, PlainMisplaced
  <2>7. Vals(c) \subseteq NV(SelectNodes(p))
    BY <2>3, AllBinds
  <2> QED
    BY <2>2, <2>3, <2>5, <2>6, <2>7 DEF SelectRight, Good, c
<1> QED
  BY <1>1, <1>2, <1>3

-----------------------------------------------------------------------------
\* Where the holes of a statement come from.
HolesFrom(j, s, w, h, u, x) ==
  \A v \in Range(PutTogether(j, << >>, s, w, h, u, x)) :
    v \in Range(j) \/ v \in Range(s) \/ v \in Range(w) \/ v \in Range(h) \/ v \in Range(u) \/ v \in Range(x)
LEMMA PutTogetherHoles ==
  ASSUME NEW j \in Seq(Hole), NEW s \in Seq(Hole), NEW w \in Seq(Hole),
         NEW h \in Seq(Hole), NEW u \in Seq(Hole), NEW x \in Seq(Hole)
  PROVE  HolesFrom(j, s, w, h, u, x)
<1> DEFINE H == Seq(Hole)
           a(p, q) == p \o q
           r(p) == Range(p)
           e == << >>
           whole == a(a(a(a(a(a(x, j), e), w), s), h), u)
<1>1. \A p, q \in H : a(p, q) \in H /\ r(a(p, q)) = r(p) \cup r(q)
  BY RangeJoin
<1>2. j \in H /\ s \in H /\ w \in H /\ h \in H /\ u \in H /\ x \in H /\ e \in H /\ r(e) = {}
  BY NoTies
<1>3. PutTogether(j, << >>, s, w, h, u, x) = whole
  BY DEF PutTogether
<1> HIDE DEF H, a, r, e
<1> DEFINE z1 == a(x, j)
           z2 == a(z1, e)
           z3 == a(z2, w)
           z4 == a(z3, s)
           z5 == a(z4, h)
           z6 == a(z5, u)
<1>4. whole = z6
  OBVIOUS
<1>5. z1 \in H /\ r(z1) = r(x) \cup r(j)
  BY <1>1, <1>2
<1> HIDE DEF z1
<1>6. z2 \in H /\ r(z2) = r(z1) \cup r(e)
  BY <1>1, <1>2, <1>5
<1> HIDE DEF z2
<1>7. z3 \in H /\ r(z3) = r(z2) \cup r(w)
  BY <1>1, <1>2, <1>6
<1> HIDE DEF z3
<1>8. z4 \in H /\ r(z4) = r(z3) \cup r(s)
  BY <1>1, <1>2, <1>7
<1> HIDE DEF z4
<1>9. z5 \in H /\ r(z5) = r(z4) \cup r(h)
  BY <1>1, <1>2, <1>8
<1> HIDE DEF z5
<1>10. z6 \in H /\ r(z6) = r(z5) \cup r(u)
  BY <1>1, <1>2, <1>9
<1> HIDE DEF z6
<1>11. \A v \in r(z6) : v \in r(j) \/ v \in r(s) \/ v \in r(w) \/ v \in r(h) \/ v \in r(u) \/ v \in r(x)
  BY <1>2, <1>5, <1>6, <1>7, <1>8, <1>9, <1>10
<1> QED
  BY <1>3, <1>4, <1>11 DEF r, HolesFrom

\* Part of a code, from the left, that is as good but for what it lacks.
LEMMA BegunCode ==
  ASSUME NEW c \in Codes, NEW d \in Codes, Begins(c.text, d.text), c.params = d.params, OncePlaced(d), Low(d)
  PROVE  OncePlaced(c) /\ Low(c) /\ Vals(c) \subseteq Vals(d)
<1>1. \A i \in 1 .. Len(c.text) : i \in 1 .. Len(d.text) /\ c.text[i] = d.text[i]
  BY DEF Begins
<1>2. OncePlaced(c)
  BY <1>1 DEF OncePlaced
<1>3. Low(c)
  BY <1>1 DEF Low
<1>4. TextVals(c) \subseteq TextVals(d)
  BY <1>1 DEF TextVals
<1> QED
  BY <1>2, <1>3, <1>4 DEF Vals

\* A FROM source with values that the full text search takes the place of.
LEMMA FtsReplaces ==
  ASSUME NEW p, PlanFits(p), ~p.deny, p.fts5, Holding(p.fromSubquery)
  PROVE  SelectRight(p)
<1> DEFINE c == CompileSelect(p)
           t == PutTogether(JsonOf(p).text, << >>, FtsOf(p).text, WhereOf(p).text, HavingOf(p).text, UnionsOf(p).text, WithOf(p).text)
           m == WithOf(p).params
           d == [text |-> t \o FromOf(p).text, params |-> m]
<1>1. c = [text |-> t, params |-> m]
  BY SelectMeans DEF SelectIs, PutTogether
<1>2. Good(AllOf(p)) /\ AllOf(p) \in Codes /\ AllOf(p).text = AllText(p) /\ AllOf(p).params = m
  BY AllIsGood
<1>3. SameText(AllText(p), t \o FromOf(p).text)
  BY TextsFit, TextsRange DEF Texts, AllText
<1>4. t \in Seq(Hole) /\ FromOf(p).text \in Seq(Hole) /\ m \in Seq(Nat)
  <2> DEFINE H == Seq(Hole)
             j == JsonOf(p).text
             s == FtsOf(p).text
             w == WhereOf(p).text
             h == HavingOf(p).text
             u == UnionsOf(p).text
             x == WithOf(p).text
             e == << >>
  <2>1. j \in H /\ s \in H /\ w \in H /\ h \in H /\ u \in H /\ x \in H /\ e \in H
    BY TextsFit, EmptyJoins DEF Texts
  <2>2. t = (((((x \o j) \o e) \o w) \o s) \o h) \o u
    BY DEF PutTogether
  <2>3. \A q, r \in H : (q \o r) \in H
    BY EmptyJoins
  <2> HIDE DEF H, j, s, w, h, u, x, e, t
  <2>4. t \in H
    BY <2>1, <2>2, <2>3
  <2> QED
    BY <2>4, TextsFit DEF H, Texts
<1>5. c.text = t /\ c.params = m /\ d.text = t \o FromOf(p).text /\ d.params = m
  <2> HIDE DEF c, t, m
  <2> QED
    BY <1>1
<1>6. c \in Codes /\ d \in Codes /\ Begins(c.text, d.text)
  <2> HIDE DEF t, m
  <2>1. (t \o FromOf(p).text) \in Seq(Hole) /\ Begins(t, t \o FromOf(p).text)
    BY <1>4, JoinBegins, EmptyJoins
  <2> HIDE DEF c
  <2> QED
    BY <1>1, <1>4, <1>5, <2>1 DEF Codes
<1> HIDE DEF c, d, t, m
<1>7. Range(d.text) = Range(AllOf(p).text) /\ Len(d.text) = Len(AllOf(p).text) /\ d.params = AllOf(p).params
  BY <1>2, <1>3, <1>5 DEF SameText
<1>8. OncePlaced(d) /\ Low(d) /\ Vals(d) = Vals(AllOf(p))
  <2>1. (Low(AllOf(p)) <=> Low(d)) /\ Vals(AllOf(p)) = Vals(d)
    BY <1>2, <1>6, <1>7, SameHoles
  <2>2. OncePlaced(AllOf(p)) /\ Low(AllOf(p))
    BY <1>2 DEF Good
  <2>3. OncePlaced(d)
    BY <1>2, <1>6, <1>7, <2>2, SameOnce
  <2> QED
    BY <2>1, <2>2, <2>3
<1>9. OncePlaced(c) /\ Low(c) /\ Vals(c) \subseteq NV(SelectNodes(p))
  <2>1. OncePlaced(c) /\ Low(c) /\ Vals(c) \subseteq Vals(d)
    BY <1>5, <1>6, <1>8, BegunCode
  <2> QED
    BY <1>8, <2>1, AllBinds
<1>10. PICK v : v \in PV(p.fromSubquery)
  <2>1. PICK k \in 1 .. Len(p.fromSubquery) : p.fromSubquery[k].code.params # << >>
    BY DEF Holding
  <2>2. p.fromSubquery \in Seq(PlanNodes)
    BY ClausesOf DEF PlanClausesFit
  <2> DEFINE y == p.fromSubquery[k].code.params
  <2>3. y \in Seq(Nat) /\ y # << >>
    <3>1. p.fromSubquery[k] \in PlanNodes
      BY <2>2
    <3> QED
      BY <2>1, <3>1, CodeFits DEF PlanNodes
  <2> HIDE DEF y
  <2>4. y[1] \in Range(y)
    <3>1. 1 \in 1 .. Len(y) /\ DOMAIN y = 1 .. Len(y)
      BY <2>3
    <3> QED
      BY <3>1 DEF Range
  <2> QED
    BY <2>4 DEF PV, y
<1>11. PICK q \in 1 .. Len(c.params) : c.params[q] = v
  <2>1. GoodNodes(SelectNodes(p)) /\ SelectNodes(p) \in Seq(PlanNodes) /\ << >> \in Seq(Nat)
    BY SelectGathers DEF AllGather, Gathers, GoodNodes
  <2>2. ClauseHas(<< >>, SelectNodes(p), AllOf(p))
    BY <2>1, ClauseHasRight DEF AllOf
  <2>3. PICK y \in Seq(Nat) : AllOf(p).params = << >> \o y /\ Range(y) = PV(SelectNodes(p))
    BY <2>2 DEF ClauseHas
  <2>4. c.params = y
    BY <1>2, <1>5, <2>3, ConcatEmptySeq
  <2>5. v \in PV(SelectNodes(p))
    <3>1. Gathers(p, SelectNodes(p), ClauseNames)
      BY SelectGathers DEF AllGather
    <3>2. v \in PV(p["fromSubquery"]) /\ "fromSubquery" \in ClauseNames
      BY <1>10 DEF ClauseNames
    <3> QED
      BY <3>1, <3>2 DEF Gathers
  <2>6. DOMAIN y = 1 .. Len(y)
    BY <2>3
  <2> QED
    BY <2>3, <2>4, <2>5, <2>6 DEF Range
<1>12. ASSUME NEW i \in 1 .. Len(c.text) PROVE c.text[i].val # v
  <2>1. c.text[i] \in Range(t)
    <3>1. DOMAIN t = 1 .. Len(t)
      BY <1>4
    <3> QED
      BY <1>5, <3>1 DEF Range
  <2>2. \E k \in {JsonOf(p), FtsOf(p), WhereOf(p), HavingOf(p), UnionsOf(p), WithOf(p)} : c.text[i] \in Range(k.text)
    <3>1. \A x \in Range(t) : x \in Range(JsonOf(p).text) \/ x \in Range(FtsOf(p).text) \/ x \in Range(WhereOf(p).text)
                                \/ x \in Range(HavingOf(p).text) \/ x \in Range(UnionsOf(p).text) \/ x \in Range(WithOf(p).text)
      <4> DEFINE j == JsonOf(p).text
                 s == FtsOf(p).text
                 w == WhereOf(p).text
                 h == HavingOf(p).text
                 u == UnionsOf(p).text
                 x == WithOf(p).text
      <4>1. j \in Seq(Hole) /\ s \in Seq(Hole) /\ w \in Seq(Hole) /\ h \in Seq(Hole) /\ u \in Seq(Hole) /\ x \in Seq(Hole)
        BY TextsFit DEF Texts
      <4>2. t = PutTogether(j, << >>, s, w, h, u, x)
        BY DEF t
      <4> HIDE DEF j, s, w, h, u, x
      <4>3. \A e \in Range(PutTogether(j, << >>, s, w, h, u, x)) :
              e \in Range(j) \/ e \in Range(s) \/ e \in Range(w) \/ e \in Range(h) \/ e \in Range(u) \/ e \in Range(x)
        <5>1. HolesFrom(j, s, w, h, u, x)
          BY <4>1, PutTogetherHoles
        <5> QED
          BY <5>1 DEF HolesFrom
      <4> QED
        BY <4>2, <4>3 DEF j, s, w, h, u, x
    <3> QED
      BY <2>1, <3>1
  <2>3. PICK k \in {JsonOf(p), FtsOf(p), WhereOf(p), HavingOf(p), UnionsOf(p), WithOf(p)} : c.text[i] \in Range(k.text)
    BY <2>2
  <2>4. c.text[i].val \in TextVals(k)
    <3>1. k \in Codes
      BY ClausesOf DEF ClausesRight, ClauseHas
    <3>2. DOMAIN k.text = 1 .. Len(k.text)
      BY <3>1, CodeFits
    <3> QED
      BY <2>3, <3>2 DEF Range, TextVals
  <2>5. \E a \in ClauseNames \ {"fromSubquery"} : c.text[i].val \in NV(p[a])
    <3>1. /\ TextVals(JsonOf(p)) \subseteq NV(p.jsonOps) /\ TextVals(FtsOf(p)) \subseteq NV(p.fts)
          /\ TextVals(WhereOf(p)) \subseteq NV(WhereNodes(p)) /\ TextVals(HavingOf(p)) \subseteq NV(p.having)
          /\ TextVals(UnionsOf(p)) \subseteq NV(p.unions) /\ TextVals(WithOf(p)) \subseteq NV(p.with)
      BY ClausesOf DEF ClausesRight, ClauseHas
    <3>2. \A x \in NV(WhereNodes(p)) : x \in NV(p.filters) \/ x \in NV(p.rawFilters)
      <4>1. \A x \in NV(WhereNodes(p)) : \E a \in {"filters", "rawFilters"} : x \in NV(p[a])
        BY SelectGathers DEF AllGather, Gathers
      <4> QED
        BY <4>1
    <3>3. \E x \in {p.jsonOps, p.fts, p.filters, p.rawFilters, p.having, p.unions, p.with} : c.text[i].val \in NV(x)
      BY <2>3, <2>4, <3>1, <3>2
    <3>4. \A x \in {p.jsonOps, p.fts, p.filters, p.rawFilters, p.having, p.unions, p.with} :
            \E a \in ClauseNames \ {"fromSubquery"} : x = p[a]
      BY DEF ClauseNames
    <3> QED
      BY <3>3, <3>4
  <2>6. v \in NV(p["fromSubquery"]) /\ "fromSubquery" \in ClauseNames
    BY <1>10 DEF PV, NV, Vals, ClauseNames
  <2> QED
    BY <2>5, <2>6 DEF PlanFits
<1>13. Strays(c) /\ ~Entire(c)
  <2>1. \A i \in 1 .. Len(c.text) : c.params[q] # c.text[i].val
    BY <1>11, <1>12
  <2> QED
    BY <1>11, <2>1 DEF Strays, Entire
<1>14. \A style \in Styles : ~Bound(c, style)
  BY <1>6, <1>9, <1>13, BoundEntire
<1>15. \A style \in Styles : Misplaced(p, style)
  BY DEF Misplaced
<1> QED
  BY <1>6, <1>9, <1>13, <1>14, <1>15 DEF SelectRight, Good, c

\* A full text search that takes the place of no value: as without the FROM source.
LEMMA FtsReplacesNone ==
  ASSUME NEW p, PlanFits(p), ~p.deny, p.fts5, ~Holding(p.fromSubquery)
  PROVE  SelectRight(p)
<1> DEFINE q == [p EXCEPT !.fromSubquery = << >>]
<1>1. "fromSubquery" \in ClauseNames
  BY DEF ClauseNames
<1>2. /\ PlanFits(q) /\ q["fromSubquery"] = << >> /\ q.fts5 = p.fts5 /\ q.deny = p.deny
      /\ \A a \in ClauseNames : a # "fromSubquery" => q[a] = p[a]
  BY <1>1, FitsLess
<1>e. SelectNodes([p EXCEPT !.fromSubquery = IF p.fts5 THEN << >> ELSE @]) = SelectNodes(q)
  OBVIOUS
<1> HIDE DEF q
<1>3. Plain(q)
  BY <1>2 DEF Plain
<1>4. SelectRight(q)
  BY <1>2, <1>3, PlainRight
<1>5. /\ q.jsonOps = p.jsonOps /\ q.fts = p.fts /\ q.filters = p.filters /\ q.rawFilters = p.rawFilters
      /\ q.having = p.having /\ q.unions = p.unions /\ q.with = p.with /\ q.fromSubquery = << >>
  BY <1>2 DEF ClauseNames
<1>6. JsonOf(q) = JsonOf(p) /\ WhereNodes(q) = WhereNodes(p)
  BY <1>5 DEF JsonOf, WhereNodes
<1>7. FromOf(p).params = JsonOf(p).params
  <2>1. ClauseHas(JsonOf(p).params, p.fromSubquery, FromOf(p)) /\ ClauseHas(<< >>, p.jsonOps, JsonOf(p))
    BY ClausesOf DEF ClausesRight
  <2>2. PICK w \in Seq(Nat) : FromOf(p).params = JsonOf(p).params \o w /\ Range(w) = PV(p.fromSubquery)
    BY <2>1 DEF ClauseHas
  <2>3. PV(p.fromSubquery) = {}
    BY DEF PV, Holding, Range
  <2>4. w = << >>
    <3>1. DOMAIN w = 1 .. Len(w) /\ Len(w) \in Nat
      BY <2>2
    <3>2. ~(1 \in 1 .. Len(w))
      BY <2>2, <2>3, <3>1 DEF Range
    <3> QED
      BY <2>2, <3>1, <3>2
  <2>5. JsonOf(p).params \in Seq(Nat)
    BY <2>1, CodeFits DEF ClauseHas
  <2> DEFINE b == JsonOf(p).params
  <2>6. b \in Seq(Nat) /\ FromOf(p).params = b \o << >>
    BY <2>2, <2>4, <2>5
  <2> HIDE DEF b
  <2>7. b \o << >> = b
    BY <2>6, ConcatEmptySeq
  <2> QED
    BY <2>6, <2>7 DEF b
<1>8. FromOf(q).params = JsonOf(p).params
  <2>1. FromOf(q) = [text |-> << >>, params |-> JsonOf(p).params]
    BY <1>5, <1>6, NoNode DEF FromOf
  <2> QED
    BY <2>1
<1>9. FtsOf(q) = FtsOf(p)
  BY <1>5, <1>7, <1>8 DEF FtsOf
<1>10. WhereOf(q) = WhereOf(p)
  BY <1>6, <1>9 DEF WhereOf
<1>11. HavingOf(q) = HavingOf(p)
  BY <1>5, <1>10 DEF HavingOf
<1>12. UnionsOf(q) = UnionsOf(p)
  BY <1>5, <1>11 DEF UnionsOf
<1>13. WithOf(q) = WithOf(p)
  BY <1>5, <1>12 DEF WithOf
<1>14. CompileSelect(q) = CompileSelect(p)
  <2> DEFINE t == WithOf(p).text \o JsonOf(p).text \o << >> \o WhereOf(p).text \o FtsOf(p).text \o HavingOf(p).text \o UnionsOf(p).text
  <2>1. CompileSelect(p) = [text |-> t, params |-> WithOf(p).params]
    BY SelectMeans DEF SelectIs
  <2>2. CompileSelect(q) = [text |-> t, params |-> WithOf(p).params]
    BY <1>2, <1>6, <1>9, <1>10, <1>11, <1>12, <1>13, SelectMeans DEF SelectIs
  <2> HIDE DEF t
  <2> QED
    BY <2>1, <2>2
<1>15. Holding(WithoutWith(q)) <=> Holding(WithoutWith(p))
  <2>1. Gathers(q, WithoutWith(q), ClauseNames \ {"with"}) /\ Gathers(p, WithoutWith(p), ClauseNames \ {"with"})
    BY <1>2, SelectGathers DEF AllGather
  <2>2. \A a \in ClauseNames : Holding(q[a]) <=> Holding(p[a])
    <3>1. ~Holding(q["fromSubquery"]) /\ ~Holding(p["fromSubquery"])
      BY <1>2, NoNodes
    <3> QED
      BY <1>2, <3>1
  <2> QED
    BY <2>1, <2>2 DEF Gathers
<1>16. \A style : Misplaced(p, style) <=> \/ Astray(SelectNodes(q), style) \/ WithTooMany(p) \/ FtsBefore(p, style)
  <2>1. SelectNodes([p EXCEPT !.with = << >>]) = WithoutWith(p)
    BY WithLeftOut
  <2>2. \A style : Misplaced(p, style) <=>
                     \/ Astray(SelectNodes([p EXCEPT !.fromSubquery = IF p.fts5 THEN << >> ELSE @]), style)
                     \/ p.fts5 /\ Holding(p.fromSubquery)
                     \/ Holding(p.with) /\ Holding(SelectNodes([p EXCEPT !.with = << >>]))
                     \/ style = "positional" /\ p.fts # << >> /\ Holding(p.filters \o p.rawFilters)
    BY DEF Misplaced
  <2> QED
    BY <1>e, <2>1, <2>2 DEF WithTooMany, FtsBefore, WhereNodes
<1>17. \A style : Misplaced(p, style) <=> Misplaced(q, style)
  <2>1. WithTooMany(p) <=> WithTooMany(q)
    BY <1>5, <1>15 DEF WithTooMany
  <2>2. \A style : FtsBefore(p, style) <=> FtsBefore(q, style)
    BY <1>5, <1>6 DEF FtsBefore
  <2>3. \A style : Misplaced(q, style) <=> \/ Astray(SelectNodes(q), style) \/ WithTooMany(q) \/ FtsBefore(q, style)
    BY <1>2, <1>3, PlainMisplaced
  <2> QED
    BY <1>16, <2>1, <2>2, <2>3
<1>18. NV(SelectNodes(q)) \subseteq NV(SelectNodes(p))
  <2>1. Gathers(q, SelectNodes(q), ClauseNames) /\ Gathers(p, SelectNodes(p), ClauseNames)
    BY <1>2, SelectGathers DEF AllGather
  <2>2. \A a \in ClauseNames : \A v \in NV(q[a]) : v \in NV(p[a])
    <3>1. NV(q["fromSubquery"]) = {}
      BY <1>2, NoNodes
    <3> QED
      BY <1>2, <3>1
  <2> QED
    BY <2>1, <2>2 DEF Gathers
<1> QED
  BY <1>4, <1>14, <1>17, <1>18 DEF SelectRight

\* A denied plan keeps the text of its JSON and drops the params.
LEMMA DenyRight ==
  ASSUME NEW p, PlanFits(p), p.deny
  PROVE  SelectRight(p)
<1> DEFINE c == CompileSelect(p)
           j == JsonOf(p)
<1>1. c = [text |-> j.text, params |-> << >>]
  BY SelectMeans DEF SelectIs
<1>2. GoodNodes(p.jsonOps) /\ NV(p.jsonOps) \subseteq NV(SelectNodes(p)) /\ p.jsonOps \in Seq(PlanNodes)
  <2>1. "jsonOps" \in ClauseNames /\ GoodNodes(p["jsonOps"])
    BY DEF PlanFits, ClauseNames
  <2>2. \A v \in NV(p["jsonOps"]) : v \in NV(SelectNodes(p))
    BY <2>1, SelectGathers DEF AllGather, Gathers
  <2> QED
    BY <2>1, <2>2 DEF GoodNodes
<1>3. Good(j) /\ ClauseHas(<< >>, p.jsonOps, j)
  BY <1>2, ClauseBinds, ClausesOf DEF JsonOf, ClausesRight
<1>4. c.text = j.text /\ c.params = << >> /\ j \in Codes
  <2> HIDE DEF j, c
  <2> QED
    BY <1>1, <1>3 DEF Good
<1>5. c \in Codes
  <2>1. j.text \in Seq(Hole) /\ << >> \in Seq(Nat)
    BY <1>4, CodeFits
  <2> HIDE DEF j, c
  <2> QED
    BY <1>1, <2>1 DEF Codes
<1> HIDE DEF j, c
<1>6. Len(c.params) = 0 /\ 1 .. 0 = {}
  BY <1>4
<1>7. OncePlaced(c)
  BY <1>3, <1>4, <1>6 DEF Good, OncePlaced
<1>8. Low(c)
  BY <1>6 DEF Low
<1>9. Vals(c) \subseteq NV(SelectNodes(p))
  <2>1. TextVals(c) = TextVals(j)
    BY <1>4 DEF TextVals
  <2>2. Range(c.params) = {}
    BY <1>4, NoTies
  <2> QED
    BY <1>2, <1>3, <2>1, <2>2 DEF Vals, ClauseHas
<1>10. \A style \in Styles : Misplaced(p, style) <=> p.jsonOps # << >>
  BY DEF Misplaced
<1>11. CASE p.jsonOps = << >>
  <2>1. c.text = << >>
    <3>1. j = [text |-> << >>, params |-> << >>]
      BY <1>11, NoNode DEF JsonOf, j
    <3> QED
      BY <1>4, <3>1
  <2>2. \A style \in Styles : Bound(c, style)
    <3>1. Len(c.text) = 0
      BY <2>1
    <3> QED
      BY <1>6, <3>1 DEF Bound
  <2>3. "numbered" \in Styles
    BY DEF Styles
  <2> QED
    BY <1>5, <1>7, <1>8, <1>9, <1>10, <1>11, <2>2, <2>3 DEF SelectRight, Good, c
<1>12. CASE p.jsonOps # << >>
  <2>1. Len(p.jsonOps) \in Nat /\ 1 \in 1 .. Len(p.jsonOps)
    BY <1>2, <1>12
  <2> DEFINE node == p.jsonOps[1]
             y == node.code.params
  <2>2. GoodNode(node) /\ Inserted(node) /\ node \in PlanNodes
    BY <1>2, <2>1 DEF PlanFits, GoodNodes, GoodNode
  <2>3. node.code.text = Holes(y, 0) /\ y # << >> /\ y \in Seq(Nat)
    BY <2>2, CodeFits DEF GoodNode, Inserted, PlanNodes
  <2>4. node.code.text # << >>
    <3> HIDE DEF node, y
    <3>1. Len(y) \in Nat /\ Len(y) # 0
      BY <2>3
    <3> DEFINE t == [i \in 1 .. Len(y) |-> [val |-> y[i], num |-> 0 + i]]
    <3>2. node.code.text = t
      BY <2>3 DEF Holes
    <3>3. DOMAIN t = 1 .. Len(y) /\ 1 \in 1 .. Len(y)
      BY <3>1
    <3> HIDE DEF t
    <3>4. DOMAIN << >> = {}
      OBVIOUS
    <3> QED
      BY <3>2, <3>3, <3>4
  <2>5. c.text # << >>
    BY <1>3, <1>4, <2>1, <2>4 DEF ClauseHas
  <2>6. Len(c.text) # 0 /\ Len(c.text) \in Nat
    BY <1>5, <2>5, EmptyCode, CodeFits
  <2>7. \A style \in Styles : ~Bound(c, style)
    BY <1>6, <2>6 DEF Bound
  <2>8. Strays(c)
    <3>1. 1 \in 1 .. Len(c.text) /\ \A q \in 1 .. Len(c.params) : c.params[q] # c.text[1].val
      BY <1>6, <2>6
    <3> QED
      BY <3>1 DEF Strays
  <2> QED
    BY <1>5, <1>7, <1>8, <1>9, <1>10, <1>12, <2>7, <2>8 DEF SelectRight, Good, c
<1> QED
  BY <1>11, <1>12

LEMMA SelectsAreRight ==
  ASSUME NEW p, PlanFits(p)
  PROVE  SelectRight(p)
<1>1. p.deny \in BOOLEAN /\ p.fts5 \in BOOLEAN
  BY DEF PlanFits
<1>2. CASE p.deny
  BY <1>2, DenyRight
<1>3. CASE ~p.deny /\ ~p.fts5
  BY <1>3, PlainRight DEF Plain
<1>4. CASE ~p.deny /\ p.fts5 /\ Holding(p.fromSubquery)
  BY <1>4, FtsReplaces
<1>5. CASE ~p.deny /\ p.fts5 /\ ~Holding(p.fromSubquery)
  BY <1>5, FtsReplacesNone
<1> QED
  BY <1>1, <1>2, <1>3, <1>4, <1>5

-----------------------------------------------------------------------------
\* The nodes of values that differ.
Differ(vals) == vals \in Seq(Nat) /\ \A i, j \in 1 .. Len(vals) : vals[i] = vals[j] => i = j

LEMMA HoleParts ==
  ASSUME NEW h, NEW v \in Nat, NEW m \in Nat, h = [val |-> v, num |-> m]
  PROVE  h \in Hole /\ h.val = v /\ h.num = m
BY DEF Hole

LEMMA ValuesGood ==
  ASSUME NEW vals, Differ(vals)
  PROVE  /\ GoodNode(Values(vals)) /\ Vals(Values(vals).code) = Range(vals) /\ Values(vals).code.params = vals
         /\ ~HasMarks(Values(vals)) /\ Values(vals).kind = "values"
         /\ \A style \in Styles : Bound(Values(vals).code, style)
<1> DEFINE n == Len(vals)
           t == [i \in 1 .. n |-> [val |-> vals[i], num |-> 0 + i]]
           c == [text |-> t, params |-> vals]
           node == [kind |-> "values", code |-> c]
<1>1. vals \in Seq(Nat) /\ n \in Nat /\ DOMAIN vals = 1 .. n /\ \A i \in 1 .. n : vals[i] \in Nat
  BY DEF Differ
<1>2. Values(vals) = node
  BY DEF Values, Holes
<1>3. \A i \in 1 .. n : t[i] = [val |-> vals[i], num |-> 0 + i]
  OBVIOUS
<1>4. \A i \in 1 .. n : t[i] \in Hole /\ t[i].val = vals[i] /\ t[i].num = i /\ i # 0
  <2>1. ASSUME NEW i \in 1 .. n PROVE t[i] \in Hole /\ t[i].val = vals[i] /\ t[i].num = i /\ i # 0
    <3>1. vals[i] \in Nat /\ i \in Nat /\ 0 + i = i /\ i # 0
      BY <1>1
    <3>2. t[i] = [val |-> vals[i], num |-> i]
      BY <1>3, <3>1
    <3> HIDE DEF t
    <3> QED
      BY <3>1, <3>2, HoleParts
  <2> QED
    BY <2>1
<1>5. t \in Seq(Hole) /\ Len(t) = n
  <2>1. t \in [1 .. n -> Hole]
    BY <1>4
  <2>2. DOMAIN t = 1 .. n
    OBVIOUS
  <2> HIDE DEF t, n
  <2> QED
    BY <1>1, <2>1, <2>2
<1> HIDE DEF t
<1>6. c.text = t /\ c.params = vals
  OBVIOUS
<1>7. c \in Codes
  BY <1>1, <1>5 DEF Codes
<1>8. node.kind = "values" /\ node.code = c /\ node \in PlanNodes
  <2> HIDE DEF c
  <2> QED
    BY <1>7 DEF PlanNodes, Kinds
<1> HIDE DEF c, node
<1>9. OncePlaced(c)
  <2> HIDE DEF n
  <2>1. \A i, j \in 1 .. n : vals[i] = vals[j] => i = j
    BY DEF Differ, n
  <2> QED
    BY <1>4, <1>5, <1>6, <2>1 DEF OncePlaced, n
<1>10. Low(c)
  <2>1. \A i, j \in 1 .. n : vals[i] = vals[j] => i = j
    BY DEF Differ
  <2> QED
    BY <1>1, <1>4, <1>5, <1>6, <2>1 DEF Low
<1>11. \A style \in Styles : Bound(c, style)
  BY <1>1, <1>4, <1>5, <1>6 DEF Bound, Number, Styles
<1>12. Good(c)
  BY <1>7, <1>9, <1>10, <1>11 DEF Good, Styles
<1>13. Vals(c) = Range(vals)
  <2>1. TextVals(c) = {vals[i] : i \in 1 .. n}
    BY <1>4, <1>5, <1>6 DEF TextVals
  <2>2. Range(vals) = {vals[i] : i \in 1 .. n}
    BY <1>1 DEF Range
  <2> QED
    BY <1>6, <2>1, <2>2 DEF Vals
<1>14. ~HasMarks(node)
  <2>1. \A h \in Range(t) : h.num # 0
    <3>1. DOMAIN t = 1 .. n
      BY <1>5
    <3> QED
      BY <1>4, <3>1 DEF Range
  <2> QED
    BY <1>6, <1>8, <2>1 DEF HasMarks
<1>15. c.text = Holes(vals, 0)
  BY <1>6 DEF Holes, t
<1>16. GoodNode(node)
  BY <1>6, <1>8, <1>12, <1>15 DEF GoodNode
<1> QED
  BY <1>2, <1>6, <1>8, <1>11, <1>13, <1>14, <1>16

LEMMA RawGood ==
  ASSUME NEW v \in Nat
  PROVE  GoodNode(RawValues(<<v>>)) /\ Vals(RawValues(<<v>>).code) = {v} /\ RawValues(<<v>>).code.params = <<v>>
<1> DEFINE t == [i \in 1 .. 1 |-> [val |-> <<v>>[i], num |-> 0]]
           c == [text |-> t, params |-> <<v>>]
           node == [kind |-> "raw", code |-> c]
<1>1. RawValues(<<v>>) = node
  <2>1. Len(<<v>>) = 1
    OBVIOUS
  <2> QED
    BY <2>1 DEF RawValues, Marks
<1>2. t[1] = [val |-> v, num |-> 0]
  OBVIOUS
<1>3. t \in Seq(Hole) /\ Len(t) = 1
  <2>1. t[1] \in Hole
    BY <1>2, HoleParts
  <2>2. t \in [1 .. 1 -> Hole]
    BY <2>1
  <2>3. DOMAIN t = 1 .. 1
    OBVIOUS
  <2> DEFINE one == 1
  <2>4. one \in Nat /\ one = 1
    OBVIOUS
  <2> HIDE DEF t, one
  <2>5. t \in [1 .. one -> Hole] /\ DOMAIN t = 1 .. one
    BY <2>2, <2>3, <2>4
  <2>6. t \in Seq(Hole)
    <3>1. \E n \in Nat : t \in [1 .. n -> Hole]
      BY <2>4, <2>5, Zenon
    <3> QED
      BY <3>1, SeqDef, Zenon
  <2> QED
    BY <2>3, <2>6, <2>4, LenProperties
<1> HIDE DEF t
<1>4. c.text = t /\ c.params = <<v>> /\ <<v>> \in Seq(Nat) /\ Len(<<v>>) = 1 /\ <<v>>[1] = v /\ DOMAIN <<v>> = 1 .. 1
  OBVIOUS
<1>5. c \in Codes
  BY <1>3, <1>4 DEF Codes
<1>6. node.kind = "raw" /\ node.code = c /\ node \in PlanNodes
  <2> HIDE DEF c
  <2> QED
    BY <1>5 DEF PlanNodes, Kinds
<1>o. 1 .. 1 = {1}
  OBVIOUS
<1> HIDE DEF c, node
<1>7. t[1].val = v /\ t[1].num = 0
  BY <1>2, HoleParts
<1>8. OncePlaced(c)
  <2>1. Len(c.text) = 1 /\ Len(c.params) = 1
    BY <1>3, <1>4
  <2>2. \A i, j \in 1 .. 1 : i = j
    OBVIOUS
  <2> QED
    BY <2>1, <2>2, Zenon DEF OncePlaced
<1>9. Low(c)
  BY <1>3, <1>4, <1>7, <1>o DEF Low
<1>10. Number(t, 1) = 1
  <2>1. Number(t, 1) = Zeros(t, 1)
    BY <1>7 DEF Number, Zeros
  <2>2. Zeros(t, 0) = 0 /\ Zeros(t, 0 + 1) = Zeros(t, 0) + (IF t[0 + 1].num = 0 THEN 1 ELSE 0)
    BY ZerosStep
  <2> QED
    BY <1>7, <2>1, <2>2
<1>11. Bound(c, "numbered")
  BY <1>3, <1>4, <1>7, <1>10, <1>o DEF Bound
<1>12. Good(c)
  BY <1>5, <1>8, <1>9, <1>11 DEF Good
<1>13. Vals(c) = {v}
  <2>1. TextVals(c) = {v}
    BY <1>3, <1>4, <1>7, <1>o DEF TextVals
  <2>2. Range(c.params) = {v}
    BY <1>4, <1>o DEF Range
  <2> QED
    BY <2>1, <2>2 DEF Vals
<1>14. c.text = Marks(<<v>>)
  BY <1>4 DEF Marks, t
<1>15. GoodNode(node)
  BY <1>4, <1>6, <1>12, <1>14 DEF GoodNode
<1> QED
  BY <1>1, <1>4, <1>6, <1>13, <1>15

LEMMA OneDiffers == ASSUME NEW v \in Nat PROVE Differ(<<v>>) /\ Range(<<v>>) = {v} /\ Len(<<v>>) = 1 /\ <<v>> # << >>
<1>1. <<v>> \in Seq(Nat) /\ Len(<<v>>) = 1 /\ DOMAIN <<v>> = {1} /\ 1 .. 1 = {1} /\ <<v>>[1] = v
  OBVIOUS
<1> QED
  BY <1>1 DEF Differ, Range

LEMMA TwoDiffer == ASSUME NEW v \in Nat, NEW w \in Nat, v # w PROVE Differ(<<v, w>>) /\ Range(<<v, w>>) = {v, w} /\ Len(<<v, w>>) = 2
<1>1. <<v, w>> \in Seq(Nat) /\ Len(<<v, w>>) = 2 /\ DOMAIN <<v, w>> = {1, 2} /\ 1 .. 2 = {1, 2} /\ <<v, w>>[1] = v /\ <<v, w>>[2] = w
  OBVIOUS
<1> QED
  BY <1>1 DEF Differ, Range

-----------------------------------------------------------------------------
\* A plan with one clause replaced.
Puts(p, q, c, s) ==
  /\ DOMAIN q = DOMAIN p /\ {q.fts5, q.deny} \subseteq BOOLEAN
  /\ q[c] = s /\ \A a \in ClauseNames : a # c => q[a] = p[a]
\* What the clauses that are written, not joined, look like.
Shaped(c, s) ==
  /\ c = "jsonOps" => \A k \in 1 .. Len(s) : Inserted(s[k])
  /\ c = "fts" => s = << >> \/ \E node : s = <<node>> /\ Inserted(node)
  /\ c = "with" => s = << >> \/ \E node : s = <<node>> /\ node.kind = "plan"

LEMMA FitsPut ==
  ASSUME NEW p, NEW q, NEW c \in ClauseNames, NEW s, PlanFits(p), Puts(p, q, c, s), GoodNodes(s), Shaped(c, s),
         \A a \in ClauseNames : a # c => NV(s) \cap NV(p[a]) = {}
  PROVE  PlanFits(q)
<1>1. \A a \in ClauseNames : GoodNodes(q[a])
  BY DEF PlanFits, Puts
<1>2. \A a, b \in ClauseNames : a # b => NV(q[a]) \cap NV(q[b]) = {}
  <2>1. ASSUME NEW a \in ClauseNames, NEW b \in ClauseNames, a # b PROVE NV(q[a]) \cap NV(q[b]) = {}
    <3>1. CASE a = c
      BY <2>1, <3>1 DEF Puts
    <3>2. CASE b = c
      BY <2>1, <3>2 DEF Puts
    <3>3. CASE a # c /\ b # c
      BY <2>1, <3>3 DEF PlanFits, Puts
    <3> QED
      BY <3>1, <3>2, <3>3
  <2> QED
    BY <2>1
<1>3. DOMAIN q = ClauseNames \cup {"fts5", "deny"} /\ {q.fts5, q.deny} \subseteq BOOLEAN
  BY DEF PlanFits, Puts
<1>4. \A k \in 1 .. Len(q.jsonOps) : Inserted(q.jsonOps[k])
  <2>1. q.jsonOps = IF c = "jsonOps" THEN s ELSE p.jsonOps
    BY DEF Puts, ClauseNames
  <2>2. CASE c = "jsonOps"
    BY <2>1, <2>2 DEF Shaped
  <2>3. CASE c # "jsonOps"
    BY <2>1, <2>3 DEF PlanFits
  <2> QED
    BY <2>2, <2>3
<1>5. q.fts = << >> \/ \E node : q.fts = <<node>> /\ Inserted(node)
  <2>1. q.fts = IF c = "fts" THEN s ELSE p.fts
    BY DEF Puts, ClauseNames
  <2> QED
    BY <2>1 DEF PlanFits, Shaped
<1>6. q.with = << >> \/ \E node : q.with = <<node>> /\ node.kind = "plan"
  <2>1. q.with = IF c = "with" THEN s ELSE p.with
    BY DEF Puts, ClauseNames
  <2> QED
    BY <2>1 DEF PlanFits, Shaped
<1> QED
  BY <1>1, <1>2, <1>3, <1>4, <1>5, <1>6 DEF PlanFits

\* No value is in two clauses, or in the other plan too, and all were given.
Separate ==
  /\ \A a \in ClauseNames : NV(plan[a]) \subseteq 1 .. given /\ NV(plan[a]) \cap Vals(other) = {}
  /\ Vals(other) \subseteq 1 .. given
PlansInv == PlanFits(plan) /\ given \in 0 .. MaxValues /\ Good(other) /\ Separate

LEMMA EmptyFits == PlanFits(emptyPlan) /\ \A a \in ClauseNames : emptyPlan[a] = << >>
<1>1. DOMAIN emptyPlan = ClauseNames \cup {"fts5", "deny"}
  BY DEF emptyPlan, ClauseNames
<1>2. \A a \in ClauseNames : emptyPlan[a] = << >>
  BY DEF emptyPlan, ClauseNames
<1>3. emptyPlan.fts5 \in BOOLEAN /\ emptyPlan.deny \in BOOLEAN /\ 1 .. Len(<< >>) = {}
  BY DEF emptyPlan
<1>4. emptyPlan.jsonOps = << >> /\ emptyPlan.fts = << >> /\ emptyPlan.with = << >>
  BY DEF emptyPlan
<1> HIDE DEF emptyPlan
<1> QED
  BY <1>1, <1>2, <1>3, <1>4, NoNodes DEF PlanFits

LEMMA NothingGood == Good(Nothing) /\ Vals(Nothing) = {} /\ Nothing.params = << >>
<1>1. Good(Nothing)
  BY NoNodes, EmptyIsGood DEF Linear, Nothing
<1>2. Nothing.text = << >> /\ Nothing.params = << >> /\ Len(<< >>) = 0 /\ 1 .. 0 = {} /\ DOMAIN << >> = {}
  BY DEF Nothing
<1> HIDE DEF Nothing
<1> QED
  BY <1>1, <1>2 DEF Vals, TextVals, Range

LEMMA PlansStart == PlansInit => PlansInv
<1> SUFFICES ASSUME PlansInit PROVE PlansInv
  OBVIOUS
<1>1. plan = emptyPlan /\ other = Nothing /\ given = 0
  BY DEF PlansInit
<1>2. Separate
  BY <1>1, EmptyFits, NothingGood, NoNodes DEF Separate
<1> QED
  BY <1>1, <1>2, EmptyFits, NothingGood, QueryPlansConstantsOK DEF PlansInv

\* What a method puts into a clause: nodes with values of that clause, and of V.
Written(c, s, V) ==
  /\ c \in ClauseNames /\ Puts(plan, plan', c, s) /\ GoodNodes(s) /\ Shaped(c, s)
  /\ NV(s) \subseteq NV(plan[c]) \cup V
  /\ \A a \in ClauseNames : a # c => NV(plan[a]) \cap V = {}
  /\ V \subseteq 1 .. given' /\ given' \in 0 .. MaxValues /\ given <= given'
  /\ Good(other') /\ Vals(other') \subseteq Vals(other) /\ V \cap Vals(other') = {}

LEMMA PutKeeps ==
  ASSUME PlansInv, NEW c, NEW s, NEW V, Written(c, s, V)
  PROVE  PlansInv'
<1>1. /\ PlanFits(plan) /\ given \in Nat /\ Good(other) /\ Separate /\ c \in ClauseNames /\ Puts(plan, plan', c, s)
      /\ GoodNodes(s) /\ Shaped(c, s) /\ given' \in 0 .. MaxValues /\ given <= given' /\ Good(other')
  BY DEF PlansInv, Written
<1>2. \A a \in ClauseNames : a # c => NV(plan[c]) \cap NV(plan[a]) = {} /\ NV(plan[a]) \cap V = {}
  BY <1>1 DEF PlanFits, Written
<1>3. \A a \in ClauseNames : a # c => NV(s) \cap NV(plan[a]) = {}
  BY <1>2 DEF Written
<1>4. PlanFits(plan')
  BY <1>1, <1>3, FitsPut
<1>5. \A v \in 1 .. given : v \in 1 .. given'
  BY <1>1, QueryPlansConstantsOK
<1>6. \A a \in ClauseNames : NV(plan'[a]) \subseteq 1 .. given' /\ NV(plan'[a]) \cap Vals(other') = {}
  <2>1. ASSUME NEW a \in ClauseNames, a = c PROVE NV(plan'[a]) \subseteq 1 .. given' /\ NV(plan'[a]) \cap Vals(other') = {}
    <3>1. plan'[a] = s
      BY <1>1, <2>1 DEF Puts
    <3>2. NV(plan[c]) \subseteq 1 .. given /\ NV(plan[c]) \cap Vals(other) = {}
      BY <1>1 DEF Separate
    <3> HIDE <1>1
    <3> QED
      BY <1>5, <3>1, <3>2 DEF Written
  <2>2. ASSUME NEW a \in ClauseNames, a # c PROVE NV(plan'[a]) \subseteq 1 .. given' /\ NV(plan'[a]) \cap Vals(other') = {}
    <3>1. plan'[a] = plan[a]
      BY <1>1, <2>2 DEF Puts
    <3>2. NV(plan[a]) \subseteq 1 .. given /\ NV(plan[a]) \cap Vals(other) = {}
      BY <1>1 DEF Separate
    <3> HIDE <1>1
    <3> QED
      BY <1>5, <3>1, <3>2 DEF Written
  <2> QED
    BY <2>1, <2>2
<1>7. Vals(other') \subseteq 1 .. given'
  BY <1>1, <1>5 DEF Separate, Written
<1>8. Separate'
  BY <1>6, <1>7 DEF Separate
<1> QED
  BY <1>1, <1>4, <1>8 DEF PlansInv

\* Values that were given just now.
NewValues(V) == \A v \in V : v \in 1 .. given' /\ v \notin 1 .. given
LEMMA FreshApart ==
  ASSUME PlansInv, NEW V, NewValues(V)
  PROVE  V \subseteq 1 .. given' /\ V \cap Vals(other) = {} /\ \A a \in ClauseNames : NV(plan[a]) \cap V = {}
BY DEF PlansInv, Separate, NewValues

\* A clause with one node more.
LEMMA AppendNode ==
  ASSUME NEW s, GoodNodes(s), NEW node, GoodNode(node), NV(s) \cap Vals(node.code) = {}
  PROVE  /\ GoodNodes(Append(s, node)) /\ NV(Append(s, node)) = NV(s) \cup Vals(node.code)
         /\ (\A k \in 1 .. Len(s) : Inserted(s[k])) /\ Inserted(node)
              => \A k \in 1 .. Len(Append(s, node)) : Inserted(Append(s, node)[k])
<1>1. s \in Seq(PlanNodes) /\ node \in PlanNodes /\ Len(s) \in Nat
  BY DEF GoodNodes, GoodNode
<1>2. Append(s, node) = s \o <<node>>
  BY <1>1
<1>3. /\ <<node>> \in Seq(PlanNodes) /\ NV(<<node>>) = Vals(node.code) /\ GoodNodes(<<node>>)
  BY SingleNode
<1>4. JoinNodes(s, <<node>>, s \o <<node>>)
  BY <1>1, <1>3, NodesJoin
<1>5. Len(Append(s, node)) = Len(s) + 1 /\ Append(s, node)[Len(s) + 1] = node
      /\ \A k \in 1 .. Len(s) : Append(s, node)[k] = s[k]
  BY <1>1
<1>6. \A k \in 1 .. Len(s) + 1 : k \in 1 .. Len(s) \/ k = Len(s) + 1
  BY <1>1
<1> DEFINE u == Append(s, node)
<1> HIDE DEF u
<1>7. JoinNodes(s, <<node>>, u)
  BY <1>2, <1>4 DEF u
<1>8. GoodNodes(u) /\ NV(u) = NV(s) \cup Vals(node.code)
  BY <1>3, <1>7 DEF JoinNodes
<1>9. Len(u) = Len(s) + 1 /\ u[Len(s) + 1] = node /\ \A k \in 1 .. Len(s) : u[k] = s[k]
  BY <1>5 DEF u
<1>10. (\A k \in 1 .. Len(s) : Inserted(s[k])) /\ Inserted(node) => \A k \in 1 .. Len(u) : Inserted(u[k])
  BY <1>6, <1>9
<1> QED
  BY <1>8, <1>10 DEF u

-----------------------------------------------------------------------------
\* The methods.
LEMMA PutsOne ==
  ASSUME NEW p, PlanFits(p), NEW c \in ClauseNames, NEW s
  PROVE  Puts(p, [p EXCEPT ![c] = s], c, s)
<1> DEFINE q == [p EXCEPT ![c] = s]
<1>0. DOMAIN p = ClauseNames \cup {"fts5", "deny"} /\ c \in DOMAIN p /\ {p.fts5, p.deny} \subseteq BOOLEAN
  BY DEF PlanFits
<1>1. DOMAIN q = DOMAIN p /\ \A a \in DOMAIN p : q[a] = IF a = c THEN s ELSE p[a]
  BY <1>0
<1>3. c # "fts5" /\ c # "deny"
  BY DEF ClauseNames
<1> HIDE DEF q
<1>4. q.fts5 = p.fts5 /\ q.deny = p.deny
  BY <1>0, <1>1, <1>3
<1> QED
  BY <1>0, <1>1, <1>4 DEF Puts, q

LEMMA ForkKeeps ==
  ASSUME PlansInv, NEW c \in {"filters", "rawFilters", "having", "jsonOps"}, NEW node,
         GoodNode(node), c = "jsonOps" => Inserted(node), Fork(c, node), NewValues(Vals(node.code))
  PROVE  PlansInv'
<1> DEFINE s == Append(plan[c], node)
           V == Vals(node.code)
<1>1. PlanFits(plan) /\ c \in ClauseNames /\ given \in Nat /\ Good(other) /\ GoodNodes(plan[c])
  BY DEF PlansInv, PlanFits, ClauseNames
<1>2. V \subseteq 1 .. given' /\ V \cap Vals(other) = {} /\ \A a \in ClauseNames : NV(plan[a]) \cap V = {}
  BY FreshApart
<1>3. /\ GoodNodes(s) /\ NV(s) = NV(plan[c]) \cup V
      /\ (\A k \in 1 .. Len(plan[c]) : Inserted(plan[c][k])) /\ Inserted(node)
           => \A k \in 1 .. Len(s) : Inserted(s[k])
  BY <1>1, <1>2, AppendNode
<1>4. Shaped(c, s)
  <2>1. c = "jsonOps" => \A k \in 1 .. Len(plan[c]) : Inserted(plan[c][k])
    BY <1>1 DEF PlanFits
  <2> HIDE DEF s
  <2> QED
    BY <1>3, <2>1 DEF Shaped
<1>5. plan' = [plan EXCEPT ![c] = s] /\ other' = other
  BY DEF Fork
<1>6. Puts(plan, plan', c, s)
  <2> HIDE DEF s
  <2> QED
    BY <1>1, <1>5, PutsOne
<1>7. given' \in 0 .. MaxValues /\ given <= given'
  <2> DEFINE n == Len(node.code.params)
  <2>1. n \in Nat
    BY CodeFits DEF GoodNode, PlanNodes
  <2>2. given + n <= MaxValues /\ given' = given + n
    BY DEF Fork
  <2> HIDE DEF n
  <2> QED
    BY <1>1, <2>1, <2>2, QueryPlansConstantsOK
<1> HIDE DEF s, V
<1>8. Written(c, s, V)
  BY <1>1, <1>2, <1>3, <1>4, <1>5, <1>6, <1>7 DEF Written
<1> QED
  BY <1>8, PutKeeps

\* One value, two values, or a value of raw SQL.
LEMMA NextValues ==
  ASSUME PlansInv
  PROVE  /\ given + 1 \in Nat /\ Differ(Next1) /\ Range(Next1) = {given + 1} /\ Len(Next1) = 1 /\ Next1 # << >>
         /\ Differ(<<given + 1, given + 2>>) /\ Range(<<given + 1, given + 2>>) = {given + 1, given + 2}
         /\ Len(<<given + 1, given + 2>>) = 2
<1> DEFINE v == given + 1
           w == given + 2
<1>1. v \in Nat /\ w \in Nat /\ v # w
  BY QueryPlansConstantsOK DEF PlansInv
<1> HIDE DEF v, w
<1>2. Differ(<<v>>) /\ Range(<<v>>) = {v} /\ Len(<<v>>) = 1 /\ <<v>> # << >>
  BY <1>1, OneDiffers
<1>3. Differ(<<v, w>>) /\ Range(<<v, w>>) = {v, w} /\ Len(<<v, w>>) = 2
  BY <1>1, TwoDiffer
<1> QED
  BY <1>1, <1>2, <1>3 DEF v, w, Next1

LEMMA NextNode ==
  ASSUME PlansInv
  PROVE  /\ GoodNode(Values(Next1)) /\ Vals(Values(Next1).code) = {given + 1} /\ Inserted(Values(Next1))
         /\ Values(Next1).code.params = Next1
<1> DEFINE node == Values(Next1)
<1>1. GoodNode(node) /\ Vals(node.code) = Range(Next1) /\ node.code.params = Next1 /\ node.kind = "values"
  BY NextValues, ValuesGood
<1> HIDE DEF node
<1> QED
  BY <1>1, NextValues DEF Inserted, node

LEMMA ForkOneKeeps ==
  ASSUME PlansInv, NEW c \in {"filters", "rawFilters", "having", "jsonOps"}, Fork(c, Values(Next1))
  PROVE  PlansInv'
<1> DEFINE node == Values(Next1)
<1>1. /\ GoodNode(node) /\ Vals(node.code) = {given + 1} /\ node.code.params = Next1 /\ Inserted(node)
  BY NextNode
<1> HIDE DEF node
<1>2. Fork(c, node)
  BY DEF node
<1>3. given' = given + 1 /\ given \in Nat
  <2>1. given' = given + Len(node.code.params)
    BY <1>2 DEF Fork
  <2>2. Len(node.code.params) = 1
    BY <1>1, NextValues
  <2>3. given \in Nat
    BY QueryPlansConstantsOK DEF PlansInv
  <2> QED
    BY <2>1, <2>2, <2>3
<1>4. NewValues(Vals(node.code))
  BY <1>1, <1>3 DEF NewValues
<1> QED
  BY <1>1, <1>2, <1>4, ForkKeeps

LEMMA BetweenKeeps == ASSUME PlansInv, WhereBetween PROVE PlansInv'
<1> DEFINE node == Values(<<given + 1, given + 2>>)
<1>1. /\ GoodNode(node) /\ Vals(node.code) = Range(<<given + 1, given + 2>>) /\ node.code.params = <<given + 1, given + 2>>
  BY NextValues, ValuesGood
<1> HIDE DEF node
<1>2. Fork("filters", node)
  BY DEF WhereBetween, node
<1>3. given' = given + 2 /\ given \in Nat
  BY <1>1, <1>2, NextValues, QueryPlansConstantsOK DEF Fork, PlansInv
<1>4. Vals(node.code) = {given + 1, given + 2}
  BY <1>1, NextValues
<1>5. NewValues(Vals(node.code))
  BY <1>3, <1>4 DEF NewValues
<1> QED
  BY <1>1, <1>2, <1>5, ForkKeeps

LEMMA ExprKeeps == ASSUME PlansInv, whereExpr PROVE PlansInv'
<1> DEFINE v == given + 1
           node == RawValues(<<v>>)
<1>0. v \in Nat /\ Len(<<v>>) = 1
  BY NextValues
<1> HIDE DEF v
<1>1. /\ GoodNode(node) /\ Vals(node.code) = {v} /\ node.code.params = <<v>>
  BY <1>0, RawGood
<1> HIDE DEF node
<1>2. Fork("rawFilters", node)
  BY DEF whereExpr, node, v, Next1
<1>3. given' = given + 1 /\ given \in Nat
  BY <1>0, <1>1, <1>2, QueryPlansConstantsOK DEF Fork, PlansInv
<1>4. NewValues(Vals(node.code))
  <2>1. Vals(node.code) = {given + 1}
    BY <1>1 DEF v
  <2> QED
    BY <1>3, <2>1 DEF NewValues
<1> QED
  BY <1>1, <1>2, <1>4, ForkKeeps

\* A sub-plan.
LEMMA SubGood ==
  ASSUME PlansInv, NEW kind \in {"plan", "union"}
  PROVE  GoodNode(SubPlan(kind)) /\ SubPlan(kind).code = other /\ SubPlan(kind).kind = kind
<1> DEFINE node == [kind |-> kind, code |-> other]
<1>1. node.kind = kind /\ node.code = other
  OBVIOUS
<1>2. node \in PlanNodes /\ Good(other)
  BY DEF PlansInv, Good, PlanNodes, Kinds
<1> HIDE DEF node
<1>3. GoodNode(node)
  BY <1>1, <1>2 DEF GoodNode
<1> QED
  BY <1>1, <1>3 DEF node, SubPlan

\* Embedding: into a clause that only grows, or in place of what was there.
LEMMA SubKeeps ==
  ASSUME PlansInv, NEW c \in {"filters", "unions", "with", "fromSubquery"}, NEW kind \in {"plan", "union"}, NEW s,
         s = <<SubPlan(kind)>> \/ (s = Append(plan[c], SubPlan(kind)) /\ c # "with"), c = "with" => kind = "plan",
         plan' = [plan EXCEPT ![c] = s], other' = Nothing, given' = given
  PROVE  PlansInv'
<1> DEFINE node == SubPlan(kind)
           V == Vals(other)
<1>1. PlanFits(plan) /\ c \in ClauseNames /\ given \in 0 .. MaxValues /\ GoodNodes(plan[c]) /\ Separate
  BY DEF PlansInv, PlanFits, ClauseNames
<1>2. GoodNode(node) /\ node.code = other /\ node.kind = kind
  BY SubGood
<1>3. V \subseteq 1 .. given /\ \A a \in ClauseNames : NV(plan[a]) \cap V = {}
  BY <1>1 DEF Separate
<1>4. s = <<node>> \/ (s = Append(plan[c], node) /\ c # "with")
  OBVIOUS
<1> HIDE DEF node
<1>5. GoodNodes(s) /\ NV(s) \subseteq NV(plan[c]) \cup V
  <2>1. CASE s = <<node>>
    BY <1>2, <2>1, SingleNode
  <2>2. CASE s = Append(plan[c], node)
    BY <1>1, <1>2, <1>3, <2>2, AppendNode
  <2> QED
    BY <1>4, <2>1, <2>2
<1>6. Shaped(c, s)
  BY <1>2, <1>4 DEF Shaped
<1>7. Puts(plan, plan', c, s)
  BY <1>1, PutsOne
<1>8. Good(other') /\ Vals(other') = {}
  BY NothingGood
<1> HIDE DEF V
<1>9. Vals(other') \subseteq Vals(other) /\ V \cap Vals(other') = {}
  BY <1>8
<1>10. V \subseteq 1 .. given' /\ given' \in 0 .. MaxValues /\ given <= given'
  BY <1>1, <1>3, QueryPlansConstantsOK
<1>11. Written(c, s, V)
  BY <1>1, <1>3, <1>5, <1>6, <1>7, <1>8, <1>9, <1>10 DEF Written
<1> QED
  BY <1>11, PutKeeps

LEMMA FtsKeeps == ASSUME PlansInv, NEW fts5 \in BOOLEAN, ftsSearch(fts5) PROVE PlansInv'
<1> DEFINE node == Values(Next1)
           s == <<node>>
           V == Vals(node.code)
<1>1. /\ GoodNode(node) /\ V = {given + 1} /\ node.code.params = Next1 /\ Inserted(node)
  BY NextNode
<1>2. plan' = [plan EXCEPT !.fts = s, !.fts5 = fts5] /\ other' = other /\ given' = given + 1 /\ given < MaxValues
  BY DEF ftsSearch
<1> HIDE DEF node
<1>3. PlanFits(plan) /\ given \in Nat /\ Good(other)
  BY DEF PlansInv
<1>4. given' \in 0 .. MaxValues /\ given <= given'
  BY <1>2, <1>3, QueryPlansConstantsOK
<1>5. NewValues(V)
  BY <1>1, <1>2, <1>3 DEF NewValues
<1>6. V \subseteq 1 .. given' /\ V \cap Vals(other) = {} /\ \A a \in ClauseNames : NV(plan[a]) \cap V = {}
  BY <1>5, FreshApart
<1>7. GoodNodes(s) /\ NV(s) = V
  BY <1>1, SingleNode
<1>8. Shaped("fts", s)
  BY <1>1 DEF Shaped
<1> HIDE DEF s, V
<1>9. Puts(plan, plan', "fts", s)
  <2>1. DOMAIN plan = ClauseNames \cup {"fts5", "deny"} /\ {plan.fts5, plan.deny} \subseteq BOOLEAN
    BY <1>3 DEF PlanFits
  <2>2. "fts" \in ClauseNames /\ "fts5" \notin ClauseNames /\ "deny" \notin ClauseNames
    BY DEF ClauseNames
  <2>3. DOMAIN plan' = DOMAIN plan /\ \A a \in DOMAIN plan : plan'[a] = IF a = "fts5" THEN fts5 ELSE IF a = "fts" THEN s ELSE plan[a]
    BY <1>2, <2>1, <2>2
  <2>4. plan'["fts5"] = fts5 /\ plan'["deny"] = plan["deny"] /\ plan'["fts"] = s
    BY <2>1, <2>2, <2>3
  <2> QED
    BY <2>1, <2>2, <2>3, <2>4 DEF Puts
<1>10. "fts" \in ClauseNames /\ other' = other
  BY <1>2 DEF ClauseNames
<1>11. Written("fts", s, V)
  BY <1>3, <1>4, <1>6, <1>7, <1>8, <1>9, <1>10 DEF Written
<1> QED
  BY <1>11, PutKeeps

LEMMA DenyKeeps == ASSUME PlansInv, deny PROVE PlansInv'
<1>1. plan' = [plan EXCEPT !.deny = TRUE] /\ other' = other /\ given' = given
  BY DEF deny
<1>2. PlanFits(plan) /\ given \in 0 .. MaxValues /\ Good(other) /\ Separate
  BY DEF PlansInv
<1>3. DOMAIN plan = ClauseNames \cup {"fts5", "deny"} /\ {plan.fts5, plan.deny} \subseteq BOOLEAN
  BY <1>2 DEF PlanFits
<1>4. "fts5" \notin ClauseNames /\ "deny" \notin ClauseNames /\ "fts" \in ClauseNames
  BY DEF ClauseNames
<1>5. DOMAIN plan' = DOMAIN plan /\ \A a \in DOMAIN plan : plan'[a] = IF a = "deny" THEN TRUE ELSE plan[a]
  BY <1>1, <1>3
<1>6. \A a \in ClauseNames : plan'[a] = plan[a]
  BY <1>3, <1>4, <1>5
<1>7. plan'["fts5"] = plan["fts5"] /\ plan'["deny"] = TRUE
  BY <1>3, <1>5
<1>8. Puts(plan, plan', "fts", plan["fts"])
  BY <1>3, <1>4, <1>5, <1>6, <1>7 DEF Puts
<1>9. Shaped("fts", plan["fts"]) /\ GoodNodes(plan["fts"])
  BY <1>2, <1>4 DEF Shaped, PlanFits
<1>10. \A a \in ClauseNames : a # "fts" => NV(plan["fts"]) \cap NV(plan[a]) = {}
  BY <1>2, <1>4 DEF PlanFits
<1>11. PlanFits(plan')
  BY <1>2, <1>4, <1>8, <1>9, <1>10, FitsPut
<1>12. Separate'
  <2>1. \A a \in ClauseNames : NV(plan'[a]) = NV(plan[a])
    BY <1>6
  <2> QED
    BY <1>1, <1>2, <2>1 DEF Separate
<1> QED
  BY <1>1, <1>2, <1>11, <1>12 DEF PlansInv

LEMMA AnotherKeeps == ASSUME PlansInv, StartAnother PROVE PlansInv'
<1>1. other' = CompileSelect(plan) /\ plan' = emptyPlan /\ given' = given
  BY DEF StartAnother
<1>2. PlanFits(plan) /\ given \in 0 .. MaxValues /\ Separate
  BY DEF PlansInv
<1>3. SelectRight(plan)
  BY <1>2, SelectsAreRight
<1>4. Good(CompileSelect(plan)) /\ Vals(CompileSelect(plan)) \subseteq NV(SelectNodes(plan))
  BY <1>3 DEF SelectRight
<1>5. Gathers(plan, SelectNodes(plan), ClauseNames)
  BY <1>2, SelectGathers DEF AllGather
<1>6. NV(SelectNodes(plan)) \subseteq 1 .. given
  <2>1. ASSUME NEW v \in NV(SelectNodes(plan)) PROVE v \in 1 .. given
    <3>1. PICK a \in ClauseNames : v \in NV(plan[a])
      BY <1>5 DEF Gathers
    <3> QED
      BY <1>2, <3>1 DEF Separate
  <2> QED
    BY <2>1
<1>7. Vals(other') \subseteq 1 .. given' /\ Good(other')
  BY <1>1, <1>4, <1>6
<1>8. PlanFits(plan') /\ \A a \in ClauseNames : NV(plan'[a]) = {}
  BY <1>1, EmptyFits, NoNodes
<1>9. Separate'
  BY <1>7, <1>8 DEF Separate
<1> QED
  BY <1>1, <1>2, <1>7, <1>8, <1>9 DEF PlansInv

LEMMA PlansSteps == ASSUME PlansInv, [PlansNext]_plansVars PROVE PlansInv'
<1>1. CASE Where \/ having \/ jsonSet
  BY <1>1, ForkOneKeeps DEF Where, having, jsonSet
<1>2. CASE WhereBetween
  BY <1>2, BetweenKeeps
<1>3. CASE whereExpr
  BY <1>3, ExprKeeps
<1>4. CASE WhereSubquery
  <2>1. plan' = [plan EXCEPT !["filters"] = Append(plan["filters"], SubPlan("plan"))] /\ other' = Nothing /\ given' = given
    BY <1>4 DEF WhereSubquery, Embed
  <2> QED
    BY <2>1, SubKeeps
<1>5. CASE union
  <2>1. plan' = [plan EXCEPT !["unions"] = Append(plan["unions"], SubPlan("union"))] /\ other' = Nothing /\ given' = given
    BY <1>5 DEF union, Embed
  <2> QED
    BY <2>1, SubKeeps
<1>6. CASE with
  <2>1. plan' = [plan EXCEPT !["with"] = Append(plan["with"], SubPlan("plan"))] /\ other' = Nothing /\ given' = given /\ plan.with = << >>
    BY <1>6 DEF with, Embed
  <2>2. \A x : Append(<< >>, x) = <<x>>
    OBVIOUS
  <2>3. Append(plan["with"], SubPlan("plan")) = <<SubPlan("plan")>>
    BY <2>1, <2>2
  <2> QED
    BY <2>1, <2>3, SubKeeps
<1>7. CASE subquery
  <2>1. plan' = [plan EXCEPT !["fromSubquery"] = <<SubPlan("plan")>>] /\ other' = Nothing /\ given' = given
    BY <1>7 DEF subquery
  <2> QED
    BY <2>1, SubKeeps
<1>8. CASE \E fts5 \in BOOLEAN : ftsSearch(fts5)
  BY <1>8, FtsKeeps
<1>9. CASE deny
  BY <1>9, DenyKeeps
<1>10. CASE StartAnother
  BY <1>10, AnotherKeeps
<1>11. CASE UNCHANGED plansVars
  <2>1. plan' = plan /\ other' = other /\ given' = given
    BY <1>11 DEF plansVars
  <2>2. Separate'
    BY <2>1 DEF PlansInv, Separate
  <2> QED
    BY <2>1, <2>2 DEF PlansInv
<1> QED
  BY <1>1, <1>2, <1>3, <1>4, <1>5, <1>6, <1>7, <1>8, <1>9, <1>10, <1>11 DEF PlansNext

LEMMA PlansTyped == ASSUME PlansInv PROVE PlansTypeOK
<1> DEFINE s == SelectNodes(plan)
<1>1. PlanFits(plan) /\ given \in 0 .. MaxValues /\ Separate
  BY DEF PlansInv
<1>2. Gathers(plan, s, ClauseNames)
  BY <1>1, SelectGathers DEF AllGather
<1>3. s \in Seq(PlanNodes)
  BY <1>2 DEF Gathers, GoodNodes
<1> HIDE DEF s
<1>4. ASSUME NEW i \in 1 .. Len(s)
      PROVE  s[i].kind \in {"values", "raw", "plan", "union"} /\ Range(s[i].code.params) \subseteq 1 .. given
  <2>1. s[i] \in PlanNodes
    BY <1>3
  <2>2. Range(s[i].code.params) \subseteq PV(s)
    BY <1>4 DEF PV
  <2>3. PV(s) \subseteq NV(s)
    BY DEF PV, NV, Vals
  <2>4. NV(s) \subseteq 1 .. given
    <3>1. ASSUME NEW v \in NV(s) PROVE v \in 1 .. given
      <4>1. PICK a \in ClauseNames : v \in NV(plan[a])
        BY <1>2 DEF Gathers
      <4> QED
        BY <1>1, <4>1 DEF Separate
    <3> QED
      BY <3>1
  <2> QED
    BY <2>1, <2>2, <2>3, <2>4 DEF PlanNodes, Kinds
<1>5. Range(other.params) \subseteq 1 .. given
  BY <1>1 DEF Separate, Vals
<1>6. {plan.deny, plan.fts5} \subseteq BOOLEAN
  BY <1>1 DEF PlanFits
<1> QED
  BY <1>1, <1>4, <1>5, <1>6 DEF PlansTypeOK, s

\* Nodes are values, raw SQL or sub-plans, and hold values that were given.
THEOREM PlansTypeCorrect == PlansSpec => []PlansTypeOK
<1>1. PlansInit => PlansInv
  BY PlansStart
<1>2. PlansInv /\ [PlansNext]_plansVars => PlansInv'
  BY PlansSteps
<1>3. PlansInv => PlansTypeOK
  BY PlansTyped
<1> QED
  BY <1>1, <1>2, <1>3, PTL DEF PlansSpec

-----------------------------------------------------------------------------
\* Inserts: values of two rows, that differ, and those to set on conflict.
Rows(r, t, set) ==
  /\ Differ(r) /\ Differ(t) /\ Differ(set) /\ {Len(r), Len(t)} \subseteq {1, 2}
  /\ Range(r) \cap Range(t) = {} /\ Range(r) \cap Range(set) = {} /\ Range(t) \cap Range(set) = {}
  /\ 0 \notin Range(r) /\ 0 \notin Range(t) /\ 0 \notin Range(set)

\* A row cut or filled to the columns of the first one.
Row(t, n) == [k \in 1 .. n |-> IF k <= Len(t) THEN t[k] ELSE 0]

LEMMA RowDiffers ==
  ASSUME NEW t, Differ(t), NEW n \in {1, 2}, Len(t) \in {1, 2}, 0 \notin Range(t)
  PROVE  Differ(Row(t, n)) /\ Range(Row(t, n)) \subseteq Range(t) \cup {0} /\ (n = Len(t) => Row(t, n) = t)
<1> DEFINE u == Row(t, n)
<1>1. t \in Seq(Nat) /\ DOMAIN t = 1 .. Len(t) /\ n \in Nat /\ Len(t) \in Nat
  BY DEF Differ
<1>2. \A k \in 1 .. Len(t) : t[k] \in Nat /\ t[k] # 0 /\ t[k] \in Range(t)
  BY <1>1 DEF Range
<1>3. DOMAIN u = 1 .. n /\ \A k \in 1 .. n : u[k] = IF k <= Len(t) THEN t[k] ELSE 0
  BY DEF Row
<1>4. u \in [1 .. n -> Nat]
  <2>1. \A k \in 1 .. n : (IF k <= Len(t) THEN t[k] ELSE 0) \in Nat
    BY <1>1, <1>2
  <2> QED
    BY <2>1 DEF Row
<1> HIDE DEF u
<1>5. u \in Seq(Nat) /\ Len(u) = n
  <2>1. u \in Seq(Nat)
    <3>1. \E m \in Nat : u \in [1 .. m -> Nat]
      BY <1>1, <1>4, Zenon
    <3> QED
      BY <3>1, SeqDef, Zenon
  <2> QED
    BY <1>1, <1>3, <2>1, LenProperties
<1>6. \A i, j \in 1 .. n : u[i] = u[j] => i = j
  <2>1. ASSUME NEW i \in 1 .. n, NEW j \in 1 .. n, u[i] = u[j] PROVE i = j
    <3>0. i \in {1, 2} /\ j \in {1, 2} /\ i \in Nat /\ j \in Nat
      BY <1>1
    <3>1. CASE i <= Len(t) /\ j <= Len(t)
      <4>1. i \in 1 .. Len(t) /\ j \in 1 .. Len(t) /\ t[i] = t[j]
        BY <1>1, <1>3, <2>1, <3>0, <3>1
      <4> QED
        BY <4>1 DEF Differ
    <3>2. CASE i > Len(t) /\ j > Len(t)
      BY <3>0, <3>2
    <3>3. CASE i <= Len(t) /\ j > Len(t)
      <4>1. i \in 1 .. Len(t) /\ u[i] = t[i] /\ u[j] = 0
        BY <1>1, <1>3, <3>0, <3>3
      <4> QED
        BY <1>2, <2>1, <4>1
    <3>4. CASE i > Len(t) /\ j <= Len(t)
      <4>1. j \in 1 .. Len(t) /\ u[j] = t[j] /\ u[i] = 0
        BY <1>1, <1>3, <3>0, <3>4
      <4> QED
        BY <1>2, <2>1, <4>1
    <3> QED
      BY <1>1, <3>0, <3>1, <3>2, <3>3, <3>4
  <2> QED
    BY <2>1
<1>7. Range(u) \subseteq Range(t) \cup {0}
  <2>1. ASSUME NEW k \in 1 .. n PROVE u[k] \in Range(t) \cup {0}
    BY <1>1, <1>2, <1>3
  <2>2. Range(u) = {u[k] : k \in 1 .. n}
    BY <1>3 DEF Range
  <2> QED
    BY <2>1, <2>2
<1>8. n = Len(t) => u = t
  <2>1. ASSUME n = Len(t) PROVE \A k \in 1 .. Len(u) : u[k] = t[k]
    BY <1>1, <1>3, <1>5, <2>1
  <2> QED
    BY <1>1, <1>5, <2>1, SeqEqual
<1> QED
  BY <1>5, <1>6, <1>7, <1>8 DEF Differ, u

LEMMA InsertNodes ==
  ASSUME NEW r, NEW t, NEW set, Differ(r)
  PROVE  CompileInsert(<<r, t>>, set) = Clause(<< >>, (<<Values(Row(r, Len(r)))>> \o <<Values(Row(t, Len(r)))>>) \o <<Values(set)>>)
<1> DEFINE n == Len(r)
           tuples == <<r, t>>
           cells == [i \in 1 .. 2 |-> [k \in 1 .. n |-> IF k <= Len(tuples[i]) THEN tuples[i][k] ELSE 0]]
           nodes == [i \in 1 .. 2 |-> Values(cells[i])]
<1>1. Len(tuples) = 2 /\ tuples[1] = r /\ tuples[2] = t
  OBVIOUS
<1>2. cells = [i \in 1 .. Len(tuples) |-> [k \in 1 .. Len(tuples[1]) |-> IF k <= Len(tuples[i]) THEN tuples[i][k] ELSE 0]]
  BY <1>1
<1>3. cells[1] = Row(r, n) /\ cells[2] = Row(t, n) /\ Len(cells) = 2
  BY <1>1 DEF Row
<1>4. CompileInsert(tuples, set) = Clause(<< >>, [i \in 1 .. Len(cells) |-> Values(cells[i])] \o <<Values(set)>>)
  BY <1>2 DEF CompileInsert
<1> HIDE DEF cells
<1>5. nodes = <<Values(Row(r, n)), Values(Row(t, n))>>
  BY <1>3
<1>6. CompileInsert(tuples, set) = Clause(<< >>, nodes \o <<Values(set)>>)
  BY <1>3, <1>4
<1>7. \A x, y : <<x, y>> = <<x>> \o <<y>>
  <2> TAKE x, y
  <2> DEFINE w == <<x>> \o <<y>>
  <2>1. Len(w) = 2 /\ w[1] = x /\ w[2] = y /\ w \in Seq({x, y})
    OBVIOUS
  <2> HIDE DEF w
  <2>2. w = <<x, y>>
    BY <2>1
  <2> QED
    BY <2>2 DEF w
<1> HIDE DEF nodes
<1> QED
  BY <1>5, <1>6, <1>7

\* The nodes of values are fine wherever they are.
LEMMA InsertRight ==
  ASSUME NEW r, NEW t, NEW set, Rows(r, t, set)
  PROVE  /\ \A style \in Styles : Bound(CompileInsert(<<r, t>>, set), style)
         /\ Len(r) = Len(t) => Range(r \o t \o set) = Range(CompileInsert(<<r, t>>, set).params)
<1> DEFINE n == Len(r)
           a == Row(r, n)
           b == Row(t, n)
           two == <<Values(a)>> \o <<Values(b)>>
           s == two \o <<Values(set)>>
           c == CompileInsert(<<r, t>>, set)
<1>1. Differ(r) /\ Differ(t) /\ Differ(set) /\ n \in {1, 2} /\ Len(t) \in {1, 2}
  BY DEF Rows
<1>2. c = Clause(<< >>, s)
  BY <1>1, InsertNodes
<1>3. Differ(a) /\ a = r
  BY <1>1, RowDiffers DEF Rows
<1>4. Differ(b) /\ Range(b) \subseteq Range(t) \cup {0} /\ (n = Len(t) => b = t)
  BY <1>1, RowDiffers DEF Rows
<1>5. Range(a) \cap Range(b) = {} /\ Range(a) \cap Range(set) = {} /\ Range(b) \cap Range(set) = {}
  BY <1>3, <1>4 DEF Rows
<1> HIDE DEF a, b, c
<1> DEFINE x == Values(a)
           y == Values(b)
           z == Values(set)
<1>6. /\ GoodNode(x) /\ Vals(x.code) = Range(a) /\ x.code.params = a /\ ~HasMarks(x) /\ x.kind = "values"
      /\ \A style \in Styles : Bound(x.code, style)
  BY <1>3, ValuesGood
<1>7. /\ GoodNode(y) /\ Vals(y.code) = Range(b) /\ y.code.params = b /\ ~HasMarks(y) /\ y.kind = "values"
      /\ \A style \in Styles : Bound(y.code, style)
  BY <1>4, ValuesGood
<1>8. /\ GoodNode(z) /\ Vals(z.code) = Range(set) /\ z.code.params = set /\ ~HasMarks(z) /\ z.kind = "values"
      /\ \A style \in Styles : Bound(z.code, style)
  BY <1>1, ValuesGood
<1> HIDE DEF x, y, z
<1>9. /\ <<x>> \in Seq(PlanNodes) /\ NV(<<x>>) = Range(a) /\ PV(<<x>>) = Range(a) /\ GoodNodes(<<x>>)
      /\ <<y>> \in Seq(PlanNodes) /\ NV(<<y>>) = Range(b) /\ PV(<<y>>) = Range(b) /\ GoodNodes(<<y>>)
      /\ <<z>> \in Seq(PlanNodes) /\ NV(<<z>>) = Range(set) /\ PV(<<z>>) = Range(set) /\ GoodNodes(<<z>>)
  BY <1>6, <1>7, <1>8, SingleNode
<1>10. two = <<x>> \o <<y>> /\ s = two \o <<z>>
  BY DEF x, y, z
<1> HIDE DEF two, s
<1>11. Len(s) = 3 /\ s[1] = x /\ s[2] = y /\ s[3] = z
  <2>1. Len(two) = 2 /\ two[1] = x /\ two[2] = y
    BY <1>9, <1>10
  <2>2. two \in Seq(PlanNodes)
    BY <1>9, <1>10
  <2>3. Len(s) = 3 /\ s[1] = two[1] /\ s[2] = two[2] /\ s[3] = z
    BY <1>9, <1>10, <2>1, <2>2
  <2> QED
    BY <2>1, <2>3
<1>12. GoodNodes(two) /\ NV(two) = Range(a) \cup Range(b) /\ PV(two) = Range(a) \cup Range(b) /\ two \in Seq(PlanNodes)
  <2>1. JoinNodes(<<x>>, <<y>>, two)
    BY <1>9, <1>10, NodesJoin
  <2> QED
    BY <1>5, <1>9, <2>1 DEF JoinNodes
<1>13. GoodNodes(s) /\ PV(s) = Range(a) \cup Range(b) \cup Range(set)
  <2>1. JoinNodes(two, <<z>>, s)
    BY <1>9, <1>10, <1>12, NodesJoin
  <2> QED
    BY <1>5, <1>9, <1>12, <2>1 DEF JoinNodes
<1>14. \A k \in 1 .. Len(s) : ~HasMarks(s[k]) /\ s[k].kind = "values" /\ \A style \in Styles : Bound(s[k].code, style)
  <2>1. \A k \in 1 .. 3 : k = 1 \/ k = 2 \/ k = 3
    OBVIOUS
  <2> QED
    BY <1>6, <1>7, <1>8, <1>11, <2>1
<1>15. \A k \in 1 .. Len(s) : FineAt(s, k)
  BY <1>14 DEF FineAt
<1>16. \A style \in Styles : ~Astray(s, style)
  BY <1>13, <1>14, <1>15, AstrayMeans DEF Styles
<1>17. \A style \in Styles : Bound(c, style)
  BY <1>2, <1>13, <1>16, ClauseBinds
<1>18. Range(c.params) = PV(s)
  <2>1. << >> \in Seq(Nat) /\ s \in Seq(PlanNodes)
    BY <1>13 DEF GoodNodes
  <2>2. PICK w \in Seq(Nat) : c.params = << >> \o w /\ Range(w) = PV(s)
    BY <1>2, <2>1, ClauseHasRight DEF ClauseHas
  <2>3. << >> \o w = w
    BY <2>2, ConcatEmptySeq
  <2> QED
    BY <2>2, <2>3
<1>19. Len(r) = Len(t) => Range(r \o t \o set) = Range(c.params)
  <2> SUFFICES ASSUME Len(r) = Len(t) PROVE Range((r \o t) \o set) = Range(c.params)
    OBVIOUS
  <2>1. r \in Seq(Nat) /\ t \in Seq(Nat) /\ set \in Seq(Nat)
    BY <1>1 DEF Differ
  <2>2. (r \o t) \in Seq(Nat) /\ Range(r \o t) = Range(r) \cup Range(t)
    BY <2>1, RangeJoin
  <2> DEFINE v == r \o t
  <2> HIDE DEF v
  <2>3. v \in Seq(Nat) /\ Range(v) = Range(r) \cup Range(t)
    BY <2>2 DEF v
  <2>4. Range(v \o set) = Range(v) \cup Range(set)
    BY <2>1, <2>3, RangeJoin
  <2>5. b = t
    BY <1>4
  <2> QED
    BY <1>3, <1>13, <1>18, <2>3, <2>4, <2>5 DEF v
<1> QED
  BY <1>17, <1>19 DEF c

\* The values of the next statement.
FreshValues(n) == [i \in 1 .. n |-> given + i]
LEMMA FreshDiffer ==
  ASSUME PlansInv, NEW n \in 0 .. 2
  PROVE  /\ Differ(FreshValues(n)) /\ Len(FreshValues(n)) = n /\ \A v \in Range(FreshValues(n)) : v \in given + 1 .. given + n
         /\ FreshValues(n) \in Seq(Nat)
<1> DEFINE u == FreshValues(n)
<1>1. given \in Nat /\ n \in Nat
  BY QueryPlansConstantsOK DEF PlansInv
<1>2. DOMAIN u = 1 .. n /\ \A i \in 1 .. n : u[i] = given + i
  BY DEF FreshValues
<1>3. u \in [1 .. n -> Nat]
  BY <1>1 DEF FreshValues
<1> HIDE DEF u
<1>4. u \in Seq(Nat) /\ Len(u) = n
  <2>1. \E m \in Nat : u \in [1 .. m -> Nat]
    BY <1>1, <1>3, Zenon
  <2>2. u \in Seq(Nat)
    BY <2>1, SeqDef, Zenon
  <2> QED
    BY <1>1, <1>2, <2>2, LenProperties
<1>5. \A i, j \in 1 .. n : u[i] = u[j] => i = j
  BY <1>1, <1>2
<1>6. \A v \in Range(u) : v \in given + 1 .. given + n
  <2>1. Range(u) = {u[i] : i \in 1 .. n}
    BY <1>2 DEF Range
  <2> QED
    BY <1>1, <1>2, <2>1
<1> QED
  BY <1>4, <1>5, <1>6 DEF Differ, u

LEMMA InsertRows ==
  ASSUME PlansInv, NEW r \in {FreshValues(1), FreshValues(2)}, NEW t \in {<<given + 3>>, <<given + 3, given + 4>>},
         NEW set \in {<< >>, <<given + 5>>}
  PROVE  Rows(r, t, set)
<1> DEFINE v3 == given + 3
           v4 == given + 4
           v5 == given + 5
<1>0. given \in Nat
  BY QueryPlansConstantsOK DEF PlansInv
<1>1. v3 \in Nat /\ v4 \in Nat /\ v5 \in Nat /\ v3 # v4 /\ v3 # v5 /\ v4 # v5 /\ v3 # 0 /\ v4 # 0 /\ v5 # 0
  BY <1>0
<1>2. Differ(r) /\ Len(r) \in {1, 2} /\ \A v \in Range(r) : v \in given + 1 .. given + 2
  <2>1. CASE r = FreshValues(1)
    <3>1. Differ(r) /\ Len(r) = 1 /\ \A v \in Range(r) : v \in given + 1 .. given + 1
      BY <2>1, FreshDiffer
    <3> QED
      BY <1>0, <3>1
  <2>2. CASE r = FreshValues(2)
    BY <2>2, FreshDiffer
  <2> QED
    BY <2>1, <2>2
<1>3. 0 \notin Range(r) /\ v3 \notin Range(r) /\ v4 \notin Range(r) /\ v5 \notin Range(r)
  BY <1>0, <1>2
<1>4. t \in {<<v3>>, <<v3, v4>>} /\ set \in {<< >>, <<v5>>}
  OBVIOUS
<1> HIDE DEF v3, v4, v5
<1>5. Differ(t) /\ Len(t) \in {1, 2} /\ Range(t) \subseteq {v3, v4}
  <2>1. CASE t = <<v3>>
    BY <1>1, <2>1, OneDiffers
  <2>2. CASE t = <<v3, v4>>
    BY <1>1, <2>2, TwoDiffer
  <2> QED
    BY <1>4, <2>1, <2>2
<1>6. Differ(set) /\ Range(set) \subseteq {v5}
  <2>1. CASE set = << >>
    <3>1. << >> \in Seq(Nat) /\ Len(<< >>) = 0 /\ 1 .. 0 = {} /\ DOMAIN << >> = {}
      OBVIOUS
    <3> QED
      BY <2>1, <3>1 DEF Differ, Range
  <2>2. CASE set = <<v5>>
    BY <1>1, <2>2, OneDiffers
  <2> QED
    BY <1>4, <2>1, <2>2
<1> QED
  BY <1>1, <1>2, <1>3, <1>5, <1>6 DEF Rows

\* Updates: the values set, then the filters.
LEMMA UpdateRight ==
  ASSUME PlansInv, NEW n \in 0 .. 2
  PROVE  LET nodes == <<Values(FreshValues(n))>> \o WhereNodes(plan)
         IN  \A style \in Styles : Bound(CompileUpdate(plan, FreshValues(n)), style) <=> ~Astray(nodes, style)
<1> DEFINE x == Values(FreshValues(n))
           w == WhereNodes(plan)
           s == <<x>> \o w
<1>1. /\ GoodNode(x) /\ Vals(x.code) = Range(FreshValues(n))
  BY FreshDiffer, ValuesGood
<1>2. PlanFits(plan) /\ Separate /\ given \in Nat
  BY QueryPlansConstantsOK DEF PlansInv
<1>3. Gathers(plan, w, {"filters", "rawFilters"})
  BY <1>2, SelectGathers DEF AllGather
<1> HIDE DEF x
<1>4. plan.filters \in Seq(PlanNodes) /\ plan.rawFilters \in Seq(PlanNodes) /\ w = plan.filters \o plan.rawFilters
  BY <1>2, ClausesOf DEF PlanClausesFit, WhereNodes
<1> HIDE DEF w
<1>5. GoodNodes(w) /\ w \in Seq(PlanNodes)
  BY <1>3 DEF Gathers, GoodNodes
<1>6. \A v \in NV(w) : v \in 1 .. given
  <2>1. ASSUME NEW v \in NV(w) PROVE v \in 1 .. given
    <3>1. PICK a \in {"filters", "rawFilters"} : v \in NV(plan[a])
      BY <1>3 DEF Gathers
    <3>2. a \in ClauseNames
      BY DEF ClauseNames
    <3> QED
      BY <1>2, <3>1, <3>2 DEF Separate
  <2> QED
    BY <2>1
<1>7. <<x>> \in Seq(PlanNodes) /\ NV(<<x>>) = Vals(x.code) /\ GoodNodes(<<x>>)
  BY <1>1, SingleNode
<1>8. NV(<<x>>) \cap NV(w) = {}
  <2>1. \A v \in Vals(x.code) : v \in given + 1 .. given + n
    BY <1>1, FreshDiffer
  <2>2. \A v \in Vals(x.code) : v \notin 1 .. given
    BY <1>2, <2>1
  <2> QED
    BY <1>6, <1>7, <2>2
<1>9. JoinNodes(<<x>>, w, s)
  BY <1>5, <1>7, NodesJoin
<1> HIDE DEF s
<1>10. GoodNodes(s)
  BY <1>5, <1>7, <1>8, <1>9 DEF JoinNodes
<1>11. (<<x>> \o plan.filters) \o plan.rawFilters = s
  <2> DEFINE o == <<x>>
             f == plan.filters
             g == plan.rawFilters
  <2>1. \A p, q, r \in Seq(PlanNodes) : (p \o q) \o r = p \o (q \o r)
    BY JoinAssociates, Z3
  <2>2. o \in Seq(PlanNodes) /\ f \in Seq(PlanNodes) /\ g \in Seq(PlanNodes)
    BY <1>4, <1>7
  <2> HIDE DEF o, f, g
  <2>3. (o \o f) \o g = o \o (f \o g)
    BY <2>1, <2>2, Zenon
  <2>4. w = f \o g
    BY <1>4 DEF f, g
  <2>5. (o \o f) \o g = s
    BY <2>3, <2>4 DEF s, o
  <2> QED
    BY <2>5 DEF o, f, g
<1>12. CompileUpdate(plan, FreshValues(n)) = Clause(<< >>, s)
  BY <1>11 DEF CompileUpdate, x
<1>13. \A style \in Styles : Bound(Clause(<< >>, s), style) <=> ~Astray(s, style)
  BY <1>10, ClauseBinds
<1>14. s = <<Values(FreshValues(n))>> \o WhereNodes(plan)
  BY DEF s, x, w
<1> QED
  BY <1>12, <1>13, <1>14

LEMMA DeleteRight ==
  ASSUME PlansInv
  PROVE  \A style \in Styles : Bound(CompileDelete(plan), style) <=> ~Astray(WhereNodes(plan), style)
<1>1. Gathers(plan, WhereNodes(plan), {"filters", "rawFilters"})
  BY SelectGathers DEF AllGather, PlansInv
<1>2. GoodNodes(WhereNodes(plan))
  BY <1>1 DEF Gathers
<1>3. CompileDelete(plan) = Clause(<< >>, WhereNodes(plan))
  BY DEF CompileDelete, WhereNodes
<1> QED
  BY <1>2, <1>3, ClauseBinds

LEMMA StatementsRight == ASSUME PlansInv PROVE PlansBindValues
<1> DEFINE filters == plan.filters \o plan.rawFilters
           fresh(n) == [i \in 1 .. n |-> given + i]
           pairs   == {fresh(1), fresh(2)} \X {<<given + 3>>, <<given + 3, given + 4>>}
<1>1. filters = WhereNodes(plan) /\ \A n : fresh(n) = FreshValues(n)
  BY DEF WhereNodes, FreshValues
<1>2. \A style \in Styles : Bound(CompileSelect(plan), style) <=> ~Misplaced(plan, style)
  BY SelectsAreRight DEF SelectRight, PlansInv
<1>3. \A style \in Styles : Bound(CompileDelete(plan), style) <=> ~Astray(filters, style)
  BY <1>1, DeleteRight
<1>4. \A style \in Styles : \A n \in 0 .. 2 :
        Bound(CompileUpdate(plan, fresh(n)), style) <=> ~Astray(<<Values(fresh(n))>> \o filters, style)
  <2> HIDE DEF filters, fresh
  <2>1. ASSUME NEW style \in Styles, NEW n \in 0 .. 2
        PROVE  Bound(CompileUpdate(plan, fresh(n)), style) <=> ~Astray(<<Values(fresh(n))>> \o filters, style)
    <3>1. Bound(CompileUpdate(plan, FreshValues(n)), style) <=> ~Astray(<<Values(FreshValues(n))>> \o WhereNodes(plan), style)
      BY UpdateRight
    <3> QED
      BY <1>1, <3>1
  <2> QED
    BY <2>1
<1>5. ASSUME NEW pair \in pairs, NEW set \in {<< >>, <<given + 5>>}
      PROVE  /\ \A style \in Styles : Bound(CompileInsert(pair, set), style)
             /\ Len(pair[1]) = Len(pair[2]) =>
                  Range(pair[1] \o pair[2] \o set) = Range(CompileInsert(pair, set).params)
  <2> DEFINE r == pair[1]
             t == pair[2]
  <2> DEFINE R == {fresh(1), fresh(2)}
             T == {<<given + 3>>, <<given + 3, given + 4>>}
  <2>0. pair \in R \X T
    OBVIOUS
  <2> HIDE DEF R, T
  <2>p. pair = <<r, t>> /\ r \in R /\ t \in T
    BY <2>0
  <2>1. pair = <<r, t>> /\ r \in {fresh(1), fresh(2)} /\ t \in {<<given + 3>>, <<given + 3, given + 4>>}
    BY <2>p, Zenon DEF R, T
  <2>2. r \in {FreshValues(1), FreshValues(2)}
    BY <1>1, <2>1
  <2> HIDE DEF r, t
  <2>3. Rows(r, t, set)
    BY <2>1, <2>2, InsertRows
  <2>4. /\ \A style \in Styles : Bound(CompileInsert(<<r, t>>, set), style)
        /\ Len(r) = Len(t) => Range(r \o t \o set) = Range(CompileInsert(<<r, t>>, set).params)
    BY <2>3, InsertRight
  <2> QED
    BY <2>1, <2>4 DEF r, t
<1> HIDE DEF filters, fresh, pairs
<1>6. given > 0 => \A style \in Styles :
        /\ Bound(CompileSelect(plan), style) <=> ~Misplaced(plan, style)
        /\ \A n \in 0 .. 2 :
             Bound(CompileUpdate(plan, fresh(n)), style) <=> ~Astray(<<Values(fresh(n))>> \o filters, style)
        /\ Bound(CompileDelete(plan), style) <=> ~Astray(filters, style)
        /\ \A pair \in pairs, set \in {<< >>, <<given + 5>>} :
             /\ Bound(CompileInsert(pair, set), style)
             /\ Len(pair[1]) = Len(pair[2]) =>
                  Range(pair[1] \o pair[2] \o set) = Range(CompileInsert(pair, set).params)
  BY <1>2, <1>3, <1>4, <1>5
<1> QED
  BY <1>6 DEF PlansBindValues, filters, fresh, pairs

\* Whatever the methods called before, a value of a select is bound where it
\* was meant but in the plans listed, updates and deletes go wrong only by
\* their filters, and inserts never.
THEOREM PlansBindRight == PlansSpec => []PlansBindValues
<1>1. PlansInit => PlansInv
  BY PlansStart
<1>2. PlansInv /\ [PlansNext]_plansVars => PlansInv'
  BY PlansSteps
<1>3. PlansInv => PlansBindValues
  BY StatementsRight
<1> QED
  BY <1>1, <1>2, <1>3, PTL DEF PlansSpec

Keys0 == Ids \cup {NoKey}
LoadsOf(n) == [rel : Names, rows : Seq(1 .. n)]
ObjectsOf(n) == [id : Ids, parent : Keys0, loaded : SUBSET LoadsOf(n)]
TaskOf(n) == [on : Seq(1 .. n), tree : Seq(Nodes) \ {<< >>}]

\* What the objects are, and what is still to load, in types: objs, tsks, the
\* task asked for, and the queries made.
ObjectsFit(objs) == objs \in Seq(ObjectsOf(Len(objs)))
TasksFit(objs, tsks) == tsks \in Seq(TaskOf(Len(objs)))

RelTypes ==
  /\ people \in Tables /\ writes \in 0 .. MaxWrites
  /\ ObjectsFit(objects) /\ TasksFit(objects, tasks)
  /\ progress \in {"idle", "running", "done"}
  /\ progress = "running" <=> tasks # << >>
  /\ progress = "idle" => objects = << >> /\ loads = {} /\ asked = [on |-> << >>, tree |-> << >>]
  /\ asked \in [on : Seq(1 .. Len(objects)), tree : Seq(Nodes)]
  /\ \A i, j \in DOMAIN asked.tree : asked.tree[i].rel = asked.tree[j].rel => i = j

\* The rows that l gives o are those that the query found for it.
FitsQuery(objs, query, o, l) ==
  LET mine == {objs[r].id : r \in Range(l.rows)}
      all  == IF Truthy(KeyOf(query.rel, objs[o])) THEN Related(query.table, query.rel, objs[o]) ELSE {}
  IN  /\ l.rel = query.rel /\ mine \subseteq all
      /\ IF query.rel = "children" THEN mine = all ELSE all # {} => mine # {}
      /\ \A r \in Range(l.rows) : objs[r].parent = query.table[objs[r].id]
LoadsHold ==
  \A query \in loads :
    /\ query.rel \in Names /\ query.on \subseteq DOMAIN objects
    /\ \A o \in query.on : \E l \in objects[o].loaded : FitsQuery(objects, query, o, l)

\* Whatever was loaded for a row belongs to it.
RowsBelong ==
  \A o \in DOMAIN objects : \A l \in objects[o].loaded : \A r \in Range(l.rows) :
    IF l.rel = "parent" THEN objects[r].id = objects[o].parent ELSE objects[r].parent = objects[o].id

\* As long as nobody wrote the table, the objects are its rows.
ObjectsCurrent ==
  writes = 0 => \A o \in DOMAIN objects :
    objects[o].id \in DOMAIN people /\ objects[o].parent = people[objects[o].id]

\* What was asked for is loaded, or has no key to look up, or is still to do.
HasLoaded(on, node) ==
  \/ \A o \in Range(on) : ~Lacks(o, node.rel)
  \/ \A o \in Range(on) : ~Truthy(KeyOf(node.rel, objects[o]))
Pending(on, node) == \E t \in Range(tasks) : t.on = on /\ node \in Range(t.tree)
AllHandled == \A t \in AllTasks : \A node \in Range(t.tree) : HasLoaded(t.on, node) \/ Pending(t.on, node)

\* A task is what is left of the one asked for, or for other rows.
TasksApart ==
  \A t \in Range(tasks) : \/ t.on = asked.on /\ Range(t.tree) \subseteq Range(asked.tree)
                          \/ Range(t.on) \cap Range(asked.on) = {}

RelInv == RelTypes /\ LoadsHold /\ RowsBelong /\ ObjectsCurrent /\ AllHandled /\ TasksApart

LEMMA AscendingList ==
  ASSUME NEW S \in SUBSET Int, IsFiniteSet(S)
  PROVE  Ascends(Ascending(S), S)
<1> DEFINE P(s) == \A i, j \in 1 .. Cardinality(S) : i < j => s[i] < s[j]
<1>1. \E s \in [1 .. Cardinality(S) -> S] : P(s)
  BY AscendingExists DEF Ascends
<1>2. Ascending(S) = CHOOSE s \in [1 .. Cardinality(S) -> S] : P(s)
  BY DEF Ascending
<1> HIDE DEF P
<1>3. Ascending(S) \in [1 .. Cardinality(S) -> S] /\ P(Ascending(S))
  BY <1>1, <1>2
<1> QED
  BY <1>3 DEF Ascends, P

\* A list of numbers of a set in order, as Ascending makes it.
LEMMA AscendingSeq ==
  ASSUME NEW S \in SUBSET Nat, IsFiniteSet(S)
  PROVE  /\ Cardinality(S) \in Nat /\ Ascending(S) \in Seq(S) /\ Len(Ascending(S)) = Cardinality(S)
         /\ DOMAIN Ascending(S) = 1 .. Cardinality(S)
         /\ Range(Ascending(S)) = S
<1>1. S \in SUBSET Int
  OBVIOUS
<1>2. Ascends(Ascending(S), S)
  BY <1>1, AscendingList
<1>3. /\ Cardinality(S) \in Nat /\ Ascending(S) \in Seq(S) /\ Len(Ascending(S)) = Cardinality(S)
      /\ DOMAIN Ascending(S) = 1 .. Cardinality(S)
      /\ \A x \in S : \E i \in 1 .. Cardinality(S) : Ascending(S)[i] = x
  <2> DEFINE s == Ascending(S)
  <2>1. Ascends(s, S)
    BY <1>2
  <2> HIDE DEF s
  <2>2. /\ Cardinality(S) \in Nat /\ s \in Seq(S) /\ Len(s) = Cardinality(S) /\ DOMAIN s = 1 .. Cardinality(S)
        /\ \A x \in S : \E i \in 1 .. Cardinality(S) : s[i] = x
    BY <1>1, <2>1, AscendsAll
  <2> QED
    BY <2>2 DEF s
<1>4. \A i \in 1 .. Cardinality(S) : Ascending(S)[i] \in S
  BY <1>2 DEF Ascends
<1> QED
  BY <1>3, <1>4 DEF Range

LEMMA PeopleFit ==
  ASSUME RelationsConstantsOK, people \in Tables
  PROVE  /\ DOMAIN people \subseteq Ids /\ IsFiniteSet(DOMAIN people)
         /\ \A id \in DOMAIN people : people[id] \in Keys0
<1>1. PICK S \in SUBSET Ids : people \in [S -> Ids \cup {NoKey}]
  BY DEF Tables
<1>2. DOMAIN people = S
  BY <1>1
<1>3. IsFiniteSet(S)
  BY <1>1, FS_Subset DEF RelationsConstantsOK
<1> QED
  BY <1>1, <1>2, <1>3 DEF Keys0

\* The rows fetched: one object for every key, and none loaded yet.
LEMMA FetchedFits ==
  ASSUME RelationsConstantsOK, people \in Tables, NEW ids \in SUBSET DOMAIN people, NEW n \in Nat
  PROVE  /\ Cardinality(ids) \in Nat /\ Fetched(ids) \in Seq(ObjectsOf(n)) /\ Len(Fetched(ids)) = Cardinality(ids)
         /\ \A i \in 1 .. Cardinality(ids) :
              /\ Fetched(ids)[i].id \in ids /\ Fetched(ids)[i].parent = people[Fetched(ids)[i].id]
              /\ Fetched(ids)[i].loaded = {}
         /\ \A id \in ids : \E i \in 1 .. Cardinality(ids) : Fetched(ids)[i].id = id
<1>1. ids \in SUBSET Nat /\ IsFiniteSet(ids)
  BY PeopleFit, FS_Subset DEF RelationsConstantsOK
<1> DEFINE order == Ascending(ids)
           c == Cardinality(ids)
           brought == [i \in 1 .. Len(order) |-> [id |-> order[i], parent |-> people[order[i]], loaded |-> {}]]
<1>2. c \in Nat /\ Len(order) = c /\ DOMAIN order = 1 .. c /\ Range(order) = ids
  BY <1>1, AscendingSeq
<1>3. \A i \in 1 .. c : order[i] \in ids
  BY <1>2 DEF Range
<1>4. \A id \in ids : \E i \in 1 .. c : order[i] = id
  BY <1>2 DEF Range
<1>5. Fetched(ids) = brought
  BY DEF Fetched
<1> HIDE DEF order, c
<1>6. \A i \in 1 .. c : brought[i] = [id |-> order[i], parent |-> people[order[i]], loaded |-> {}]
  BY <1>2
<1>7. \A i \in 1 .. c : brought[i] \in ObjectsOf(n)
  <2> SUFFICES ASSUME NEW i \in 1 .. c PROVE brought[i] \in ObjectsOf(n)
    OBVIOUS
  <2>1. order[i] \in Ids /\ people[order[i]] \in Keys0
    BY <1>3, PeopleFit
  <2>2. brought[i] = [id |-> order[i], parent |-> people[order[i]], loaded |-> {}]
    BY <1>6
  <2>3. {} \in SUBSET LoadsOf(n)
    OBVIOUS
  <2> HIDE DEF brought
  <2> QED
    BY <2>1, <2>2, <2>3 DEF ObjectsOf
<1>8. brought \in Seq(ObjectsOf(n)) /\ Len(brought) = c
  <2>1. brought = [i \in 1 .. c |-> brought[i]]
    BY <1>2
  <2> HIDE DEF brought
  <2> DEFINE again == [i \in 1 .. c |-> brought[i]]
  <2>2. again \in Seq(ObjectsOf(n))
    <3>1. \A i \in 1 .. c : again[i] \in ObjectsOf(n)
      BY <1>7
    <3>2. again \in [1 .. c -> ObjectsOf(n)]
      BY <3>1
    <3> HIDE DEF again
    <3> QED
      BY <1>2, <3>2
  <2>3. Len([i \in 1 .. c |-> brought[i]]) = c
    BY <1>2
  <2> QED
    BY <2>1, <2>2, <2>3
<1>9. /\ \A i \in 1 .. c : brought[i].id \in ids /\ brought[i].parent = people[brought[i].id] /\ brought[i].loaded = {}
      /\ \A id \in ids : \E i \in 1 .. c : brought[i].id = id
  <2> HIDE DEF brought
  <2>1. \A i \in 1 .. c : brought[i].id = order[i] /\ brought[i].parent = people[order[i]] /\ brought[i].loaded = {}
    <3> SUFFICES ASSUME NEW i \in 1 .. c
                 PROVE  brought[i].id = order[i] /\ brought[i].parent = people[order[i]] /\ brought[i].loaded = {}
      OBVIOUS
    <3>1. brought[i] = [id |-> order[i], parent |-> people[order[i]], loaded |-> {}]
      BY <1>6
    <3> QED
      BY <3>1
  <2>2. \A i \in 1 .. c : brought[i].id \in ids /\ brought[i].parent = people[brought[i].id] /\ brought[i].loaded = {}
    <3> SUFFICES ASSUME NEW i \in 1 .. c
                 PROVE  brought[i].id \in ids /\ brought[i].parent = people[brought[i].id] /\ brought[i].loaded = {}
      OBVIOUS
    <3>1. order[i] \in ids
      BY <1>3
    <3> QED
      BY <2>1, <3>1
  <2>3. ASSUME NEW id \in ids PROVE \E i \in 1 .. c : brought[i].id = id
    BY <1>4, <2>1
  <2> QED
    BY <2>2, <2>3
<1> HIDE DEF brought
<1> QED
  BY <1>2, <1>5, <1>8, <1>9 DEF c

-----------------------------------------------------------------------------
\* The pieces of LoadRelation.
KeysAsked(rel, on) == {key \in KeysOf(rel, on) : Truthy(key)}
IdsAsked(rel, on) == {id \in DOMAIN people : FoundBy(rel, id) \in KeysAsked(rel, on)}
MadeBy(ids) == objects \o Fetched(ids)
Gets(rel, ids, o) ==
  [rel |-> rel, rows |-> Attached(rel, KeyOf(rel, MadeBy(ids)[o]), New(ids), MadeBy(ids))]

MadeRight(brought, ids, k, c) ==
  /\ k \in Nat /\ c \in Nat /\ brought \in Seq(ObjectsOf(k)) /\ Len(brought) = k + c
  /\ DOMAIN brought = 1 .. (k + c) /\ DOMAIN objects = 1 .. k
  /\ \A o \in 1 .. k : o \in 1 .. (k + c) /\ brought[o] = objects[o]
  /\ \A o \in (k + 1) .. (k + c) :
       o \in 1 .. (k + c) /\ brought[o].id \in ids /\ brought[o].parent = people[brought[o].id] /\ brought[o].loaded = {}
  /\ \A id \in ids : \E o \in (k + 1) .. (k + c) : brought[o].id = id

LEMMA MadeFits ==
  ASSUME RelationsConstantsOK, people \in Tables, ObjectsFit(objects), NEW ids \in SUBSET DOMAIN people
  PROVE  MadeRight(MadeBy(ids), ids, Len(objects), Cardinality(ids))
<1> DEFINE brought == MadeBy(ids)
           k == Len(objects)
           c == Cardinality(ids)
<1>1. objects \in Seq(ObjectsOf(k))
  BY DEF ObjectsFit
<1>2. k \in Nat /\ DOMAIN objects = 1 .. k /\ Len(objects) = k
  BY <1>1
<1> DEFINE f == Fetched(ids)
<1> HIDE DEF k
<1>3. /\ c \in Nat /\ f \in Seq(ObjectsOf(k)) /\ Len(f) = c
      /\ \A i \in 1 .. c : f[i].id \in ids /\ f[i].parent = people[f[i].id] /\ f[i].loaded = {}
      /\ \A id \in ids : \E i \in 1 .. c : f[i].id = id
  BY <1>2, FetchedFits
<1>4. brought = objects \o f
  BY DEF MadeBy
<1> HIDE DEF f, brought, c
<1>a. /\ objects \o f \in Seq(ObjectsOf(k)) /\ Len(objects \o f) = Len(objects) + Len(f)
      /\ \A o \in 1 .. Len(objects) + Len(f) :
           (objects \o f)[o] = IF o <= Len(objects) THEN objects[o] ELSE f[o - Len(objects)]
  <2>1. f \in Seq(ObjectsOf(k))
    BY <1>3
  <2> QED
    BY ONLY <1>1, <2>1, ConcatProperties
<1>5. brought \in Seq(ObjectsOf(k)) /\ Len(brought) = k + c
  BY ONLY <1>2, <1>3, <1>4, <1>a
<1>6. \A o \in 1 .. (k + c) : brought[o] = IF o <= k THEN objects[o] ELSE f[o - k]
  BY ONLY <1>2, <1>3, <1>4, <1>a
<1>7. DOMAIN brought = 1 .. (k + c)
  BY <1>5
<1>8. \A o \in 1 .. k : o \in 1 .. (k + c) /\ brought[o] = objects[o]
  BY <1>2, <1>3, <1>6
<1>9. ASSUME NEW o \in (k + 1) .. (k + c)
      PROVE  /\ o \in 1 .. (k + c) /\ brought[o].id \in ids
             /\ brought[o].parent = people[brought[o].id] /\ brought[o].loaded = {}
  <2>1. o \in 1 .. (k + c) /\ ~(o <= k) /\ o - k \in 1 .. c
    BY <1>2, <1>3
  <2>2. brought[o] = f[o - k]
    BY <1>6, <2>1
  <2> QED
    BY <1>3, <2>1, <2>2
<1>10. ASSUME NEW id \in ids PROVE \E o \in (k + 1) .. (k + c) : brought[o].id = id
  <2>1. PICK i \in 1 .. c : f[i].id = id
    BY <1>3
  <2>2. k + i \in (k + 1) .. (k + c) /\ k + i \in 1 .. (k + c) /\ ~(k + i <= k) /\ (k + i) - k = i
    BY <1>2, <1>3
  <2>3. brought[k + i] = f[i]
    BY <1>6, <2>2
  <2> QED
    BY <2>1, <2>2, <2>3
<1> HIDE DEF brought, k, c
<1>11. MadeRight(brought, ids, k, c)
  BY <1>2, <1>3, <1>5, <1>7, <1>8, <1>9, <1>10 DEF MadeRight
<1> QED
  BY <1>11 DEF brought, k, c

LEMMA NewFits ==
  ASSUME ObjectsFit(objects), NEW ids, Cardinality(ids) \in Nat,
         NEW k, k = Len(objects), NEW c, c = Cardinality(ids)
  PROVE  /\ New(ids) \in Seq((k + 1) .. (k + c)) /\ Len(New(ids)) = c
         /\ Range(New(ids)) = (k + 1) .. (k + c)
<1>1. k \in Nat
  BY DEF ObjectsFit
<1> DEFINE n == [i \in 1 .. c |-> k + i]
<1>2. New(ids) = n
  BY DEF New
<1>3. n \in [1 .. c -> (k + 1) .. (k + c)]
  BY <1>1
<1>4. Range(n) = (k + 1) .. (k + c)
  <2>1. \A x \in (k + 1) .. (k + c) : x - k \in 1 .. c /\ n[x - k] = x
    BY <1>1
  <2>2. DOMAIN n = 1 .. c
    OBVIOUS
  <2> HIDE DEF n
  <2> QED
    BY <1>3, <2>1, <2>2 DEF Range
<1> HIDE DEF n
<1>5. n \in Seq((k + 1) .. (k + c)) /\ Len(n) = c
  BY <1>3
<1> QED
  BY <1>2, <1>4, <1>5

\* Of the c rows fetched behind k others, those given to o are of its own.
GetsRight(rel, o, hers, brought, k, c) ==
  LET all == IF Truthy(KeyOf(rel, objects[o])) THEN Related(people, rel, objects[o]) ELSE {}
      mine == {brought[r].id : r \in Range(hers)}
  IN  /\ hers \in Seq((k + 1) .. (k + c)) /\ mine \subseteq all
      /\ IF rel = "children" THEN mine = all ELSE all # {} => mine # {}
      /\ \A r \in Range(hers) :
           IF rel = "parent" THEN brought[r].id = objects[o].parent ELSE brought[r].parent = objects[o].id

\* What a row gets: all that belong to it, or one, of the rows fetched.
LEMMA GetsFits ==
  ASSUME RelationsConstantsOK, people \in Tables, ObjectsFit(objects),
         NEW rel \in Names, NEW on, Range(on) \subseteq 1 .. Len(objects), NEW o \in Range(on),
         NEW ids, ids = IdsAsked(rel, on), NEW k, k = Len(objects), NEW c, c = Cardinality(ids),
         NEW brought, brought = MadeBy(ids), NEW hers, hers = Gets(rel, ids, o).rows
  PROVE  GetsRight(rel, o, hers, brought, k, c)
<1> DEFINE all == IF Truthy(KeyOf(rel, objects[o])) THEN Related(people, rel, objects[o]) ELSE {}
           key == KeyOf(rel, objects[o])
           Hits(f) == key = IF rel = "parent" THEN brought[f].id ELSE brought[f].parent
           hits == {f \in (k + 1) .. (k + c) : Hits(f)}
           list == Ascending(hits)
<1>1. ids \in SUBSET DOMAIN people
  BY DEF IdsAsked
<1>2. /\ k \in Nat /\ c \in Nat /\ o \in 1 .. k /\ brought[o] = objects[o]
      /\ \A f \in (k + 1) .. (k + c) : brought[f].id \in ids /\ brought[f].parent = people[brought[f].id]
      /\ \A id \in ids : \E f \in (k + 1) .. (k + c) : brought[f].id = id
  <2>1. o \in 1 .. k
    OBVIOUS
  <2>2. /\ k \in Nat /\ c \in Nat /\ \A p \in 1 .. k : brought[p] = objects[p]
        /\ \A f \in (k + 1) .. (k + c) : brought[f].id \in ids /\ brought[f].parent = people[brought[f].id]
        /\ \A id \in ids : \E f \in (k + 1) .. (k + c) : brought[f].id = id
    <3>1. MadeRight(brought, ids, k, c)
      BY <1>1, MadeFits
    <3> HIDE DEF all, key, hits, list
    <3> QED
      BY <3>1 DEF MadeRight
  <2> QED
    BY <2>1, <2>2
<1>3. Range(New(ids)) = (k + 1) .. (k + c)
  BY <1>2, NewFits
<1>4. hers = IF rel = "children" \/ list = << >> THEN list ELSE <<list[1]>>
  <2> DEFINE found == New(ids)
             mates == {f \in Range(found) : key = IF rel = "parent" THEN brought[f].id ELSE brought[f].parent}
  <2>1. hers = Attached(rel, KeyOf(rel, brought[o]), found, brought)
    BY DEF Gets
  <2>2. KeyOf(rel, brought[o]) = key
    BY <1>2
  <2>3. Attached(rel, key, found, brought)
          = IF rel = "children" \/ Ascending(mates) = << >> THEN Ascending(mates) ELSE <<Ascending(mates)[1]>>
    BY DEF Attached
  <2>4. mates = hits
    BY <1>3
  <2> HIDE DEF key, mates, hits, found
  <2> QED
    BY <2>1, <2>2, <2>3, <2>4
<1>5. hits \in SUBSET Nat /\ IsFiniteSet(hits)
  <2>1. IsFiniteSet((k + 1) .. (k + c)) /\ hits \in SUBSET ((k + 1) .. (k + c))
    <3>1. k + 1 \in Int /\ k + c \in Int
      BY <1>2
    <3>2. IsFiniteSet((k + 1) .. (k + c))
      BY <3>1, FS_Interval
    <3> QED
      BY <3>2
  <2>2. (k + 1) .. (k + c) \in SUBSET Nat
    BY <1>2
  <2> HIDE DEF hits
  <2> QED
    BY <2>1, <2>2, FS_Subset
<1>6. /\ Cardinality(hits) \in Nat /\ list \in Seq(hits) /\ Len(list) = Cardinality(hits)
      /\ DOMAIN list = 1 .. Cardinality(hits) /\ Range(list) = hits
  <2> HIDE DEF hits
  <2> QED
    BY <1>5, AscendingSeq
<1> HIDE DEF list
<1>7. hers \in Seq(hits) /\ Range(hers) \subseteq hits
  <2>1. CASE rel = "children" \/ list = << >>
    <3>1. hers = list
      BY <1>4, <2>1
    <3> QED
      BY <1>6, <3>1
  <2>2. CASE ~(rel = "children" \/ list = << >>)
    <3>1. hers = <<list[1]>>
      BY <1>4, <2>2
    <3>2. list[1] \in hits
      <4> HIDE DEF hits
      <4> QED
        BY <1>6, <2>2
    <3> HIDE DEF hits
    <3> QED
      BY <3>1, <3>2 DEF Range
  <2> QED
    BY <2>1, <2>2
<1>8. /\ rel = "children" => Range(hers) = hits
      /\ hits # {} => Range(hers) # {}
  <2>1. list = << >> => hits = {}
    <3>1. Range(<< >>) = {}
      BY DEF Range
    <3> HIDE DEF hits
    <3> QED
      BY <1>6, <3>1
  <2>2. <<list[1]>>[1] = list[1] /\ DOMAIN <<list[1]>> = 1 .. 1
    OBVIOUS
  <2>3. Range(<<list[1]>>) # {}
    BY DEF Range
  <2> HIDE DEF hits
  <2> QED
    BY <1>4, <1>6, <2>1, <2>3
<1>9. all = {id \in ids : FoundBy(rel, id) = key}
  <2>1. KeysOf(rel, on) = {KeyOf(rel, objects[p]) : p \in Range(on)} /\ key \in KeysOf(rel, on)
    BY DEF KeysOf
  <2>2. Truthy(key) => key \in KeysAsked(rel, on)
    BY <2>1 DEF KeysAsked
  <2>3. \A id \in ids : Truthy(FoundBy(rel, id))
    BY DEF IdsAsked, KeysAsked
  <2>4. \A id \in DOMAIN people : Truthy(key) /\ FoundBy(rel, id) = key => id \in ids
    BY <2>2 DEF IdsAsked
  <2>5. Related(people, rel, objects[o]) = {id \in DOMAIN people : FoundBy(rel, id) = key}
    BY DEF Related, FoundBy, KeyOf
  <2> HIDE DEF key
  <2> QED
    BY <1>1, <2>3, <2>4, <2>5 DEF key
<1>10. \A f \in (k + 1) .. (k + c) : Hits(f) <=> FoundBy(rel, brought[f].id) = key
  BY <1>2 DEF FoundBy
<1>11. {brought[r].id : r \in hits} = all
  <2>1. \A r \in hits : brought[r].id \in all
    BY <1>2, <1>9, <1>10
  <2>2. ASSUME NEW id \in all PROVE \E r \in hits : brought[r].id = id
    <3>1. id \in ids /\ FoundBy(rel, id) = key
      BY <1>9, <2>2
    <3>2. PICK f \in (k + 1) .. (k + c) : brought[f].id = id
      BY <1>2, <3>1
    <3>3. Hits(f)
      BY <1>10, <3>1, <3>2
    <3> QED
      BY <3>2, <3>3
  <2> HIDE DEF hits, all
  <2> QED
    BY <2>1, <2>2
<1>12. \A r \in Range(hers) : IF rel = "parent" THEN brought[r].id = objects[o].parent ELSE brought[r].parent = objects[o].id
  <2>1. \A r \in Range(hers) : Hits(r)
    BY <1>7
  <2> QED
    BY <2>1 DEF KeyOf
<1>13. hers \in Seq((k + 1) .. (k + c))
  <2>1. hits \subseteq (k + 1) .. (k + c)
    OBVIOUS
  <2>2. hers \in Seq(hits)
    BY <1>7
  <2> HIDE DEF hits
  <2> QED
    BY ONLY <2>1, <2>2, SeqMonotonic
<1> HIDE DEF hits, all
<1> DEFINE mine == {brought[r].id : r \in Range(hers)}
<1>14. mine \subseteq all /\ (rel = "children" => mine = all) /\ (all # {} => mine # {})
  BY <1>7, <1>8, <1>11
<1> HIDE DEF mine
<1>15. IF rel = "children" THEN mine = all ELSE all # {} => mine # {}
  BY <1>14
<1> QED
  BY <1>12, <1>13, <1>14, <1>15 DEF all, mine, GetsRight

-----------------------------------------------------------------------------
KeptBy(rel, ids, on) == UNION {Range(Gets(rel, ids, o).rows) : o \in Range(on)}
LoadRight(task, rel, ids) ==
  /\ progress = "running"
  /\ objects' = [o \in DOMAIN MadeBy(ids) |->
       IF o \in Range(task.on) THEN [MadeBy(ids)[o] EXCEPT !.loaded = @ \cup {Gets(rel, ids, o)}] ELSE MadeBy(ids)[o]]
  /\ loads' = loads \cup {[rel |-> rel, on |-> Range(task.on), table |-> people]}
  /\ Continue(Front(tasks) \o Rest(task) \o Below(Ascending(KeptBy(rel, ids, task.on)), Head(task.tree).below))
  /\ UNCHANGED <<people, writes, asked>>

LEMMA LoadUnfolds ==
  ASSUME LoadRelation
  PROVE  LoadRight(Last(tasks), Head(Last(tasks).tree).rel, IdsAsked(Head(Last(tasks).tree).rel, Last(tasks).on))
BY DEF LoadRelation, LoadRight, KeptBy, Gets, MadeBy, IdsAsked, KeysAsked

\* A sequence, its first and the others; its last and the others.
LEMMA TailRange ==
  ASSUME NEW S, NEW s \in Seq(S), s # << >>
  PROVE  /\ Tail(s) \in Seq(S) /\ Head(s) \in S /\ Len(s) \in Nat /\ Range(s) = {Head(s)} \cup Range(Tail(s))
         /\ Len(s) = 1 => Range(Tail(s)) = {}
         /\ Len(s) # 1 => Tail(s) # << >>
<1> DEFINE t == Tail(s)
<1>1. /\ Len(s) \in Nat /\ Len(s) >= 1 /\ DOMAIN s = 1 .. Len(s) /\ Head(s) = s[1] /\ s[1] \in S
      /\ t \in Seq(S) /\ Len(t) = Len(s) - 1 /\ \A i \in 1 .. Len(s) - 1 : t[i] = s[i + 1]
  OBVIOUS
<1>2. DOMAIN t = 1 .. Len(s) - 1
  <2> HIDE DEF t
  <2> QED
    BY <1>1
<1> HIDE DEF t
<1>3. \A x \in Range(t) : x \in Range(s)
  <2>1. \A i \in 1 .. Len(s) - 1 : i + 1 \in 1 .. Len(s)
    BY <1>1
  <2> QED
    BY <1>1, <1>2, <2>1 DEF Range
<1>4. \A x \in Range(s) : x = s[1] \/ x \in Range(t)
  <2>1. ASSUME NEW i \in 1 .. Len(s), i # 1 PROVE i - 1 \in 1 .. Len(s) - 1 /\ t[i - 1] = s[i]
    <3>1. i - 1 \in 1 .. Len(s) - 1 /\ (i - 1) + 1 = i
      BY <1>1, <2>1
    <3> QED
      BY <1>1, <3>1
  <2> QED
    BY <1>1, <1>2, <2>1 DEF Range
<1>5. s[1] \in Range(s)
  <2>1. 1 \in 1 .. Len(s)
    BY <1>1
  <2> QED
    BY <1>1, <2>1 DEF Range
<1>6. Len(s) = 1 => Range(t) = {}
  BY <1>1, <1>2 DEF Range
<1>7. Len(s) # 1 => t # << >>
  BY <1>1
<1> QED
  BY <1>1, <1>3, <1>4, <1>5, <1>6, <1>7 DEF t

LEMMA FrontRange ==
  ASSUME NEW S, NEW s \in Seq(S), s # << >>
  PROVE  Front(s) \in Seq(S) /\ Last(s) \in S /\ Range(s) = Range(Front(s)) \cup {Last(s)}
<1> DEFINE f == Front(s)
           n == Len(s)
<1>1. n \in Nat /\ n >= 1 /\ DOMAIN s = 1 .. n /\ \A i \in 1 .. n : s[i] \in S
  OBVIOUS
<1>2. f \in Seq(S) /\ Len(f) = n - 1 /\ \A i \in 1 .. n - 1 : f[i] = s[i]
  BY <1>1 DEF Front
<1>3. DOMAIN f = 1 .. n - 1
  <2> HIDE DEF f
  <2> QED
    BY <1>2
<1>4. Last(s) = s[n] /\ n \in 1 .. n
  BY <1>1 DEF Last
<1> HIDE DEF f, n
<1>5. \A i \in 1 .. n - 1 : i \in 1 .. n
  BY <1>1
<1>6. \A i \in 1 .. n : i # n => i \in 1 .. n - 1
  BY <1>1
<1>7. Range(s) = Range(f) \cup {s[n]}
  BY <1>1, <1>2, <1>3, <1>4, <1>5, <1>6 DEF Range
<1> QED
  BY <1>1, <1>2, <1>4, <1>7 DEF f

LEMMA NextTask ==
  ASSUME NEW n, NEW t \in TaskOf(n), NEW u, u = [t EXCEPT !.tree = Tail(@)]
  PROVE  /\ t.on \in Seq(1 .. n) /\ t.tree \in Seq(Nodes) /\ t.tree # << >>
         /\ u.on = t.on /\ u.tree = Tail(t.tree) /\ (Tail(t.tree) \in Seq(Nodes) \ {<< >>} => u \in TaskOf(n))
<1>1. t \in [on : Seq(1 .. n), tree : Seq(Nodes) \ {<< >>}]
  BY DEF TaskOf
<1>2. t.on \in Seq(1 .. n) /\ t.tree \in Seq(Nodes) \ {<< >>} /\ t = [on |-> t.on, tree |-> t.tree]
  BY <1>1
<1>3. u = [on |-> t.on, tree |-> Tail(t.tree)]
  BY <1>1
<1> QED
  BY <1>2, <1>3 DEF TaskOf

\* The tasks left, and those put on top of them.
LEMMA TodoFits ==
  ASSUME NEW n, tasks \in Seq(TaskOf(n)), tasks # << >>, NEW task, task = Last(tasks)
  PROVE  /\ task \in TaskOf(n) /\ task \in Range(tasks)
         /\ Front(tasks) \o Rest(task) \in Seq(TaskOf(n))
         /\ \A t \in Range(Front(tasks) \o Rest(task)) :
              t \in Range(tasks) \/ (t.on = task.on /\ Range(t.tree) \subseteq Range(task.tree))
         /\ \A t \in Range(tasks) : t = task \/ t \in Range(Front(tasks) \o Rest(task))
         /\ \A node \in Range(task.tree) : node = Head(task.tree) \/
              \E t \in Range(Front(tasks) \o Rest(task)) : t.on = task.on /\ node \in Range(t.tree)
<1> DEFINE front == Front(tasks)
           next == [task EXCEPT !.tree = Tail(@)]
           rest == Rest(task)
           tree == task.tree
<1>1. front \in Seq(TaskOf(n)) /\ task \in TaskOf(n) /\ Range(tasks) = Range(front) \cup {task}
  BY FrontRange
<1>2. /\ tree \in Seq(Nodes) /\ tree # << >> /\ next.on = task.on /\ next.tree = Tail(tree)
      /\ Tail(tree) \in Seq(Nodes) \ {<< >>} => next \in TaskOf(n)
  BY <1>1, NextTask
<1>3. rest = IF Len(tree) = 1 THEN << >> ELSE <<next>>
  BY DEF Rest
<1> HIDE DEF tree, next, front, rest
<1>4. /\ Tail(tree) \in Seq(Nodes) /\ Range(tree) = {Head(tree)} \cup Range(Tail(tree))
      /\ Len(tree) = 1 => Range(Tail(tree)) = {}
      /\ Len(tree) # 1 => Tail(tree) # << >>
  BY <1>2, TailRange
<1>5. /\ rest \in Seq(TaskOf(n))
      /\ \A t \in Range(rest) : Len(tree) # 1 /\ t = next
      /\ Len(tree) # 1 => next \in Range(rest)
  <2>1. CASE Len(tree) = 1
    BY <1>3, <2>1 DEF Range
  <2>2. CASE Len(tree) # 1
    <3>1. rest = <<next>> /\ next \in TaskOf(n)
      BY <1>2, <1>3, <1>4, <2>2
    <3>2. rest \in Seq(TaskOf(n)) /\ DOMAIN rest = {1} /\ rest[1] = next
      BY <3>1
    <3> QED
      BY <2>2, <3>2 DEF Range
  <2> QED
    BY <2>1, <2>2
<1> DEFINE todo == front \o rest
<1>6. todo \in Seq(TaskOf(n)) /\ Range(todo) = Range(front) \cup Range(rest)
  BY <1>1, <1>5, ConcatProperties, RangeConcatenation
<1>7. \A t \in Range(todo) : t \in Range(tasks) \/ (t.on = task.on /\ Range(t.tree) \subseteq Range(tree))
  BY <1>1, <1>2, <1>4, <1>5, <1>6
<1>8. \A node \in Range(tree) : node = Head(tree) \/ \E t \in Range(todo) : t.on = task.on /\ node \in Range(t.tree)
  BY <1>2, <1>4, <1>5, <1>6
<1>9. \A t \in Range(tasks) : t = task \/ t \in Range(todo)
  BY <1>1, <1>6
<1> QED
  BY <1>1, <1>6, <1>7, <1>8, <1>9 DEF todo, front, rest, tree
-----------------------------------------------------------------------------
IsObject(x) == x = [id |-> x.id, parent |-> x.parent, loaded |-> x.loaded]
QueryOf(rel, on) == [rel |-> rel, on |-> Range(on), table |-> people]
LoadShape(task, rel, ids, k, c) ==
  /\ k \in Nat /\ c \in Nat /\ task \in TaskOf(k) /\ Head(task.tree) \in Nodes /\ rel \in Names
  /\ Range(task.on) \subseteq 1 .. k /\ ids \subseteq DOMAIN people
  /\ DOMAIN objects = 1 .. k /\ DOMAIN objects' = 1 .. (k + c) /\ Len(objects') = k + c
  /\ objects' = [o \in 1 .. (k + c) |-> objects'[o]] /\ \A o \in 1 .. (k + c) : IsObject(objects'[o])
  /\ \A o \in 1 .. k :
       /\ o \in 1 .. (k + c)
       /\ objects'[o].id = objects[o].id /\ objects'[o].parent = objects[o].parent
       /\ objects'[o].loaded = objects[o].loaded \cup (IF o \in Range(task.on) THEN {Gets(rel, ids, o)} ELSE {})
  /\ \A o \in (k + 1) .. (k + c) :
       o \in 1 .. (k + c) /\ objects'[o].id \in ids /\ objects'[o].parent = people[objects'[o].id]
       /\ objects'[o].loaded = {}
  /\ \A o \in Range(task.on) :
       /\ Gets(rel, ids, o).rel = rel /\ Gets(rel, ids, o).rows \in Seq((k + 1) .. (k + c))
       /\ FitsQuery(objects', QueryOf(rel, task.on), o, Gets(rel, ids, o))
       /\ \A r \in Range(Gets(rel, ids, o).rows) :
            IF rel = "parent" THEN objects'[r].id = objects'[o].parent ELSE objects'[r].parent = objects'[o].id

\* What a query for a relation does to the objects.
LEMMA LoadShapes ==
  ASSUME RelationsConstantsOK, RelTypes, LoadRelation,
         NEW task, task = Last(tasks), NEW rel, rel = Head(task.tree).rel, NEW ids, ids = IdsAsked(rel, task.on)
  PROVE  LoadShape(task, rel, ids, Len(objects), Cardinality(ids))
<1> DEFINE k == Len(objects)
           c == Cardinality(ids)
           brought == MadeBy(ids)
           on == Range(task.on)
<1>0. people \in Tables /\ ObjectsFit(objects) /\ tasks \in Seq(TaskOf(k)) /\ tasks # << >>
  BY DEF RelTypes, TasksFit, LoadRelation
<1>1. ids \in SUBSET DOMAIN people
  BY DEF IdsAsked
<1>2. MadeRight(brought, ids, k, c)
  BY <1>0, <1>1, MadeFits
<1>3. task \in TaskOf(k)
  BY <1>0, TodoFits
<1>4. task.on \in Seq(1 .. k) /\ task.tree \in Seq(Nodes) /\ task.tree # << >>
  BY <1>3 DEF TaskOf
<1>5. Head(task.tree) \in Nodes /\ rel \in Names
  <2>1. Head(task.tree) \in Nodes
    BY <1>4, TailRange
  <2> QED
    BY <2>1 DEF RelationsConstantsOK
<1>6. on \subseteq 1 .. k
  BY <1>4, RangeOfSeq
<1>7. objects' = [o \in DOMAIN brought |->
        IF o \in on THEN [brought[o] EXCEPT !.loaded = @ \cup {Gets(rel, ids, o)}] ELSE brought[o]]
  BY LoadUnfolds DEF LoadRight
<1> HIDE DEF brought, k, c
<1>8. /\ k \in Nat /\ c \in Nat /\ DOMAIN objects = 1 .. k /\ DOMAIN brought = 1 .. (k + c)
      /\ \A o \in 1 .. k : o \in 1 .. (k + c) /\ brought[o] = objects[o]
      /\ \A o \in (k + 1) .. (k + c) :
           o \in 1 .. (k + c) /\ brought[o].id \in ids /\ brought[o].parent = people[brought[o].id] /\ brought[o].loaded = {}
      /\ brought \in Seq(ObjectsOf(k)) /\ Len(brought) = k + c
  BY <1>2 DEF MadeRight
<1>9. DOMAIN objects' = 1 .. (k + c) /\ Len(objects') = k + c /\ objects' = [o \in 1 .. (k + c) |-> objects'[o]]
  <2>1. DOMAIN objects' = 1 .. (k + c)
    BY <1>7, <1>8
  <2>2. objects' = [o \in 1 .. (k + c) |-> objects'[o]]
    BY <1>7, <1>8
  <2>3. k + c \in Nat
    BY <1>8
  <2> QED
    BY <2>1, <2>2, <2>3
<1>10. ASSUME NEW o \in 1 .. (k + c)
       PROVE  /\ objects'[o].id = brought[o].id /\ objects'[o].parent = brought[o].parent
              /\ objects'[o].loaded = brought[o].loaded \cup (IF o \in on THEN {Gets(rel, ids, o)} ELSE {})
              /\ IsObject(objects'[o])
  <2>1. brought[o] \in [id : Ids, parent : Keys0, loaded : SUBSET LoadsOf(k)]
    <3>1. brought[o] \in ObjectsOf(k)
      BY <1>8
    <3> QED
      BY <3>1 DEF ObjectsOf
  <2>2. objects'[o] = IF o \in on THEN [brought[o] EXCEPT !.loaded = @ \cup {Gets(rel, ids, o)}] ELSE brought[o]
    BY <1>7, <1>8
  <2> HIDE DEF on
  <2>3. CASE o \in on
    <3> DEFINE g == Gets(rel, ids, o)
               m == brought[o]
    <3>1. objects'[o] = [m EXCEPT !.loaded = @ \cup {g}] /\ m \in [id : Ids, parent : Keys0, loaded : SUBSET LoadsOf(k)]
      BY <2>1, <2>2, <2>3
    <3> HIDE DEF g, m
    <3>2. objects'[o].id = m.id /\ objects'[o].parent = m.parent /\ objects'[o].loaded = m.loaded \cup {g}
      BY <3>1
    <3>3. [m EXCEPT !.loaded = @ \cup {g}] = [id |-> m.id, parent |-> m.parent, loaded |-> m.loaded \cup {g}]
      BY <3>1
    <3>4. IsObject(objects'[o])
      BY <3>1, <3>2, <3>3 DEF IsObject
    <3> QED
      BY <2>3, <3>2, <3>4 DEF g, m
  <2>4. CASE o \notin on
    <3>1. IsObject(brought[o])
      BY <2>1 DEF IsObject
    <3> QED
      BY <2>2, <2>4, <3>1
  <2> QED
    BY <2>3, <2>4
<1>11. ASSUME NEW o \in 1 .. k
       PROVE  /\ o \in 1 .. (k + c)
              /\ objects'[o].id = objects[o].id /\ objects'[o].parent = objects[o].parent
              /\ objects'[o].loaded = objects[o].loaded \cup (IF o \in on THEN {Gets(rel, ids, o)} ELSE {})
  BY <1>8, <1>10
<1>12. ASSUME NEW o \in (k + 1) .. (k + c)
       PROVE  /\ o \in 1 .. (k + c) /\ objects'[o].id \in ids /\ objects'[o].parent = people[objects'[o].id]
              /\ objects'[o].loaded = {} /\ objects'[o].id = brought[o].id /\ objects'[o].parent = brought[o].parent
  <2>1. o \notin on
    BY <1>6, <1>8
  <2>2. o \in 1 .. (k + c) /\ brought[o].id \in ids /\ brought[o].parent = people[brought[o].id] /\ brought[o].loaded = {}
    BY <1>8
  <2>3. /\ objects'[o].id = brought[o].id /\ objects'[o].parent = brought[o].parent
        /\ objects'[o].loaded = brought[o].loaded \cup (IF o \in on THEN {Gets(rel, ids, o)} ELSE {})
    BY <1>10, <2>2
  <2> HIDE DEF on
  <2> QED
    BY <2>1, <2>2, <2>3
<1>13. ASSUME NEW o \in on
       PROVE  /\ Gets(rel, ids, o).rel = rel /\ Gets(rel, ids, o).rows \in Seq((k + 1) .. (k + c))
              /\ FitsQuery(objects', QueryOf(rel, task.on), o, Gets(rel, ids, o))
              /\ \A r \in Range(Gets(rel, ids, o).rows) :
                   IF rel = "parent" THEN objects'[r].id = objects'[o].parent ELSE objects'[r].parent = objects'[o].id
  <2> DEFINE g == Gets(rel, ids, o)
             all == IF Truthy(KeyOf(rel, objects[o])) THEN Related(people, rel, objects[o]) ELSE {}
             mine == {brought[r].id : r \in Range(g.rows)}
  <2>0. Range(task.on) \subseteq 1 .. Len(objects)
    BY <1>6 DEF k
  <2>1. /\ g.rows \in Seq((k + 1) .. (k + c)) /\ mine \subseteq all
        /\ IF rel = "children" THEN mine = all ELSE all # {} => mine # {}
        /\ \A r \in Range(g.rows) :
             IF rel = "parent" THEN brought[r].id = objects[o].parent ELSE brought[r].parent = objects[o].id
    <3>1. GetsRight(rel, o, g.rows, brought, k, c)
      BY <1>0, <1>5, <2>0, GetsFits DEF k, c, brought
    <3> HIDE DEF g
    <3> QED
      BY <3>1 DEF GetsRight
  <2>2. g.rel = rel
    BY DEF Gets
  <2> HIDE DEF g
  <2>3. Range(g.rows) \subseteq (k + 1) .. (k + c)
    BY <2>1, RangeOfSeq
  <2>4. \A r \in Range(g.rows) :
          objects'[r].id = brought[r].id /\ objects'[r].parent = brought[r].parent /\ objects'[r].parent = people[objects'[r].id]
    BY <1>12, <2>3
  <2>5. objects'[o].id = objects[o].id /\ objects'[o].parent = objects[o].parent
    BY <1>6, <1>11
  <2>6. \A r \in Range(g.rows) :
          IF rel = "parent" THEN objects'[r].id = objects'[o].parent ELSE objects'[r].parent = objects'[o].id
    BY <2>1, <2>4, <2>5
  <2>7. KeyOf(rel, objects'[o]) = KeyOf(rel, objects[o])
    BY <2>5 DEF KeyOf
  <2>8. Related(people, rel, objects'[o]) = Related(people, rel, objects[o])
    BY <2>5 DEF Related
  <2>9. {objects'[r].id : r \in Range(g.rows)} = mine
    BY <2>4
  <2>10. all = IF Truthy(KeyOf(rel, objects'[o])) THEN Related(people, rel, objects'[o]) ELSE {}
    BY <2>7, <2>8
  <2> HIDE DEF all, mine
  <2> DEFINE query == QueryOf(rel, task.on)
  <2>11. query.rel = rel /\ query.table = people
    BY DEF QueryOf
  <2> HIDE DEF query
  <2>12. FitsQuery(objects', query, o, g)
    BY <2>1, <2>2, <2>4, <2>9, <2>10, <2>11 DEF FitsQuery
  <2> QED
    BY <2>1, <2>2, <2>6, <2>12 DEF g, query
<1> HIDE DEF on
<1>14. LoadShape(task, rel, ids, k, c)
  <2> USE DEF on
  <2> QED
    <3>1. \A o \in 1 .. (k + c) : IsObject(objects'[o])
      BY <1>10
    <3> QED
      BY <1>1, <1>3, <1>5, <1>6, <1>8, <1>9, <1>11, <1>12, <1>13, <3>1 DEF LoadShape
<1> QED
  BY <1>14 DEF k, c
-----------------------------------------------------------------------------
LEMMA EmptyRange == Range(<< >>) = {}
BY DEF Range

LEMMA RelInitHolds ==
  ASSUME RelationsConstantsOK, RelationsInit
  PROVE  RelInv
<1>1. /\ people \in Tables /\ writes = 0 /\ objects = << >> /\ tasks = << >> /\ loads = {}
      /\ progress = "idle" /\ asked = [on |-> << >>, tree |-> << >>]
  BY DEF RelationsInit
<1>2. RelTypes
  <2>1. ObjectsFit(objects) /\ TasksFit(objects, tasks)
    BY <1>1 DEF ObjectsFit, TasksFit
  <2>2. writes \in 0 .. MaxWrites
    BY <1>1 DEF RelationsConstantsOK
  <2>3. asked \in [on : Seq(1 .. Len(objects)), tree : Seq(Nodes)]
    BY <1>1
  <2>4. \A i, j \in DOMAIN asked.tree : asked.tree[i].rel = asked.tree[j].rel => i = j
    BY <1>1
  <2> QED
    BY <1>1, <2>1, <2>2, <2>3, <2>4 DEF RelTypes
<1>3. LoadsHold /\ RowsBelong /\ ObjectsCurrent
  BY <1>1 DEF LoadsHold, RowsBelong, ObjectsCurrent
<1>4. AllHandled /\ TasksApart
  <2>1. Range(asked.tree) = {} /\ Range(tasks) = {}
    BY <1>1, EmptyRange
  <2>2. AllTasks = {asked}
    BY <2>1 DEF AllTasks
  <2> QED
    BY <2>1, <2>2 DEF AllHandled, TasksApart
<1> QED
  BY <1>2, <1>3, <1>4 DEF RelInv

LEMMA RelWriteHolds ==
  ASSUME RelationsConstantsOK, RelInv, WritePeople
  PROVE  RelInv'
<1>1. /\ people' \in Tables /\ writes < MaxWrites /\ writes' = writes + 1 /\ progress = "running"
      /\ objects' = objects /\ tasks' = tasks /\ progress' = progress /\ asked' = asked /\ loads' = loads
  BY DEF WritePeople
<1>2. RelTypes'
  <2>1. writes' \in 0 .. MaxWrites
    BY <1>1 DEF RelInv, RelTypes, RelationsConstantsOK
  <2> QED
    BY <1>1, <2>1 DEF RelInv, RelTypes
<1>3. writes' # 0
  BY <1>1 DEF RelInv, RelTypes, RelationsConstantsOK
<1>4. LoadsHold'
  <2>1. LoadsHold
    BY DEF RelInv
  <2> QED
    BY <1>1, <2>1 DEF LoadsHold, FitsQuery, Related, KeyOf
<1>5. RowsBelong' /\ ObjectsCurrent'
  BY <1>1, <1>3 DEF RelInv, RowsBelong, ObjectsCurrent
<1>6. AllHandled'
  <2>1. AllHandled
    BY DEF RelInv
  <2>2. AllTasks' = AllTasks
    BY <1>1 DEF AllTasks, Under
  <2>3. \A on, node : (HasLoaded(on, node) <=> HasLoaded(on, node)') /\ (Pending(on, node) <=> Pending(on, node)')
    BY <1>1 DEF HasLoaded, Pending, Lacks, KeyOf
  <2> QED
    BY <2>1, <2>2, <2>3 DEF AllHandled
<1>7. TasksApart'
  BY <1>1 DEF RelInv, TasksApart
<1> QED
  BY <1>2, <1>4, <1>5, <1>6, <1>7 DEF RelInv

LEMMA RelFindHolds ==
  ASSUME RelationsConstantsOK, RelInv, NEW where \in SUBSET DOMAIN people, FindMany(where)
  PROVE  RelInv'
<1> DEFINE c == Cardinality(where)
<1>1. PICK tree \in Trees :
        /\ progress = "idle" /\ asked' = [on |-> New(where), tree |-> tree] /\ objects' = Fetched(where)
        /\ IF where = {} THEN progress' = "done" /\ tasks' = tasks
           ELSE progress' = "running" /\ tasks' = <<asked'>>
        /\ people' = people /\ writes' = writes /\ loads' = loads
  BY DEF FindMany
<1>2. /\ people \in Tables /\ writes \in 0 .. MaxWrites /\ objects = << >> /\ loads = {}
      /\ ObjectsFit(objects) /\ tasks = << >>
  BY <1>1 DEF RelInv, RelTypes
<1>3. tree \in Seq(Nodes) /\ tree # << >> /\ \A i, j \in DOMAIN tree : tree[i].rel = tree[j].rel => i = j
  BY DEF RelationsConstantsOK
<1>4. /\ c \in Nat /\ objects' \in Seq(ObjectsOf(c)) /\ Len(objects') = c
      /\ \A i \in 1 .. c :
           /\ objects'[i].id \in where /\ objects'[i].parent = people[objects'[i].id] /\ objects'[i].loaded = {}
  <2>1. c \in Nat
    BY <1>2, FetchedFits
  <2>2. /\ Fetched(where) \in Seq(ObjectsOf(c)) /\ Len(Fetched(where)) = c
        /\ \A i \in 1 .. c : /\ Fetched(where)[i].id \in where
                            /\ Fetched(where)[i].parent = people[Fetched(where)[i].id]
                            /\ Fetched(where)[i].loaded = {}
    BY <1>2, <2>1, FetchedFits
  <2> HIDE DEF c
  <2> QED
    BY <1>1, <2>1, <2>2
<1>5. New(where) \in Seq(1 .. c) /\ Len(New(where)) = c
  <2>1. Len(objects) = 0
    BY <1>2
  <2>2. New(where) \in Seq((0 + 1) .. (0 + c)) /\ Len(New(where)) = c
    BY <1>2, <1>4, <2>1, NewFits
  <2>3. 0 + 1 = 1 /\ 0 + c = c
    BY <1>4
  <2> QED
    BY <2>2, <2>3
<1>6. DOMAIN objects' = 1 .. c
  <2> HIDE DEF c
  <2> QED
    BY <1>4
<1>7. where = {} => c = 0
  BY FS_EmptySet
<1> HIDE DEF c
<1>8. /\ asked' \in [on : Seq(1 .. c), tree : Seq(Nodes) \ {<< >>}]
      /\ asked'.on = New(where) /\ asked'.tree = tree
  BY <1>1, <1>3, <1>5
<1>9. RelTypes'
  <2>1. ObjectsFit(objects')
    BY <1>4 DEF ObjectsFit
  <2>2. TasksFit(objects', tasks') /\ (progress' = "running" <=> tasks' # << >>)
    <3>1. asked' \in TaskOf(c)
      BY <1>8 DEF TaskOf
    <3>2. CASE where = {}
      <4>1. tasks' = << >> /\ progress' = "done"
        BY <1>1, <1>2, <3>2
      <4>2. TasksFit(objects', tasks')
        BY <4>1 DEF TasksFit
      <4> QED
        BY <4>1, <4>2
    <3>3. CASE where # {}
      <4>1. tasks' = <<asked'>> /\ progress' = "running"
        BY <1>1, <3>3
      <4>2. <<asked'>> \in Seq(TaskOf(c)) /\ <<asked'>> # << >>
        BY <3>1
      <4>3. TasksFit(objects', tasks')
        BY <1>4, <4>1, <4>2 DEF TasksFit
      <4> QED
        BY <4>1, <4>2, <4>3
    <3> QED
      BY <3>2, <3>3
  <2>3. progress' \in {"running", "done"}
    BY <1>1
  <2>4. asked' \in [on : Seq(1 .. Len(objects')), tree : Seq(Nodes)]
    BY <1>4, <1>8
  <2>5. \A i, j \in DOMAIN asked'.tree : asked'.tree[i].rel = asked'.tree[j].rel => i = j
    BY <1>3, <1>8
  <2> QED
    BY <1>1, <1>2, <2>1, <2>2, <2>3, <2>4, <2>5 DEF RelTypes
<1>10. LoadsHold' /\ RowsBelong' /\ ObjectsCurrent'
  <2>1. LoadsHold'
    BY <1>1, <1>2 DEF LoadsHold
  <2>2. RowsBelong'
    BY <1>4, <1>6 DEF RowsBelong
  <2>3. ObjectsCurrent'
    BY <1>1, <1>4, <1>6 DEF ObjectsCurrent
  <2> QED
    BY <2>1, <2>2, <2>3
<1>11. AllHandled'
  <2>1. ASSUME NEW t \in AllTasks' PROVE t = asked'
    <3>1. \A o \in Range(asked'.on) : \A rel : Under(o, rel)' = {}
      <4>1. Range(asked'.on) \subseteq 1 .. c
        BY <1>5, <1>8, RangeOfSeq
      <4> QED
        BY <1>4, <4>1 DEF Under
    <3> QED
      BY <2>1, <3>1 DEF AllTasks
  <2>2. ASSUME where = {} PROVE Range(asked'.on) = {}
    <3>1. New(where) = << >>
      BY <1>5, <1>7, <2>2
    <3> QED
      BY <1>8, <3>1, EmptyRange
  <2>3. ASSUME where # {} PROVE asked' \in Range(tasks')
    <3>1. tasks' = <<asked'>>
      BY <1>1, <2>3
    <3>2. DOMAIN tasks' = {1} /\ tasks'[1] = asked'
      BY <3>1
    <3> QED
      BY <3>2 DEF Range
  <2>4. ASSUME where = {}, NEW node PROVE HasLoaded(asked.on, node)'
    BY <2>2, <2>4 DEF HasLoaded
  <2>5. ASSUME where # {}, NEW node \in Range(asked'.tree) PROVE Pending(asked.on, node)'
    BY <2>3, <2>5 DEF Pending
  <2> QED
    BY <2>1, <2>4, <2>5 DEF AllHandled
<1>12. TasksApart'
  <2>1. \A t \in Range(tasks') : t = asked'
    <3>1. CASE where = {}
      BY <1>1, <1>2, <3>1, EmptyRange
    <3>2. CASE where # {}
      <4>1. tasks' = <<asked'>>
        BY <1>1, <3>2
      <4>2. DOMAIN tasks' = {1} /\ tasks'[1] = asked'
        BY <4>1
      <4> QED
        BY <4>2 DEF Range
    <3> QED
      BY <3>1, <3>2
  <2> QED
    BY <2>1 DEF TasksApart
<1> QED
  BY <1>9, <1>10, <1>11, <1>12 DEF RelInv

LEMMA RelSkipHolds ==
  ASSUME RelationsConstantsOK, RelInv, SkipRelation
  PROVE  RelInv'
<1> DEFINE task == Last(tasks)
           todo == Front(tasks) \o Rest(task)
           n == Len(objects)
<1>1. /\ progress = "running" /\ \A key \in KeysOf(Head(task.tree).rel, task.on) : ~Truthy(key)
      /\ tasks' = todo /\ progress' = (IF todo = << >> THEN "done" ELSE "running")
      /\ people' = people /\ writes' = writes /\ objects' = objects /\ asked' = asked /\ loads' = loads
  BY DEF SkipRelation, Continue
<1>2. RelTypes /\ tasks \in Seq(TaskOf(n)) /\ tasks # << >>
  BY <1>1 DEF RelInv, RelTypes, TasksFit
<1>3. /\ todo \in Seq(TaskOf(n))
      /\ task \in Range(tasks)
      /\ \A t \in Range(todo) : t \in Range(tasks) \/ (t.on = task.on /\ Range(t.tree) \subseteq Range(task.tree))
      /\ \A t \in Range(tasks) : t = task \/ t \in Range(todo)
      /\ \A node \in Range(task.tree) : node = Head(task.tree) \/
           \E t \in Range(todo) : t.on = task.on /\ node \in Range(t.tree)
  BY <1>2, TodoFits
<1> HIDE DEF todo, task, n
<1>4. RelTypes'
  <2>1. TasksFit(objects', tasks')
    BY <1>1, <1>3 DEF TasksFit, n
  <2>2. progress' \in {"running", "done"} /\ (progress' = "running" <=> tasks' # << >>)
    BY <1>1
  <2> QED
    BY <1>1, <1>2, <2>1, <2>2 DEF RelTypes
<1>5. LoadsHold'
  <2>1. LoadsHold
    BY DEF RelInv
  <2> QED
    BY <1>1, <2>1 DEF LoadsHold, FitsQuery, Related, KeyOf
<1>6. RowsBelong' /\ ObjectsCurrent'
  BY <1>1 DEF RelInv, RowsBelong, ObjectsCurrent
<1>7. AllHandled'
  <2>1. AllHandled
    BY DEF RelInv
  <2>2. AllTasks' = AllTasks
    BY <1>1 DEF AllTasks, Under
  <2>3. \A on, node : HasLoaded(on, node) => HasLoaded(on, node)'
    BY <1>1 DEF HasLoaded, Lacks, KeyOf
  <2>4. ASSUME NEW on, NEW node, Pending(on, node) PROVE HasLoaded(on, node) \/ Pending(on, node)'
    <3>1. PICK t \in Range(tasks) : t.on = on /\ node \in Range(t.tree)
      BY <2>4 DEF Pending
    <3>2. CASE t \in Range(todo)
      BY <1>1, <3>1, <3>2 DEF Pending
    <3>3. CASE t = task /\ node = Head(task.tree)
      <4>1. \A o \in Range(on) : ~Truthy(KeyOf(node.rel, objects[o]))
        BY <1>1, <3>1, <3>3 DEF KeysOf
      <4> QED
        BY <4>1 DEF HasLoaded
    <3>4. CASE t = task /\ node # Head(task.tree)
      <4>1. \E u \in Range(todo) : u.on = on /\ node \in Range(u.tree)
        BY <1>3, <3>1, <3>4
      <4> QED
        BY <1>1, <4>1 DEF Pending
    <3> QED
      BY <1>3, <3>2, <3>3, <3>4
  <2> QED
    BY <2>1, <2>2, <2>3, <2>4 DEF AllHandled
<1>8. TasksApart'
  <2>1. \A t \in Range(tasks) : \/ t.on = asked.on /\ Range(t.tree) \subseteq Range(asked.tree)
                                \/ Range(t.on) \cap Range(asked.on) = {}
    BY DEF RelInv, TasksApart
  <2>2. \A t \in Range(todo) : \/ t.on = asked.on /\ Range(t.tree) \subseteq Range(asked.tree)
                               \/ Range(t.on) \cap Range(asked.on) = {}
    BY <1>3, <2>1
  <2> QED
    BY <1>1, <2>2 DEF TasksApart
<1> QED
  BY <1>4, <1>5, <1>6, <1>7, <1>8 DEF RelInv
-----------------------------------------------------------------------------
BelowRight(K, below, m) ==
  /\ Below(Ascending(K), below) \in Seq(TaskOf(m))
  /\ \A t \in Range(Below(Ascending(K), below)) : \E r \in K : t.on = <<r>>
  /\ below # << >> => \A r \in K : \E t \in Range(Below(Ascending(K), below)) : t.on = <<r>> /\ t.tree = below

\* A task for each row attached, and for no other.
LEMMA BelowFits ==
  ASSUME NEW m \in Nat, NEW K \in SUBSET (1 .. m), NEW below \in Seq(Nodes)
  PROVE  BelowRight(K, below, m)
<1> DEFINE list == Ascending(K)
           n == Cardinality(K)
           b == Below(list, below)
<1>1. K \in SUBSET Nat /\ IsFiniteSet(K)
  <2>1. IsFiniteSet(1 .. m)
    BY FS_Interval
  <2>2. \A x \in K : x \in Nat
    OBVIOUS
  <2>3. IsFiniteSet(K)
    BY <2>1, FS_Subset
  <2> QED
    BY <2>2, <2>3
<1>2. n \in Nat /\ list \in Seq(K) /\ Len(list) = n /\ DOMAIN list = 1 .. n /\ Range(list) = K
  BY <1>1, AscendingSeq
<1> HIDE DEF list, n
<1>3. CASE below = << >>
  <2>1. b = << >>
    BY <1>3 DEF Below
  <2>2. b \in Seq(TaskOf(m)) /\ Range(b) = {}
    BY <2>1, EmptyRange
  <2> QED
    BY <1>3, <2>2 DEF BelowRight, list
<1>4. CASE below # << >>
  <2> DEFINE f == [i \in 1 .. n |-> [on |-> <<list[n + 1 - i]>>, tree |-> below]]
  <2>1. b = f
    BY <1>2, <1>4 DEF Below
  <2>2. \A i \in 1 .. n : n + 1 - i \in 1 .. n /\ n + 1 - (n + 1 - i) = i
    BY <1>2
  <2>3. \A i \in 1 .. n : list[i] \in K
    BY <1>2 DEF Range
  <2>4. ASSUME NEW i \in 1 .. n PROVE f[i] \in TaskOf(m) /\ f[i].on = <<list[n + 1 - i]>> /\ f[i].tree = below
    <3>1. list[n + 1 - i] \in 1 .. m
      BY <2>2, <2>3
    <3>2. <<list[n + 1 - i]>> \in Seq(1 .. m)
      BY <3>1
    <3>3. f[i] = [on |-> <<list[n + 1 - i]>>, tree |-> below]
      OBVIOUS
    <3> HIDE DEF f
    <3> QED
      BY <1>4, <3>2, <3>3 DEF TaskOf
  <2>5. f \in [1 .. n -> TaskOf(m)]
    BY <2>4
  <2>6. DOMAIN f = 1 .. n
    OBVIOUS
  <2> HIDE DEF f
  <2>7. f \in Seq(TaskOf(m))
    BY <1>2, <2>5
  <2>8. \A t \in Range(f) : \E r \in K : t.on = <<r>>
    <3> SUFFICES ASSUME NEW i \in 1 .. n PROVE \E r \in K : f[i].on = <<r>>
      BY <2>6, Zenon DEF Range
    <3>1. list[n + 1 - i] \in K
      BY <2>2, <2>3
    <3>2. f[i].on = <<list[n + 1 - i]>>
      BY <2>4, Zenon
    <3> QED
      BY <3>1, <3>2, Zenon
  <2>9. ASSUME NEW r \in K PROVE \E t \in Range(f) : t.on = <<r>> /\ t.tree = below
    <3>1. PICK i \in 1 .. n : list[i] = r
      BY <1>2 DEF Range
    <3>2. n + 1 - i \in 1 .. n /\ n + 1 - (n + 1 - i) = i
      BY <2>2
    <3>3. f[n + 1 - i].on = <<r>> /\ f[n + 1 - i].tree = below
      BY <2>4, <3>1, <3>2
    <3>4. f[n + 1 - i] \in Range(f)
      BY <2>6, <3>2 DEF Range
    <3> QED
      BY <3>3, <3>4
  <2> QED
    BY <2>1, <2>7, <2>8, <2>9 DEF BelowRight, list
<1> QED
  BY <1>3, <1>4

TasksRight(task, kept, k, c) ==
  /\ kept \subseteq (k + 1) .. (k + c)
  /\ tasks' \in Seq(TaskOf(k + c))
  /\ progress' = IF tasks' = << >> THEN "done" ELSE "running"
  /\ \A t \in Range(tasks') : \/ t \in Range(tasks)
                              \/ t.on = task.on /\ Range(t.tree) \subseteq Range(task.tree)
                              \/ \E r \in kept : t.on = <<r>>
  /\ task \in Range(tasks)
  /\ \A t \in Range(tasks) : t = task \/ t \in Range(tasks')
  /\ \A node \in Range(task.tree) : node = Head(task.tree) \/
       \E t \in Range(tasks') : t.on = task.on /\ node \in Range(t.tree)
  /\ \A r \in kept : \A node \in Range(Head(task.tree).below) :
       \E t \in Range(tasks') : t.on = <<r>> /\ node \in Range(t.tree)

\* What is left to load when a relation is.
LEMMA LoadTasks ==
  ASSUME RelationsConstantsOK, RelTypes, LoadRelation,
         NEW task, task = Last(tasks), NEW rel, rel = Head(task.tree).rel, NEW ids, ids = IdsAsked(rel, task.on),
         NEW k, NEW c, LoadShape(task, rel, ids, k, c), k = Len(objects)
  PROVE  TasksRight(task, KeptBy(rel, ids, task.on), k, c)
<1> DEFINE kept == KeptBy(rel, ids, task.on)
           below == Head(task.tree).below
           front == Front(tasks) \o Rest(task)
           more == Below(Ascending(kept), below)
<1>1. /\ tasks' = front \o more /\ progress' = IF tasks' = << >> THEN "done" ELSE "running"
  BY LoadUnfolds DEF LoadRight, Continue
<1>2. tasks \in Seq(TaskOf(k)) /\ tasks # << >>
  BY DEF RelTypes, TasksFit, LoadRelation
<1>3. /\ k \in Nat /\ c \in Nat /\ Head(task.tree) \in Nodes
      /\ \A o \in Range(task.on) : Gets(rel, ids, o).rows \in Seq((k + 1) .. (k + c))
  BY DEF LoadShape
<1>4. kept \subseteq (k + 1) .. (k + c)
  <2>1. ASSUME NEW o \in Range(task.on) PROVE Range(Gets(rel, ids, o).rows) \subseteq (k + 1) .. (k + c)
    <3>1. Gets(rel, ids, o).rows \in Seq((k + 1) .. (k + c))
      BY <1>3
    <3> QED
      BY <3>1, RangeOfSeq
  <2> QED
    BY <2>1 DEF KeptBy
<1>5. /\ task \in Range(tasks) /\ front \in Seq(TaskOf(k))
      /\ \A t \in Range(front) : t \in Range(tasks) \/ (t.on = task.on /\ Range(t.tree) \subseteq Range(task.tree))
      /\ \A t \in Range(tasks) : t = task \/ t \in Range(front)
      /\ \A node \in Range(task.tree) : node = Head(task.tree) \/
           \E t \in Range(front) : t.on = task.on /\ node \in Range(t.tree)
  BY <1>2, TodoFits
<1>6. kept \in SUBSET (1 .. (k + c)) /\ k + c \in Nat
  <2>1. \A r \in (k + 1) .. (k + c) : r \in 1 .. (k + c)
    BY <1>3
  <2> HIDE DEF kept
  <2> QED
    BY <1>3, <1>4, <2>1
<1>7. below \in Seq(Nodes)
  BY <1>3 DEF RelationsConstantsOK
<1>8. BelowRight(kept, below, k + c)
  BY <1>6, <1>7, BelowFits
<1>9. /\ more \in Seq(TaskOf(k + c)) /\ \A t \in Range(more) : \E r \in kept : t.on = <<r>>
      /\ below # << >> => \A r \in kept : \E t \in Range(more) : t.on = <<r>> /\ t.tree = below
  BY <1>8 DEF BelowRight
<1> HIDE DEF kept, below, front, more
<1>10. TaskOf(k) \subseteq TaskOf(k + c)
  <2>1. 1 .. k \subseteq 1 .. (k + c)
    BY <1>3
  <2>2. Seq(1 .. k) \subseteq Seq(1 .. (k + c))
    BY <2>1, SeqMonotonic
  <2> QED
    BY <2>2 DEF TaskOf
<1>11. front \in Seq(TaskOf(k + c))
  BY ONLY <1>5, <1>10, SeqMonotonic
<1>12. tasks' \in Seq(TaskOf(k + c)) /\ Range(tasks') = Range(front) \cup Range(more)
  BY <1>1, <1>9, <1>11, ConcatProperties, RangeConcatenation
<1>13. \A t \in Range(tasks') : \/ t \in Range(tasks)
                                \/ t.on = task.on /\ Range(t.tree) \subseteq Range(task.tree)
                                \/ \E r \in kept : t.on = <<r>>
  BY <1>5, <1>9, <1>12
<1>14. \A r \in kept : \A node \in Range(below) : \E t \in Range(tasks') : t.on = <<r>> /\ node \in Range(t.tree)
  <2>1. CASE below = << >>
    BY <2>1, EmptyRange
  <2>2. CASE below # << >>
    BY <1>9, <1>12, <2>2
  <2> QED
    BY <2>1, <2>2
<1>15. /\ \A t \in Range(tasks) : t = task \/ t \in Range(tasks')
       /\ \A node \in Range(task.tree) : node = Head(task.tree) \/
            \E t \in Range(tasks') : t.on = task.on /\ node \in Range(t.tree)
  BY <1>5, <1>12
<1> QED
  BY <1>1, <1>4, <1>5, <1>12, <1>13, <1>14, <1>15 DEF TasksRight, kept, below
-----------------------------------------------------------------------------
\* The queries made still hold for what the rows hold, and the new one does.
LEMMA RelLoadQueries ==
  ASSUME RelationsConstantsOK, RelInv, LoadRelation,
         NEW task, NEW rel, NEW ids, NEW k, NEW c, LoadShape(task, rel, ids, k, c),
         loads' = loads \cup {QueryOf(rel, task.on)}
  PROVE  LoadsHold'
<1> DEFINE query == QueryOf(rel, task.on)
<1>1. /\ k \in Nat /\ c \in Nat /\ rel \in Names /\ Range(task.on) \subseteq 1 .. k
      /\ DOMAIN objects = 1 .. k /\ DOMAIN objects' = 1 .. (k + c)
      /\ \A o \in 1 .. k :
           /\ o \in 1 .. (k + c)
           /\ objects'[o].id = objects[o].id /\ objects'[o].parent = objects[o].parent
           /\ objects'[o].loaded = objects[o].loaded \cup (IF o \in Range(task.on) THEN {Gets(rel, ids, o)} ELSE {})
      /\ \A o \in Range(task.on) : FitsQuery(objects', query, o, Gets(rel, ids, o))
  BY DEF LoadShape
<1>2. \A o \in DOMAIN objects : \A l \in objects[o].loaded : Range(l.rows) \subseteq DOMAIN objects
  <2>1. objects \in Seq(ObjectsOf(Len(objects)))
    BY DEF RelInv, RelTypes, ObjectsFit
  <2>2. Len(objects) \in Nat /\ DOMAIN objects = 1 .. Len(objects)
    BY <2>1
  <2>3. ASSUME NEW o \in DOMAIN objects, NEW l \in objects[o].loaded PROVE Range(l.rows) \subseteq DOMAIN objects
    <3>1. objects[o] \in ObjectsOf(Len(objects))
      BY <2>1, <2>2
    <3>2. l \in LoadsOf(Len(objects))
      BY <2>3, <3>1 DEF ObjectsOf
    <3>3. l.rows \in Seq(1 .. Len(objects))
      BY <3>2 DEF LoadsOf
    <3> QED
      BY <2>2, <3>3, RangeOfSeq
  <2> QED
    BY <2>3
<1>3. LoadsHold
  BY DEF RelInv
<1>4. ASSUME NEW q \in loads, NEW o \in q.on
      PROVE  \E l \in objects'[o].loaded : FitsQuery(objects', q, o, l)
  <2>1. PICK l \in objects[o].loaded : FitsQuery(objects, q, o, l)
    BY <1>3 DEF LoadsHold
  <2>2. o \in 1 .. k
    BY <1>1, <1>3 DEF LoadsHold
  <2>3. l \in objects'[o].loaded
    BY <1>1, <2>1, <2>2
  <2>4. \A r \in Range(l.rows) : objects'[r].id = objects[r].id /\ objects'[r].parent = objects[r].parent
    BY <1>1, <1>2, <2>2
  <2>5. {objects'[r].id : r \in Range(l.rows)} = {objects[r].id : r \in Range(l.rows)}
    BY <2>4
  <2>6. objects'[o].id = objects[o].id /\ objects'[o].parent = objects[o].parent
    BY <1>1, <2>2
  <2>7. KeyOf(q.rel, objects'[o]) = KeyOf(q.rel, objects[o])
    BY <2>6 DEF KeyOf
  <2>8. Related(q.table, q.rel, objects'[o]) = Related(q.table, q.rel, objects[o])
    BY <2>6 DEF Related
  <2> DEFINE mine == {objects[r].id : r \in Range(l.rows)}
             all  == IF Truthy(KeyOf(q.rel, objects[o])) THEN Related(q.table, q.rel, objects[o]) ELSE {}
  <2>9. /\ l.rel = q.rel /\ mine \subseteq all
        /\ IF q.rel = "children" THEN mine = all ELSE all # {} => mine # {}
        /\ \A r \in Range(l.rows) : objects[r].parent = q.table[objects[r].id]
    BY <2>1 DEF FitsQuery
  <2>10. mine = {objects'[r].id : r \in Range(l.rows)}
    BY <2>5
  <2>11. all = IF Truthy(KeyOf(q.rel, objects'[o])) THEN Related(q.table, q.rel, objects'[o]) ELSE {}
    BY <2>7, <2>8
  <2>12. \A r \in Range(l.rows) : objects'[r].parent = q.table[objects'[r].id]
    BY <2>4, <2>9
  <2> HIDE DEF mine, all
  <2>13. FitsQuery(objects', q, o, l)
    BY <2>9, <2>10, <2>11, <2>12 DEF FitsQuery
  <2> QED
    BY <2>3, <2>13
<1>5. ASSUME NEW o \in Range(task.on)
      PROVE  \E l \in objects'[o].loaded : FitsQuery(objects', query, o, l)
  <2>1. o \in 1 .. k
    BY <1>1
  <2>2. Gets(rel, ids, o) \in objects'[o].loaded
    BY <1>1, <2>1
  <2> HIDE DEF query
  <2> QED
    BY <1>1, <2>2
<1>6. query.rel = rel /\ query.on = Range(task.on)
  BY DEF QueryOf
<1>7. \A q \in loads : q.rel \in Names /\ q.on \subseteq DOMAIN objects'
  BY <1>1, <1>3 DEF LoadsHold
<1>8. query.rel \in Names /\ query.on \subseteq DOMAIN objects'
  BY <1>1, <1>6
<1>9. loads' = loads \cup {query}
  OBVIOUS
<1> HIDE DEF query
<1> QED
  BY <1>4, <1>5, <1>6, <1>7, <1>8, <1>9 DEF LoadsHold

\* The objects keep their types, and the rows loaded are of those they are under.
LEMMA RelLoadObjects ==
  ASSUME RelationsConstantsOK, RelInv, LoadRelation,
         NEW task, NEW rel, NEW ids, NEW k, NEW c, LoadShape(task, rel, ids, k, c)
  PROVE  ObjectsFit(objects') /\ RowsBelong'
<1> DEFINE on == Range(task.on)
<1>1. /\ k \in Nat /\ c \in Nat /\ rel \in Names /\ on \subseteq 1 .. k /\ ids \subseteq DOMAIN people
      /\ DOMAIN objects = 1 .. k /\ DOMAIN objects' = 1 .. (k + c) /\ Len(objects') = k + c
      /\ \A o \in 1 .. k :
           /\ o \in 1 .. (k + c)
           /\ objects'[o].id = objects[o].id /\ objects'[o].parent = objects[o].parent
           /\ objects'[o].loaded = objects[o].loaded \cup (IF o \in on THEN {Gets(rel, ids, o)} ELSE {})
      /\ \A o \in (k + 1) .. (k + c) :
           o \in 1 .. (k + c) /\ objects'[o].id \in ids /\ objects'[o].parent = people[objects'[o].id]
           /\ objects'[o].loaded = {}
  BY DEF LoadShape
<1>2. \A o \in on :
        /\ Gets(rel, ids, o).rel = rel /\ Gets(rel, ids, o).rows \in Seq((k + 1) .. (k + c))
        /\ \A r \in Range(Gets(rel, ids, o).rows) :
             IF rel = "parent" THEN objects'[r].id = objects'[o].parent ELSE objects'[r].parent = objects'[o].id
  BY DEF LoadShape
<1>3. objects \in Seq(ObjectsOf(k))
  <2>1. objects \in Seq(ObjectsOf(Len(objects)))
    BY DEF RelInv, RelTypes, ObjectsFit
  <2>2. Len(objects) = k
    BY <1>1, <2>1
  <2> QED
    BY <2>1, <2>2
<1>4. ASSUME NEW o \in 1 .. k
      PROVE  objects[o].id \in Ids /\ objects[o].parent \in Keys0 /\ objects[o].loaded \in SUBSET LoadsOf(k)
  <2>1. objects[o] \in ObjectsOf(k)
    BY <1>1, <1>3
  <2> QED
    BY <2>1 DEF ObjectsOf
<1>5. LoadsOf(k) \subseteq LoadsOf(k + c) /\ Seq((k + 1) .. (k + c)) \subseteq Seq(1 .. (k + c))
  <2>1. 1 .. k \subseteq 1 .. (k + c) /\ (k + 1) .. (k + c) \subseteq 1 .. (k + c)
    BY <1>1
  <2>2. Seq(1 .. k) \subseteq Seq(1 .. (k + c))
    BY ONLY <2>1, SeqMonotonic
  <2> DEFINE new == (k + 1) .. (k + c)
             now == 1 .. (k + c)
  <2>3. Seq(new) \subseteq Seq(now)
    <3>1. new \subseteq now
      BY <2>1
    <3> HIDE DEF new, now
    <3> QED
      BY ONLY <3>1, SeqMonotonic
  <2> QED
    BY <2>2, <2>3 DEF LoadsOf
<1>6. ASSUME NEW o \in on PROVE Gets(rel, ids, o) \in LoadsOf(k + c)
  <2> DEFINE hers == Attached(rel, KeyOf(rel, MadeBy(ids)[o]), New(ids), MadeBy(ids))
  <2>1. Gets(rel, ids, o) = [rel |-> rel, rows |-> hers]
    BY DEF Gets
  <2> HIDE DEF hers
  <2>2. hers \in Seq(1 .. (k + c))
    BY <1>2, <1>5, <2>1
  <2> QED
    BY <1>1, <2>1, <2>2 DEF LoadsOf
<1>7. \A o \in 1 .. (k + c) : IsObject(objects'[o])
  BY DEF LoadShape
<1>8. ASSUME NEW o \in 1 .. (k + c) PROVE objects'[o] \in ObjectsOf(k + c)
  <2>1. objects'[o] = [id |-> objects'[o].id, parent |-> objects'[o].parent, loaded |-> objects'[o].loaded]
    BY <1>7 DEF IsObject
  <2>2. objects'[o].id \in Ids /\ objects'[o].parent \in Keys0 /\ objects'[o].loaded \in SUBSET LoadsOf(k + c)
    <3>1. CASE o \in 1 .. k
      <4>1. objects'[o].loaded = objects[o].loaded \cup (IF o \in on THEN {Gets(rel, ids, o)} ELSE {})
        BY <1>1, <3>1
      <4>2. objects'[o].loaded \in SUBSET LoadsOf(k + c)
        <5>1. objects[o].loaded \in SUBSET LoadsOf(k + c)
          BY <1>4, <1>5, <3>1
        <5> HIDE DEF on
        <5> QED
          BY <1>6, <4>1, <5>1
      <4>3. objects'[o].id \in Ids /\ objects'[o].parent \in Keys0
        BY <1>1, <1>4, <3>1
      <4> QED
        BY <4>2, <4>3
    <3>2. CASE o \in (k + 1) .. (k + c)
      <4>1. objects'[o].id \in DOMAIN people /\ objects'[o].parent = people[objects'[o].id] /\ objects'[o].loaded = {}
        BY <1>1, <3>2
      <4>2. people \in Tables
        BY DEF RelInv, RelTypes
      <4> QED
        BY <4>1, <4>2, PeopleFit
    <3> QED
      BY <1>1, <3>1, <3>2
  <2> QED
    BY <2>1, <2>2 DEF ObjectsOf
<1>9. ObjectsFit(objects')
  <2>1. objects' = [o \in 1 .. (k + c) |-> objects'[o]]
    BY DEF LoadShape
  <2>2. objects' \in [1 .. (k + c) -> ObjectsOf(k + c)]
    BY <1>8, <2>1
  <2>3. k + c \in Nat
    BY <1>1
  <2>4. objects' \in Seq(ObjectsOf(k + c))
    BY <2>2, <2>3
  <2> QED
    BY <1>1, <2>4 DEF ObjectsFit
<1>10. ASSUME NEW o \in 1 .. (k + c), NEW l \in objects'[o].loaded, NEW r \in Range(l.rows)
       PROVE  IF l.rel = "parent" THEN objects'[r].id = objects'[o].parent ELSE objects'[r].parent = objects'[o].id
  <2>1. o \in 1 .. k
    BY <1>1
  <2>2. CASE l \in objects[o].loaded
    <3>1. IF l.rel = "parent" THEN objects[r].id = objects[o].parent ELSE objects[r].parent = objects[o].id
      <4>1. RowsBelong
        BY DEF RelInv
      <4>2. o \in DOMAIN objects
        BY <1>1, <2>1
      <4> HIDE DEF on
      <4> QED
        BY <2>2, <4>1, <4>2 DEF RowsBelong
    <3>2. r \in 1 .. k
      <4>1. l \in LoadsOf(k)
        BY <1>4, <2>1, <2>2
      <4>2. l.rows \in Seq(1 .. k)
        BY <4>1 DEF LoadsOf
      <4> QED
        BY <4>2, RangeOfSeq
    <3> QED
      BY <1>1, <2>1, <3>1, <3>2
  <2>3. CASE l \notin objects[o].loaded
    <3>1. o \in on /\ l = Gets(rel, ids, o)
      <4>1. objects'[o].loaded = objects[o].loaded \cup (IF o \in on THEN {Gets(rel, ids, o)} ELSE {})
        BY <1>1, <2>1
      <4> HIDE DEF on
      <4> QED
        BY <2>3, <4>1
    <3> QED
      BY <1>2, <3>1
  <2> QED
    BY <2>2, <2>3
<1>11. RowsBelong'
  BY <1>1, <1>10 DEF RowsBelong
<1> QED
  BY <1>9, <1>11

\* What was handled stays so, and the rows attached get a task of their own.
LEMMA RelLoadHandled ==
  ASSUME RelationsConstantsOK, RelInv, LoadRelation, asked' = asked,
         NEW task, NEW rel, rel = Head(task.tree).rel, NEW ids, NEW k, NEW c, LoadShape(task, rel, ids, k, c),
         TasksRight(task, KeptBy(rel, ids, task.on), k, c)
  PROVE  AllHandled' /\ TasksApart'
<1> DEFINE on == Range(task.on)
           kept == KeptBy(rel, ids, task.on)
           first == Head(task.tree)
<1>1. /\ k \in Nat /\ c \in Nat /\ on \subseteq 1 .. k /\ DOMAIN objects = 1 .. k /\ DOMAIN objects' = 1 .. (k + c)
      /\ task \in TaskOf(k)
      /\ \A o \in 1 .. k :
           /\ o \in 1 .. (k + c)
           /\ objects'[o].id = objects[o].id /\ objects'[o].parent = objects[o].parent
           /\ objects'[o].loaded = objects[o].loaded \cup (IF o \in on THEN {Gets(rel, ids, o)} ELSE {})
      /\ \A o \in on : Gets(rel, ids, o).rel = rel
  BY DEF LoadShape
<1>2. /\ kept \subseteq (k + 1) .. (k + c)
      /\ \A t \in Range(tasks') : \/ t \in Range(tasks)
                                  \/ t.on = task.on /\ Range(t.tree) \subseteq Range(task.tree)
                                  \/ \E r \in kept : t.on = <<r>>
      /\ task \in Range(tasks)
      /\ \A t \in Range(tasks) : t = task \/ t \in Range(tasks')
      /\ \A node \in Range(task.tree) : node = first \/
           \E t \in Range(tasks') : t.on = task.on /\ node \in Range(t.tree)
      /\ \A r \in kept : \A node \in Range(first.below) :
           \E t \in Range(tasks') : t.on = <<r>> /\ node \in Range(t.tree)
  BY DEF TasksRight
<1>3. AllHandled /\ TasksApart
  BY DEF RelInv
<1>4. objects \in Seq(ObjectsOf(k)) /\ asked.on \in Seq(1 .. k) /\ asked.tree \in Seq(Nodes)
  <2>1. /\ objects \in Seq(ObjectsOf(Len(objects))) /\ asked.on \in Seq(1 .. Len(objects))
        /\ asked.tree \in Seq(Nodes)
    BY DEF RelInv, RelTypes, ObjectsFit
  <2>2. Len(objects) = k
    BY <1>1, <2>1
  <2> QED
    BY <2>1, <2>2
<1>5. Range(asked.on) \subseteq 1 .. k
  BY <1>4, RangeOfSeq
<1>6. \A o \in 1 .. k : \A l \in objects[o].loaded : Range(l.rows) \subseteq 1 .. k
  <2>1. ASSUME NEW o \in 1 .. k, NEW l \in objects[o].loaded PROVE Range(l.rows) \subseteq 1 .. k
    <3>1. objects[o] \in ObjectsOf(k)
      BY <1>1, <1>4
    <3>2. l \in LoadsOf(k)
      BY <2>1, <3>1 DEF ObjectsOf
    <3>3. l.rows \in Seq(1 .. k)
      BY <3>2 DEF LoadsOf
    <3> QED
      BY <3>3, RangeOfSeq
  <2> QED
    BY <2>1
<1>7. \A o \in on : Range(Gets(rel, ids, o).rows) \subseteq kept
  BY DEF KeptBy
<1> HIDE DEF on, kept, first
<1>8. ASSUME NEW o \in 1 .. k, NEW name
      PROVE  Under(o, name)' = Under(o, name) \cup
               (IF o \in on /\ name = rel THEN Range(Gets(rel, ids, o).rows) ELSE {})
  <2> DEFINE g == Gets(rel, ids, o)
  <2>1. objects'[o].loaded = objects[o].loaded \cup (IF o \in on THEN {g} ELSE {})
    BY <1>1
  <2>2. o \in on => g.rel = rel
    BY <1>1
  <2> HIDE DEF g
  <2>3. Under(o, name)' = UNION {Range(l.rows) : l \in {m \in objects'[o].loaded : m.rel = name}}
    BY DEF Under
  <2>4. Under(o, name) = UNION {Range(l.rows) : l \in {m \in objects[o].loaded : m.rel = name}}
    BY DEF Under
  <2>5. CASE o \in on /\ name = rel
    <3>1. {m \in objects'[o].loaded : m.rel = name} = {m \in objects[o].loaded : m.rel = name} \cup {g}
      BY <2>1, <2>2, <2>5
    <3> QED
      BY <2>3, <2>4, <2>5, <3>1 DEF g
  <2>6. CASE ~(o \in on /\ name = rel)
    <3>1. {m \in objects'[o].loaded : m.rel = name} = {m \in objects[o].loaded : m.rel = name}
      BY <2>1, <2>2, <2>6
    <3> QED
      BY <2>3, <2>4, <2>6, <3>1
  <2> QED
    BY <2>5, <2>6
<1>9. ASSUME NEW s, Range(s) \subseteq 1 .. k, NEW node, HasLoaded(s, node) PROVE HasLoaded(s, node)'
  <2>1. \A o \in 1 .. k : Lacks(o, node.rel)' => Lacks(o, node.rel)
    BY <1>1 DEF Lacks
  <2>2. \A o \in 1 .. k : KeyOf(node.rel, objects'[o]) = KeyOf(node.rel, objects[o])
    BY <1>1 DEF KeyOf
  <2> QED
    BY <1>9, <2>1, <2>2 DEF HasLoaded
<1>10. HasLoaded(task.on, first)'
  <2>1. \A o \in on : Gets(rel, ids, o) \in objects'[o].loaded /\ Gets(rel, ids, o).rel = first.rel
    BY <1>1 DEF first
  <2>2. \A o \in on : ~Lacks(o, first.rel)'
    BY <2>1 DEF Lacks
  <2> QED
    BY <2>2 DEF HasLoaded, on
<1>11. ASSUME NEW s, NEW node, Pending(s, node) PROVE Pending(s, node)' \/ (s = task.on /\ node = first)
  <2>1. PICK t \in Range(tasks) : t.on = s /\ node \in Range(t.tree)
    BY <1>11 DEF Pending
  <2>2. CASE t \in Range(tasks')
    BY <2>1, <2>2 DEF Pending
  <2>3. CASE t = task
    BY <1>2, <2>1, <2>3 DEF Pending
  <2> QED
    BY <1>2, <2>2, <2>3
<1>12. ASSUME NEW t \in AllTasks, NEW node \in Range(t.tree) PROVE HasLoaded(t.on, node)' \/ Pending(t.on, node)'
  <2>1. Range(t.on) \subseteq 1 .. k
    <3>1. CASE t = asked
      BY <1>5, <3>1
    <3>2. CASE t # asked
      <4>1. PICK up \in Range(asked.tree), o \in Range(asked.on) : \E r \in Under(o, up.rel) : t.on = <<r>>
        BY <3>2 DEF AllTasks
      <4>2. PICK r \in Under(o, up.rel) : t.on = <<r>>
        BY <4>1
      <4>3. r \in 1 .. k
        BY <1>5, <1>6, <4>1, <4>2 DEF Under
      <4>4. <<r>> \in Seq(1 .. k)
        BY <4>3
      <4> QED
        BY <4>2, <4>4, RangeOfSeq
    <3> QED
      BY <3>1, <3>2
  <2>2. HasLoaded(t.on, node) \/ Pending(t.on, node)
    BY <1>3, <1>12 DEF AllHandled
  <2> QED
    BY <1>9, <1>10, <1>11, <2>1, <2>2
<1>13. ASSUME NEW t \in AllTasks', t \notin AllTasks
       PROVE  \E r \in kept : t.on = <<r>> /\ t.tree = first.below
  <2>1. PICK up \in Range(asked.tree) : \E r \in UNION {Under(o, up.rel)' : o \in Range(asked.on)} :
          t = [on |-> <<r>>, tree |-> up.below]
    BY <1>13 DEF AllTasks
  <2>2. PICK r \in UNION {Under(o, up.rel)' : o \in Range(asked.on)} : t = [on |-> <<r>>, tree |-> up.below]
    BY <2>1
  <2>3. PICK o \in Range(asked.on) : r \in Under(o, up.rel)'
    BY <2>2
  <2>4. r \notin Under(o, up.rel)
    <3>1. ASSUME r \in Under(o, up.rel) PROVE FALSE
      <4>1. r \in UNION {Under(p, up.rel) : p \in Range(asked.on)}
        BY <3>1
      <4>2. t \in {[on |-> <<x>>, tree |-> up.below] : x \in UNION {Under(p, up.rel) : p \in Range(asked.on)}}
        BY <2>2, <4>1
      <4>3. t \in AllTasks
        BY <4>2 DEF AllTasks
      <4> QED
        BY <1>13, <4>3
    <3> QED
      BY <3>1
  <2>5. o \in 1 .. k
    BY <1>5
  <2>6. o \in on /\ up.rel = rel /\ r \in Range(Gets(rel, ids, o).rows)
    BY <1>8, <2>3, <2>4, <2>5
  <2>7. r \in kept
    BY <1>7, <2>6
  <2>8. Range(task.tree) \subseteq Range(asked.tree)
    BY <1>2, <1>3, <2>6 DEF TasksApart, on
  <2>9. first \in Range(asked.tree)
    <3>1. task.tree \in Seq(Nodes) /\ task.tree # << >>
      BY <1>1 DEF TaskOf
    <3>2. Head(task.tree) \in Range(task.tree)
      BY <3>1, TailRange
    <3> QED
      BY <2>8, <3>2 DEF first
  <2>10. up = first
    <3>1. \A i, j \in DOMAIN asked.tree : asked.tree[i].rel = asked.tree[j].rel => i = j
      BY DEF RelInv, RelTypes
    <3>2. PICK i \in DOMAIN asked.tree : asked.tree[i] = up
      BY DEF Range
    <3>3. PICK j \in DOMAIN asked.tree : asked.tree[j] = first
      BY <2>9 DEF Range
    <3>4. up.rel = first.rel
      BY <2>6 DEF first
    <3> QED
      BY <3>1, <3>2, <3>3, <3>4
  <2> QED
    BY <2>2, <2>7, <2>10
<1>14. AllHandled'
  <2>1. ASSUME NEW t \in AllTasks', t \notin AllTasks, NEW node \in Range(t.tree) PROVE Pending(t.on, node)'
    <3>1. PICK r \in kept : t.on = <<r>> /\ t.tree = first.below
      BY <1>13, <2>1
    <3> QED
      BY <1>2, <2>1, <3>1 DEF Pending
  <2> QED
    BY <1>12, <2>1 DEF AllHandled
<1>15. TasksApart'
  <2>1. ASSUME NEW t \in Range(tasks')
        PROVE  \/ t.on = asked.on /\ Range(t.tree) \subseteq Range(asked.tree)
               \/ Range(t.on) \cap Range(asked.on) = {}
    <3>1. CASE \E r \in kept : t.on = <<r>>
      <4>1. PICK r \in kept : t.on = <<r>>
        BY <3>1
      <4>2. r \notin 1 .. k
        BY <1>1, <1>2, <4>1
      <4>3. Range(<<r>>) = {r}
        BY DEF Range
      <4> QED
        BY <1>5, <4>1, <4>2, <4>3
    <3>2. CASE t.on = task.on /\ Range(t.tree) \subseteq Range(task.tree)
      BY <1>2, <1>3, <3>2 DEF TasksApart
    <3>3. CASE t \in Range(tasks)
      BY <1>3, <3>3 DEF TasksApart
    <3> QED
      BY <1>2, <3>1, <3>2, <3>3
  <2> QED
    BY <2>1 DEF TasksApart
<1> QED
  BY <1>14, <1>15

LEMMA RelLoadHolds ==
  ASSUME RelationsConstantsOK, RelInv, LoadRelation
  PROVE  RelInv'
<1> DEFINE task == Last(tasks)
           rel == Head(task.tree).rel
           ids == IdsAsked(rel, task.on)
           k == Len(objects)
           c == Cardinality(ids)
<1>1. RelTypes
  BY DEF RelInv
<1>2. LoadShape(task, rel, ids, k, c)
  BY <1>1, LoadShapes
<1>3. TasksRight(task, KeptBy(rel, ids, task.on), k, c)
  BY <1>1, <1>2, LoadTasks
<1>4. LoadRight(task, rel, ids)
  BY LoadUnfolds
<1>5. rel = Head(task.tree).rel /\ k = Len(objects)
  OBVIOUS
<1> HIDE DEF task, rel, ids, k, c
<1>6. /\ people' = people /\ writes' = writes /\ asked' = asked /\ progress = "running"
      /\ loads' = loads \cup {QueryOf(rel, task.on)}
  BY <1>4 DEF LoadRight, QueryOf
<1>7. LoadsHold'
  BY <1>2, <1>6, RelLoadQueries
<1>8. ObjectsFit(objects') /\ RowsBelong'
  BY <1>2, RelLoadObjects
<1>9. AllHandled' /\ TasksApart'
  BY <1>2, <1>3, <1>5, <1>6, RelLoadHandled
<1>10. /\ k \in Nat /\ c \in Nat /\ Len(objects') = k + c /\ DOMAIN objects = 1 .. k /\ DOMAIN objects' = 1 .. (k + c)
       /\ \A o \in 1 .. k : objects'[o].id = objects[o].id /\ objects'[o].parent = objects[o].parent
       /\ \A o \in (k + 1) .. (k + c) : objects'[o].id \in DOMAIN people /\ objects'[o].parent = people[objects'[o].id]
  BY <1>2 DEF LoadShape
<1>11. RelTypes'
  <2>1. tasks' \in Seq(TaskOf(k + c)) /\ progress' = IF tasks' = << >> THEN "done" ELSE "running"
    BY <1>3 DEF TasksRight
  <2>2. TasksFit(objects', tasks')
    BY <1>10, <2>1 DEF TasksFit
  <2>3. progress' \in {"running", "done"} /\ (progress' = "running" <=> tasks' # << >>)
    BY <2>1
  <2>4. asked' \in [on : Seq(1 .. Len(objects')), tree : Seq(Nodes)]
    <3>1. asked \in [on : Seq(1 .. k), tree : Seq(Nodes)]
      BY <1>1, <1>5 DEF RelTypes
    <3>2. 1 .. k \subseteq 1 .. (k + c)
      BY <1>10
    <3>3. Seq(1 .. k) \subseteq Seq(1 .. (k + c))
      BY ONLY <3>2, SeqMonotonic
    <3> QED
      BY <1>6, <1>10, <3>1, <3>3
  <2>5. \A i, j \in DOMAIN asked'.tree : asked'.tree[i].rel = asked'.tree[j].rel => i = j
    BY <1>1, <1>6 DEF RelTypes
  <2> QED
    BY <1>1, <1>6, <1>8, <2>2, <2>3, <2>4, <2>5 DEF RelTypes
<1>12. ObjectsCurrent'
  <2>1. ASSUME writes = 0, NEW o \in 1 .. (k + c)
        PROVE  objects'[o].id \in DOMAIN people /\ objects'[o].parent = people[objects'[o].id]
    <3>1. CASE o \in 1 .. k
      BY <1>10, <2>1, <3>1 DEF RelInv, ObjectsCurrent
    <3>2. CASE o \in (k + 1) .. (k + c)
      BY <1>10, <3>2
    <3> QED
      BY <1>10, <3>1, <3>2
  <2> QED
    BY <1>6, <1>10, <2>1 DEF ObjectsCurrent
<1> QED
  BY <1>7, <1>8, <1>9, <1>11, <1>12 DEF RelInv

LEMMA RelStepHolds ==
  ASSUME RelationsConstantsOK, RelInv, [RelationsNext]_relationsVars
  PROVE  RelInv'
<1>1. CASE WritePeople
  BY <1>1, RelWriteHolds
<1>2. CASE SkipRelation
  BY <1>2, RelSkipHolds
<1>3. CASE LoadRelation
  BY <1>3, RelLoadHolds
<1>4. ASSUME NEW where \in SUBSET DOMAIN people, FindMany(where) PROVE RelInv'
  BY <1>4, RelFindHolds
<1>5. CASE UNCHANGED relationsVars
  <2>1. /\ people' = people /\ writes' = writes /\ objects' = objects /\ tasks' = tasks
        /\ progress' = progress /\ asked' = asked /\ loads' = loads
    BY <1>5 DEF relationsVars
  <2>2. RelTypes'
    BY <2>1 DEF RelInv, RelTypes
  <2>3. LoadsHold'
    <3>1. LoadsHold
      BY DEF RelInv
    <3> QED
      BY <2>1, <3>1 DEF LoadsHold, FitsQuery, Related, KeyOf
  <2>4. RowsBelong' /\ ObjectsCurrent' /\ TasksApart'
    BY <2>1 DEF RelInv, RowsBelong, ObjectsCurrent, TasksApart
  <2>5. AllHandled'
    <3>1. AllHandled
      BY DEF RelInv
    <3>2. AllTasks' = AllTasks
      BY <2>1 DEF AllTasks, Under
    <3>3. \A on, node : (HasLoaded(on, node) <=> HasLoaded(on, node)') /\ (Pending(on, node) <=> Pending(on, node)')
      BY <2>1 DEF HasLoaded, Pending, Lacks, KeyOf
    <3> QED
      BY <3>1, <3>2, <3>3 DEF AllHandled
  <2> QED
    BY <2>2, <2>3, <2>4, <2>5 DEF RelInv
<1> QED
  BY <1>1, <1>2, <1>3, <1>4, <1>5 DEF RelationsNext

LEMMA RelInvShows ==
  ASSUME RelationsConstantsOK, RelInv
  PROVE  RelationsTypeOK /\ RelationsComplete
<1>0. /\ RelTypes /\ LoadsHold /\ RowsBelong /\ ObjectsCurrent /\ AllHandled
  BY DEF RelInv
<1> DEFINE n == Len(objects)
<1>1. objects \in Seq(ObjectsOf(n))
  BY <1>0 DEF RelTypes, ObjectsFit
<1>2. n \in Nat /\ DOMAIN objects = 1 .. n
  BY <1>1
<1> HIDE DEF n
<1>3. ASSUME NEW o \in DOMAIN objects
      PROVE  objects[o].id \in Ids /\ objects[o].parent \in Keys0 /\ objects[o].loaded \in SUBSET LoadsOf(n)
  <2>1. objects[o] \in ObjectsOf(n)
    BY <1>1, <1>2
  <2> QED
    BY <2>1 DEF ObjectsOf
<1>4. ASSUME NEW o \in DOMAIN objects, NEW l \in objects[o].loaded
      PROVE  l.rel \in Names /\ Range(l.rows) \subseteq DOMAIN objects
  <2>1. l \in LoadsOf(n)
    BY <1>3
  <2>2. l.rel \in Names /\ l.rows \in Seq(1 .. n)
    BY <2>1 DEF LoadsOf
  <2> QED
    BY <1>2, <2>2, RangeOfSeq
<1>5. RelationsTypeOK
  BY <1>0, <1>3, <1>4 DEF RelationsTypeOK, RelTypes, Keys0
<1>6. \A query \in loads : \A o \in query.on : \E l \in objects[o].loaded :
        LET mine == {objects[r].id : r \in Range(l.rows)}
            all  == IF Truthy(KeyOf(query.rel, objects[o]))
                      THEN Related(query.table, query.rel, objects[o]) ELSE {}
        IN  /\ l.rel = query.rel /\ mine \subseteq all
            /\ IF query.rel = "children" THEN mine = all ELSE all # {} => mine # {}
            /\ \A r \in Range(l.rows) : objects[r].parent = query.table[objects[r].id]
  BY <1>0 DEF LoadsHold, FitsQuery
<1>7. ASSUME progress = "done", NEW task \in AllTasks, NEW node \in Range(task.tree), NEW o \in Range(task.on),
             Lacks(o, node.rel)
      PROVE  \A p \in Range(task.on) : ~Truthy(KeyOf(node.rel, objects[p]))
  <2>1. tasks = << >>
    BY <1>0, <1>7 DEF RelTypes
  <2>2. ~Pending(task.on, node)
    BY <2>1, EmptyRange DEF Pending
  <2>3. HasLoaded(task.on, node)
    BY <1>0, <1>7, <2>2 DEF AllHandled
  <2> QED
    BY <1>7, <2>3 DEF HasLoaded
<1>8. ASSUME writes = 0, NEW o \in DOMAIN objects, NEW ch \in Under(o, "children"), NEW up \in Under(ch, "parent")
      PROVE  objects[up].id = objects[o].id /\ objects[up].parent = objects[o].parent
  <2>1. PICK l \in objects[o].loaded : l.rel = "children" /\ ch \in Range(l.rows)
    BY <1>8 DEF Under
  <2>2. ch \in DOMAIN objects /\ objects[ch].parent = objects[o].id
    <3>1. ch \in DOMAIN objects
      BY <1>4, <2>1
    <3>2. IF l.rel = "parent" THEN objects[ch].id = objects[o].parent ELSE objects[ch].parent = objects[o].id
      BY <1>0, <2>1 DEF RowsBelong
    <3> QED
      BY <2>1, <3>1, <3>2
  <2>3. PICK m \in objects[ch].loaded : m.rel = "parent" /\ up \in Range(m.rows)
    BY <1>8 DEF Under
  <2>4. up \in DOMAIN objects /\ objects[up].id = objects[ch].parent
    <3>1. up \in DOMAIN objects
      BY <1>4, <2>2, <2>3
    <3>2. IF m.rel = "parent" THEN objects[up].id = objects[ch].parent ELSE objects[up].parent = objects[ch].id
      BY <1>0, <2>2, <2>3 DEF RowsBelong
    <3> QED
      BY <2>3, <3>1, <3>2
  <2>5. objects[up].parent = people[objects[up].id] /\ objects[o].parent = people[objects[o].id]
    BY <1>0, <1>8, <2>4 DEF ObjectsCurrent
  <2> QED
    BY <2>2, <2>4, <2>5
<1>9. RelationsComplete
  BY <1>6, <1>7, <1>8 DEF RelationsComplete
<1> QED
  BY <1>5, <1>9

LEMMA RelationsInvariant == RelationsSpec => []RelInv
<1>1. RelationsInit => RelInv
  BY RelationsConstantsOK, RelInitHolds
<1>2. RelInv /\ [RelationsNext]_relationsVars => RelInv'
  BY RelationsConstantsOK, RelStepHolds
<1> QED
  BY <1>1, <1>2, PTL DEF RelationsSpec

(* Whatever the table, the relations and the writes between the queries:   *)
(* the objects findMany makes and what it attaches to them are of their    *)
(* types, and it runs exactly as long as relations are left to load.       *)
THEOREM RelationsTypeCorrect == RelationsSpec => []RelationsTypeOK
<1>1. RelInv => RelationsTypeOK
  BY RelationsConstantsOK, RelInvShows
<1> QED
  BY <1>1, RelationsInvariant, PTL

(* findMany attaches to each row those rows that belonged to it when the   *)
(* query of the relation ran, leaves a relation out only where no row has  *)
(* a key, at both levels of what was asked for, and agrees with itself up  *)
(* and down as long as nobody writes: for any table, tree and writes.      *)
THEOREM RelationsAreComplete == RelationsSpec => []RelationsComplete
<1>1. RelInv => RelationsComplete
  BY RelationsConstantsOK, RelInvShows
<1> QED
  BY <1>1, RelationsInvariant, PTL
=============================================================================
