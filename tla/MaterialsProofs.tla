-------------------------- MODULE MaterialsProofs ---------------------------
(***************************************************************************)
(* Proofs about the digest of a task's materials.                          *)
(*                                                                         *)
(* The recursive functions of Materials are read step by step (Recursion): *)
(* a value is chosen that satisfies an equation, and there is one only.    *)
(* What each computes of a sequence then follows from the first elements   *)
(* to the last (OneByOne), because a set of numbers has a least one.       *)
(***************************************************************************)
EXTENDS Materials, SequenceTheorems, FiniteSetTheorems, WellFoundedInduction, TLAPS

(* A set of numbers has a least one. *)
LEMMA LeastNumber ==
  ASSUME NEW T \in SUBSET Nat, T # {}
  PROVE  \E m \in T : \A k \in T : m <= k
<1>1. PICK m \in T : \A k \in T : ~(<<k, m>> \in OpToRel(<, Nat))
  BY WFMin, NatLessThanWellFounded
<1>2. ASSUME NEW k \in T, k < m PROVE FALSE
  <2>1. <<k, m>> \in OpToRel(<, Nat)
    BY <1>2 DEF OpToRel
  <2> QED
    BY <1>1, <2>1
<1> QED
  BY <1>2

(* What holds first and goes on to hold from each to the next holds of all.*)
LEMMA OneByOne ==
  ASSUME NEW a \in Nat, NEW n \in Nat, NEW T, a \in T,
         \A i \in a..(n - 1) : i \in T => i + 1 \in T
  PROVE  a..n \subseteq T
<1> SUFFICES ASSUME (a..n) \ T # {} PROVE FALSE
  OBVIOUS
<1>1. PICK m \in (a..n) \ T : \A k \in (a..n) \ T : m <= k
  <2>1. (a..n) \ T \in SUBSET Nat
    OBVIOUS
  <2> QED
    BY <2>1, LeastNumber
<1>2. m # a /\ m - 1 \in a..(n - 1) /\ m - 1 \notin (a..n) \ T
  BY <1>1
<1> QED
  BY <1>1, <1>2

(* A function that is defined from its value one before: there is one, and *)
(* no other.                                                               *)
Follows(f, a, n, base, step) ==
  f[a] = base /\ \A m \in (a + 1)..n : f[m] = step[<<f[m - 1], m>>]

OnAll(f, a, n) == f = [m \in a..n |-> f[m]]
Steps(f, a, n, base, S, step) ==
  /\ OnAll(f, a, n) /\ f[a] = base
  /\ \A m \in (a + 1)..n : f[m - 1] \in S => f[m] = step[<<f[m - 1], m>>]

(* A step from each value to the next one gives all of them. *)
LEMMA RecursionExists ==
  ASSUME NEW a \in Nat, NEW n \in Nat, a <= n, NEW S, NEW base \in S,
         NEW step \in [S \X (a..n) -> S]
  PROVE  \E f \in [a..n -> S] : Follows(f, a, n, base, step)
<1> DEFINE T == {m \in a..n : \E f \in [a..m -> S] : Follows(f, a, m, base, step)}
<1>1. a \in T
  <2>1. [i \in a..a |-> base] \in [a..a -> S] /\ Follows([i \in a..a |-> base], a, a, base, step)
    BY DEF Follows
  <2>2. \E f \in [a..a -> S] : Follows(f, a, a, base, step)
    BY <2>1
  <2>3. a \in a..n
    OBVIOUS
  <2> QED
    BY <2>2, <2>3
<1>2. \A m \in a..(n - 1) : m \in T => m + 1 \in T
  <2> SUFFICES ASSUME NEW m \in a..(n - 1), NEW f \in [a..m -> S], Follows(f, a, m, base, step)
               PROVE  m + 1 \in T
    OBVIOUS
  <2> DEFINE g == [i \in a..(m + 1) |-> IF i <= m THEN f[i] ELSE step[<<f[m], m + 1>>]]
  <2>1. f[m] \in S /\ m + 1 \in a..n /\ step[<<f[m], m + 1>>] \in S
    OBVIOUS
  <2>2. g \in [a..(m + 1) -> S] /\ g[a] = base
    BY <2>1 DEF Follows
  <2>3. ASSUME NEW i \in (a + 1)..(m + 1) PROVE g[i] = step[<<g[i - 1], i>>]
    <3>1. CASE i <= m
      BY <3>1 DEF Follows
    <3>2. CASE i = m + 1
      BY <3>2
    <3> QED
      BY <3>1, <3>2
  <2> QED
    BY <2>1, <2>2, <2>3 DEF Follows
<1> HIDE DEF T
<1>3. a..n \subseteq T
  BY <1>1, <1>2, OneByOne
<1> QED
  BY <1>3 DEF T

(* It is the only function that takes these steps, whatever it is outside. *)
LEMMA Recursion ==
  ASSUME NEW a \in Nat, NEW n \in Nat, a <= n, NEW S, NEW base \in S,
         NEW step \in [S \X (a..n) -> S]
  PROVE  \E f \in [a..n -> S] : /\ Follows(f, a, n, base, step)
                                /\ \A g : Steps(g, a, n, base, S, step) => g = f
<1>1. PICK f \in [a..n -> S] : Follows(f, a, n, base, step)
  BY RecursionExists
<1>2. ASSUME NEW g, Steps(g, a, n, base, S, step) PROVE g = f
  <2> DEFINE T == {m \in a..n : g[m] = f[m]}
  <2>1. a \in T
    BY <1>1, <1>2 DEF Steps, Follows
  <2>2. \A m \in a..(n - 1) : m \in T => m + 1 \in T
    <3> SUFFICES ASSUME NEW m \in a..(n - 1), g[m] = f[m]
                 PROVE  m + 1 \in a..n /\ g[m + 1] = f[m + 1]
      OBVIOUS
    <3>1. m + 1 \in (a + 1)..n /\ (m + 1) - 1 = m /\ m + 1 \in a..n /\ f[m] \in S
      OBVIOUS
    <3> QED
      BY <1>1, <1>2, <3>1 DEF Steps, Follows
  <2> HIDE DEF T
  <2>3. a..n \subseteq T
    BY <2>1, <2>2, OneByOne
  <2>4. \A m \in a..n : g[m] = f[m]
    BY <2>3 DEF T
  <2> QED
    BY <1>2, <2>4 DEF Steps, OnAll
<1> QED
  BY <1>1, <1>2

-----------------------------------------------------------------------------
(* Line ends. *)

(* What LineFeeds and CarriageReturns append for the n-th byte. *)
Fed(text, data, n) ==
  IF data[n] = CR /\ n < Len(data) /\ data[n + 1] = LF THEN text ELSE Append(text, data[n])
Returned(data, n) == IF data[n] = LF THEN <<CR, LF>> ELSE <<data[n]>>

(* LineFeeds reads its text byte by byte. *)
LEMMA LineFeedsReads ==
  ASSUME NEW data \in Seq(Nat)
  PROVE  \E f \in [0..Len(data) -> Seq(Nat)] :
           /\ f[0] = <<>> /\ \A m \in 1..Len(data) : f[m] = Fed(f[m - 1], data, m)
           /\ LineFeeds(data) = f[Len(data)]
<1> DEFINE Equation(f) == f = [m \in 0..Len(data) |->
             IF m = 0 THEN <<>>
             ELSE IF data[m] = CR /\ m < Len(data) /\ data[m + 1] = LF THEN f[m - 1]
             ELSE Append(f[m - 1], data[m])]
<1>0. Len(data) \in Nat /\ (\A m \in 1..Len(data) : data[m] \in Nat) /\ <<>> \in Seq(Nat)
  OBVIOUS
<1>1. PICK n \in Nat : n = Len(data) /\ 0 <= n /\ \A m \in 1..n : data[m] \in Nat
  BY <1>0
<1>2. PICK S, base : S = Seq(Nat) /\ base = <<>> /\ base \in S
  BY <1>0
<1>3. \A x \in S, m \in 1..n : Fed(x, data, m) \in S
  BY <1>1, <1>2 DEF Fed
<1>4. PICK step : step = [x \in S \X (0..n) |-> IF x[2] = 0 THEN base ELSE Fed(x[1], data, x[2])]
  OBVIOUS
<1>5. \A x \in S, m \in 1..n : step[<<x, m>>] = Fed(x, data, m)
  <2>1. \A x \in S, m \in 1..n : <<x, m>> \in S \X (0..n) /\ m # 0
    BY <1>1
  <2> QED
    BY <1>4, <2>1
<1>6. step \in [S \X (0..n) -> S]
  <2>1. \A x \in S \X (0..n) : x[1] \in S /\ (x[2] = 0 \/ x[2] \in 1..n)
    BY <1>1
  <2> QED
    BY <1>2, <1>3, <1>4, <2>1
<1>7. PICK f \in [0..n -> S] : /\ Follows(f, 0, n, base, step)
                              /\ \A g : Steps(g, 0, n, base, S, step) => g = f
  <2>1. 0 \in Nat /\ 0 <= n
    BY <1>1
  <2> QED
    BY <1>1, <1>2, <1>6, <2>1, Recursion
<1>8. f[0] = <<>> /\ \A m \in 1..n : f[m] = Fed(f[m - 1], data, m)
  <2>1. \A m \in 1..n : f[m - 1] \in S
    <3>1. \A m \in 1..n : m - 1 \in 0..n
      BY <1>1
    <3> QED
      BY <3>1
  <2>2. \A m \in 1..n : f[m] = step[<<f[m - 1], m>>]
    BY <1>7 DEF Follows
  <2> QED
    BY <1>2, <1>5, <1>7, <2>1, <2>2 DEF Follows
<1>9. \A h : Equation(h) <=>
        h = [m \in 0..n |-> IF m = 0 THEN <<>> ELSE Fed(h[m - 1], data, m)]
  BY <1>1 DEF Fed
<1>10. Equation(f)
  <2>1. \A m \in 0..n : m = 0 \/ m \in 1..n
    BY <1>1
  <2>2. f = [m \in 0..n |-> IF m = 0 THEN <<>> ELSE Fed(f[m - 1], data, m)]
    BY <1>7, <1>8, <2>1
  <2> QED
    BY <1>9, <2>2
<1> HIDE DEF Equation
<1>11. PICK g : g = (CHOOSE h : Equation(h))
  OBVIOUS
<1>12. g = [m \in 0..n |-> IF m = 0 THEN <<>> ELSE Fed(g[m - 1], data, m)]
  BY <1>9, <1>10, <1>11
<1>13. Steps(g, 0, n, base, S, step)
  <2>1. 0 \in 0..n /\ \A m \in 1..n : m # 0 /\ m \in 0..n
    BY <1>1
  <2>2. OnAll(g, 0, n) /\ g[0] = base
    BY <1>2, <1>12, <2>1 DEF OnAll
  <2>3. \A m \in 1..n : g[m] = Fed(g[m - 1], data, m)
    BY <1>12, <2>1
  <2>4. \A m \in 1..n : g[m - 1] \in S => g[m] = step[<<g[m - 1], m>>]
    BY <1>5, <2>3
  <2> QED
    BY <2>2, <2>4 DEF Steps
<1>14. LineFeeds(data) = f[n]
  BY <1>1, <1>7, <1>11, <1>13 DEF LineFeeds, Equation
<1> QED
  BY <1>1, <1>2, <1>7, <1>8, <1>14

(* So does CarriageReturns. *)
LEMMA CarriageReturnsReads ==
  ASSUME NEW data \in Seq(Nat), CR \notin ToSet(data)
  PROVE  \E f \in [0..Len(data) -> Seq(Nat)] :
           /\ f[0] = <<>> /\ \A m \in 1..Len(data) : f[m] = f[m - 1] \o Returned(data, m)
           /\ CarriageReturns(data) = f[Len(data)]
<1> DEFINE Equation(f) == f = [m \in 0..Len(data) |->
             IF m = 0 THEN <<>>
             ELSE f[m - 1] \o (IF data[m] = LF THEN <<CR, LF>> ELSE <<data[m]>>)]
<1>0. Len(data) \in Nat /\ (\A m \in 1..Len(data) : data[m] \in Nat) /\ <<>> \in Seq(Nat)
  OBVIOUS
<1>1. PICK n \in Nat : n = Len(data) /\ 0 <= n /\ \A m \in 1..n : data[m] \in Nat
  BY <1>0
<1>2. PICK S, base : S = Seq(Nat) /\ base = <<>> /\ base \in S
  BY <1>0
<1>3. \A x \in S, m \in 1..n : x \o Returned(data, m) \in S
  <2>1. \A m \in 1..n : Returned(data, m) \in Seq(Nat)
    BY <1>1 DEF Returned, CR, LF
  <2> QED
    BY <1>2, <2>1
<1>4. PICK step : step = [x \in S \X (0..n) |-> IF x[2] = 0 THEN base ELSE x[1] \o Returned(data, x[2])]
  OBVIOUS
<1>5. \A x \in S, m \in 1..n : step[<<x, m>>] = x \o Returned(data, m)
  <2>1. \A x \in S, m \in 1..n : <<x, m>> \in S \X (0..n) /\ m # 0
    BY <1>1
  <2> QED
    BY <1>4, <2>1
<1>6. step \in [S \X (0..n) -> S]
  <2>1. \A x \in S \X (0..n) : x[1] \in S /\ (x[2] = 0 \/ x[2] \in 1..n)
    BY <1>1
  <2> QED
    BY <1>2, <1>3, <1>4, <2>1
<1>7. PICK f \in [0..n -> S] : /\ Follows(f, 0, n, base, step)
                              /\ \A g : Steps(g, 0, n, base, S, step) => g = f
  <2>1. 0 \in Nat /\ 0 <= n
    BY <1>1
  <2> QED
    BY <1>1, <1>2, <1>6, <2>1, Recursion
<1>8. f[0] = <<>> /\ \A m \in 1..n : f[m] = f[m - 1] \o Returned(data, m)
  <2>1. \A m \in 1..n : f[m - 1] \in S
    <3>1. \A m \in 1..n : m - 1 \in 0..n
      BY <1>1
    <3> QED
      BY <3>1
  <2>2. \A m \in 1..n : f[m] = step[<<f[m - 1], m>>]
    BY <1>7 DEF Follows
  <2> QED
    BY <1>2, <1>5, <1>7, <2>1, <2>2 DEF Follows
<1>9. \A h : Equation(h) <=>
        h = [m \in 0..n |-> IF m = 0 THEN <<>> ELSE h[m - 1] \o Returned(data, m)]
  BY <1>1 DEF Returned
<1>10. Equation(f)
  <2>1. \A m \in 0..n : m = 0 \/ m \in 1..n
    BY <1>1
  <2>2. f = [m \in 0..n |-> IF m = 0 THEN <<>> ELSE f[m - 1] \o Returned(data, m)]
    BY <1>7, <1>8, <2>1
  <2> QED
    BY <1>9, <2>2
<1> HIDE DEF Equation
<1>11. PICK g : g = (CHOOSE h : Equation(h))
  OBVIOUS
<1>12. g = [m \in 0..n |-> IF m = 0 THEN <<>> ELSE g[m - 1] \o Returned(data, m)]
  BY <1>9, <1>10, <1>11
<1>13. Steps(g, 0, n, base, S, step)
  <2>1. 0 \in 0..n /\ \A m \in 1..n : m # 0 /\ m \in 0..n
    BY <1>1
  <2>2. OnAll(g, 0, n) /\ g[0] = base
    BY <1>2, <1>12, <2>1 DEF OnAll
  <2>3. \A m \in 1..n : g[m] = g[m - 1] \o Returned(data, m)
    BY <1>12, <2>1
  <2>4. \A m \in 1..n : g[m - 1] \in S => g[m] = step[<<g[m - 1], m>>]
    BY <1>5, <2>3
  <2> QED
    BY <2>2, <2>4 DEF Steps
<1>14. CarriageReturns(data) = f[n]
  BY <1>1, <1>7, <1>11, <1>13 DEF CarriageReturns, Equation
<1> QED
  BY <1>1, <1>2, <1>7, <1>8, <1>14

(* What is appended to leaves what was there.                              *)
Begins(s, t) == Len(s) <= Len(t) /\ \A i \in 1..Len(s) : t[i] = s[i]

(* The last of a growing sequence begins with each one before. *)
LEMMA Growing ==
  ASSUME NEW S, NEW a \in Nat, NEW n \in Nat, NEW f \in [a..n -> Seq(S)],
         \A m \in (a + 1)..n : \E x \in Seq(S) : f[m] = f[m - 1] \o x
  PROVE  \A k \in a..n : Begins(f[k], f[n])
<1> SUFFICES ASSUME NEW k \in a..n PROVE Begins(f[k], f[n])
  OBVIOUS
<1>1. PICK s \in Seq(S) : s = f[k]
  OBVIOUS
<1> DEFINE T == {m \in k..n : Begins(s, f[m])}
<1>2. k \in T
  BY <1>1 DEF Begins
<1>3. \A m \in k..(n - 1) : m \in T => m + 1 \in T
  <2> SUFFICES ASSUME NEW m \in k..(n - 1), Begins(s, f[m])
               PROVE  m + 1 \in k..n /\ Begins(s, f[m + 1])
    OBVIOUS
  <2>1. m + 1 \in (a + 1)..n /\ (m + 1) - 1 = m /\ m \in a..n /\ m + 1 \in k..n
    OBVIOUS
  <2>2. PICK t \in Seq(S), x \in Seq(S) : t = f[m] /\ f[m + 1] = t \o x
    BY <2>1
  <2>3. Len(s) <= Len(t) /\ \A i \in 1..Len(s) : i \in 1..Len(t) /\ t[i] = s[i]
    BY <2>2 DEF Begins
  <2>4. PICK u \in Seq(S) : u = t \o x
    <3>1. t \o x \in Seq(S)
      OBVIOUS
    <3> QED
      BY <3>1
  <2>5. Len(t) <= Len(u) /\ (\A i \in 1..Len(t) : u[i] = t[i])
    BY <2>4
  <2>6. Len(s) \in Nat /\ Len(t) \in Nat /\ Len(u) \in Nat
    OBVIOUS
  <2>7. Begins(s, u)
    BY <2>3, <2>5, <2>6 DEF Begins
  <2> QED
    BY <2>1, <2>2, <2>4, <2>7
<1> HIDE DEF T
<1>4. k \in Nat /\ n \in k..n
  OBVIOUS
<1>5. k..n \subseteq T
  BY <1>2, <1>3, <1>4, OneByOne
<1> QED
  BY <1>1, <1>4, <1>5 DEF T

(* A text without CR is what LineFeeds makes of it, with either line ending*)
LEMMA LineFeedsUndo ==
  ASSUME NEW data \in Seq(Nat), CR \notin ToSet(data)
  PROVE  /\ CarriageReturns(data) \in Seq(Nat) /\ LineFeeds(CarriageReturns(data)) = data
         /\ LineFeeds(data) = data
<1>1. PICK n \in Nat : n = Len(data)
  OBVIOUS
<1>2. \A m \in 1..n : data[m] \in Nat /\ data[m] # CR
  BY <1>1 DEF ToSet
<1>3. \A k \in 0..(n - 1) : SubSeq(data, 1, k + 1) = Append(SubSeq(data, 1, k), data[k + 1])
  BY <1>1
<1>4. SubSeq(data, 1, n) = data /\ SubSeq(data, 1, 0) = <<>>
  BY <1>1
<1>5. LineFeeds(data) = data
  <2>1. PICK f \in [0..n -> Seq(Nat)] :
          /\ f[0] = <<>> /\ \A m \in 1..n : f[m] = Fed(f[m - 1], data, m)
          /\ LineFeeds(data) = f[n]
    BY <1>1, LineFeedsReads
  <2> DEFINE T == {k \in 0..n : f[k] = SubSeq(data, 1, k)}
  <2>2. 0 \in T
    BY <1>4, <2>1
  <2>3. \A k \in 0..(n - 1) : k \in T => k + 1 \in T
    <3> SUFFICES ASSUME NEW k \in 0..(n - 1), f[k] = SubSeq(data, 1, k)
                 PROVE  k + 1 \in 0..n /\ f[k + 1] = SubSeq(data, 1, k + 1)
      OBVIOUS
    <3>1. k + 1 \in 1..n /\ (k + 1) - 1 = k
      OBVIOUS
    <3>2. f[k + 1] = Fed(f[k], data, k + 1) /\ data[k + 1] # CR
      BY <1>2, <2>1, <3>1
    <3>3. f[k + 1] = Append(f[k], data[k + 1])
      BY <3>2 DEF Fed
    <3>4. SubSeq(data, 1, k + 1) = Append(SubSeq(data, 1, k), data[k + 1])
      BY <1>3
    <3>5. k + 1 \in 0..n
      BY <3>1
    <3> QED
      BY <3>3, <3>4, <3>5
  <2> HIDE DEF T
  <2>4. 0..n \subseteq T
    BY <2>2, <2>3, OneByOne
  <2> QED
    BY <1>4, <2>1, <2>4 DEF T
<1>6. PICK t \in [0..n -> Seq(Nat)] :
        /\ t[0] = <<>> /\ \A m \in 1..n : t[m] = t[m - 1] \o Returned(data, m)
        /\ CarriageReturns(data) = t[n]
  BY <1>1, CarriageReturnsReads
<1>7. \A m \in 1..n : Returned(data, m) \in Seq(Nat)
  BY <1>2 DEF Returned, CR, LF
<1>8. \A k \in 0..n : Begins(t[k], t[n])
  <2>1. \A m \in 1..n : \E x \in Seq(Nat) : t[m] = t[m - 1] \o x
    BY <1>6, <1>7
  <2>2. 0 \in Nat /\ (0 + 1)..n = 1..n
    OBVIOUS
  <2> QED
    BY <2>1, <2>2, Growing
<1>9. PICK c \in Seq(Nat) : c = t[n]
  BY <1>6
<1>10. PICK f \in [0..Len(c) -> Seq(Nat)] :
         /\ f[0] = <<>> /\ \A m \in 1..Len(c) : f[m] = Fed(f[m - 1], c, m)
         /\ LineFeeds(c) = f[Len(c)]
  BY LineFeedsReads
<1>11. LineFeeds(c) = data
  <2> DEFINE T == {k \in 0..n : f[Len(t[k])] = SubSeq(data, 1, k)}
  <2>1. 0 \in T
    BY <1>4, <1>6, <1>10
  <2>2. \A k \in 0..(n - 1) : k \in T => k + 1 \in T
    <3> SUFFICES ASSUME NEW k \in 0..(n - 1), f[Len(t[k])] = SubSeq(data, 1, k)
                 PROVE  k + 1 \in 0..n /\ f[Len(t[k + 1])] = SubSeq(data, 1, k + 1)
      OBVIOUS
    <3>1. k + 1 \in 1..n /\ (k + 1) - 1 = k /\ k \in 0..n /\ k + 1 \in 0..n
      OBVIOUS
    <3>2. PICK s \in Seq(Nat) : s = t[k]
      BY <1>6, <3>1
    <3>3. PICK x \in Nat : x = data[k + 1] /\ x # CR
      BY <1>2, <3>1
    <3>4. PICK L \in Nat : L = Len(s) /\ f[L] = SubSeq(data, 1, k)
      <4>1. Len(s) \in Nat /\ f[Len(s)] = SubSeq(data, 1, k)
        BY <3>2
      <4> QED
        BY <4>1
    <3>5. PICK u \in Seq(Nat) : u = t[k + 1] /\ u = s \o Returned(data, k + 1) /\ Begins(u, c)
      BY <1>6, <1>8, <1>9, <3>1, <3>2
    <3>6. PICK N \in Nat : N = Len(c)
      OBVIOUS
    <3>7. CASE x = LF
      <4>1. u = s \o <<CR, LF>> /\ CR # LF
        BY <3>3, <3>5, <3>7 DEF Returned, CR, LF
      <4>2. Len(u) = L + 2 /\ u[L + 1] = CR /\ u[L + 2] = LF
        BY <3>4, <4>1 DEF CR, LF
      <4>3. L + 1 \in 1..Len(u) /\ L + 2 \in 1..Len(u)
        BY <4>2
      <4>4. L + 2 <= N /\ c[L + 1] = CR /\ c[L + 2] = LF
        BY <3>5, <3>6, <4>2, <4>3 DEF Begins
      <4>5. /\ L + 1 \in 1..N /\ L + 2 \in 1..N /\ L + 1 < N
            /\ (L + 1) - 1 = L /\ (L + 2) - 1 = L + 1 /\ (L + 1) + 1 = L + 2
        BY <4>4
      <4>6. f[L + 1] = f[L]
        BY <1>10, <3>6, <4>4, <4>5 DEF Fed
      <4>7. f[L + 2] = Append(f[L + 1], LF)
        BY <1>10, <3>6, <4>1, <4>4, <4>5 DEF Fed
      <4> QED
        BY <1>3, <3>1, <3>3, <3>4, <3>5, <3>7, <4>2, <4>6, <4>7
    <3>8. CASE x # LF
      <4>1. u = s \o <<x>>
        BY <3>3, <3>5, <3>8 DEF Returned
      <4>2. Len(u) = L + 1 /\ u[L + 1] = x
        BY <3>4, <4>1
      <4>3. L + 1 \in 1..Len(u)
        BY <4>2
      <4>4. L + 1 <= N /\ c[L + 1] = x
        BY <3>5, <3>6, <4>2, <4>3 DEF Begins
      <4>5. L + 1 \in 1..N /\ (L + 1) - 1 = L
        BY <4>4
      <4>6. f[L + 1] = Append(f[L], x)
        BY <1>10, <3>3, <3>6, <4>4, <4>5 DEF Fed
      <4> QED
        BY <1>3, <3>1, <3>3, <3>4, <3>5, <4>2, <4>6
    <3> QED
      BY <3>7, <3>8
  <2> HIDE DEF T
  <2>3. 0..n \subseteq T
    BY <2>1, <2>2, OneByOne
  <2> QED
    BY <1>4, <1>9, <1>10, <2>3 DEF T
<1> QED
  BY <1>5, <1>6, <1>9, <1>11

-----------------------------------------------------------------------------
(* The order of strings and of paths. *)

StrictOrder(lt, S) ==
  /\ \A x \in S : <<x, x>> \notin lt
  /\ \A x, y, z \in S : <<x, y>> \in lt /\ <<y, z>> \in lt => <<x, z>> \in lt
  /\ \A x, y \in S : x = y \/ <<x, y>> \in lt \/ <<y, x>> \in lt

(* s comes before t as their elements do where they first differ, or as one*)
(* that t goes on from.                                                    *)
DiffersAt(lt, s, t, i) ==
  /\ i \in 1..Len(t) /\ i <= Len(s) + 1 /\ \A j \in 1..(i - 1) : s[j] = t[j]
  /\ i <= Len(s) => <<s[i], t[i]>> \in lt
Lex(lt, S) == {x \in Seq(S) \X Seq(S) : \E i \in Nat : DiffersAt(lt, x[1], x[2], i)}

(* A shared prefix has the same elements. *)
LEMMA SharePrefixMeans ==
  ASSUME NEW S, NEW s \in Seq(S), NEW t \in Seq(S), NEW i \in DOMAIN t
  PROVE  SharePrefix(s, t, i) <=> i <= Len(s) + 1 /\ \A j \in 1..(i - 1) : s[j] = t[j]
<1>1. CASE i <= Len(s) + 1
  <2>1. i - 1 \in 0..Len(s) /\ i - 1 \in 0..Len(t) /\ i \in Nat
    BY <1>1
  <2>2. PICK u \in Seq(S), v \in Seq(S) : u = SubSeq(s, 1, i - 1) /\ v = SubSeq(t, 1, i - 1)
    <3>1. SubSeq(s, 1, i - 1) \in Seq(S) /\ SubSeq(t, 1, i - 1) \in Seq(S)
      BY <2>1
    <3> QED
      BY <3>1
  <2>3. /\ Len(u) = i - 1 /\ \A j \in 1..(i - 1) : u[j] = s[j]
        /\ Len(v) = i - 1 /\ \A j \in 1..(i - 1) : v[j] = t[j]
    BY <2>1, <2>2
  <2>4. u = v <=> \A j \in 1..(i - 1) : s[j] = t[j]
    <3>1. (\A j \in 1..(i - 1) : u[j] = v[j]) => u = v
      BY <2>3, SeqEqual
    <3> QED
      BY <2>3, <3>1
  <2> QED
    BY <1>1, <2>2, <2>4 DEF SharePrefix
<1> QED
  BY <1>1 DEF SharePrefix

(* Sequences are ordered when their elements are. *)
LEMMA LexOrder ==
  ASSUME NEW S, NEW lt, StrictOrder(lt, S)
  PROVE  StrictOrder(Lex(lt, S), Seq(S))
<1>1. ASSUME NEW s \in Seq(S), NEW i \in Nat, DiffersAt(lt, s, s, i) PROVE FALSE
  <2>1. i \in 1..Len(s) /\ s[i] \in S /\ i <= Len(s) /\ <<s[i], s[i]>> \in lt
    BY <1>1 DEF DiffersAt
  <2> QED
    BY <2>1 DEF StrictOrder
<1>2. ASSUME NEW r \in Seq(S), NEW s \in Seq(S), NEW t \in Seq(S), NEW i \in Nat, NEW j \in Nat,
             DiffersAt(lt, r, s, i), DiffersAt(lt, s, t, j)
      PROVE  \E k \in Nat : DiffersAt(lt, r, t, k)
  <2>1. /\ i \in 1..Len(s) /\ i <= Len(r) + 1 /\ (\A k \in 1..(i - 1) : r[k] = s[k])
        /\ j \in 1..Len(t) /\ j <= Len(s) + 1 /\ (\A k \in 1..(j - 1) : s[k] = t[k])
        /\ (i <= Len(r) => <<r[i], s[i]>> \in lt) /\ (j <= Len(s) => <<s[j], t[j]>> \in lt)
    BY <1>2 DEF DiffersAt
  <2>2. Len(r) \in Nat /\ Len(s) \in Nat /\ Len(t) \in Nat
    OBVIOUS
  <2>3. CASE i < j
    <3>1. s[i] = t[i] /\ i \in 1..Len(t) /\ \A k \in 1..(i - 1) : r[k] = t[k]
      BY <2>1, <2>2, <2>3
    <3> QED
      BY <2>1, <3>1 DEF DiffersAt
  <2>4. CASE j < i
    <3>1. r[j] = s[j] /\ j <= Len(r) /\ \A k \in 1..(j - 1) : r[k] = t[k]
      BY <2>1, <2>2, <2>4
    <3>2. j <= Len(s) /\ j <= Len(r) + 1
      BY <2>1, <2>2, <2>4
    <3> QED
      BY <2>1, <3>1, <3>2 DEF DiffersAt
  <2>5. CASE i = j
    <3>1. (\A k \in 1..(i - 1) : r[k] = t[k]) /\ i \in 1..Len(t) /\ i <= Len(s)
      BY <2>1, <2>2, <2>5
    <3>2. s[i] \in S /\ t[i] \in S
      BY <2>1, <3>1
    <3>3. i <= Len(r) => <<r[i], t[i]>> \in lt
      <4> SUFFICES ASSUME i <= Len(r) PROVE <<r[i], t[i]>> \in lt
        OBVIOUS
      <4>1. i \in 1..Len(r)
        BY <2>1
      <4>2. r[i] \in S
        BY <4>1
      <4> QED
        BY <2>1, <2>5, <3>1, <3>2, <4>2 DEF StrictOrder
    <3> QED
      BY <2>1, <3>1, <3>3 DEF DiffersAt
  <2> QED
    BY <2>3, <2>4, <2>5
<1>3. ASSUME NEW s \in Seq(S), NEW t \in Seq(S), s # t
      PROVE  \E i \in Nat : DiffersAt(lt, s, t, i) \/ DiffersAt(lt, t, s, i)
  <2>1. Len(s) \in Nat /\ Len(t) \in Nat
    OBVIOUS
  <2> DEFINE Same(i) == i <= Len(s) /\ i <= Len(t) /\ s[i] = t[i]
             T == {i \in Nat \ {0} : ~Same(i)}
  <2>2. Len(s) + 1 \in T
    BY <2>1
  <2>3. PICK m \in T : \A k \in T : m <= k
    <3>1. T \in SUBSET Nat
      OBVIOUS
    <3> HIDE DEF T
    <3> QED
      BY <2>2, <3>1, LeastNumber
  <2>4. m \in Nat /\ m # 0 /\ \A k \in 1..(m - 1) : Same(k)
    <3>1. ASSUME NEW k \in 1..(m - 1) PROVE k \notin T
      <4>1. k < m /\ m \in Nat
        OBVIOUS
      <4> QED
        BY <2>3, <4>1
    <3> QED
      BY <3>1
  <2>5. m <= Len(s) + 1 /\ m <= Len(t) + 1
    <3>1. m = 1 \/ m - 1 \in 1..(m - 1)
      BY <2>4
    <3> QED
      BY <2>1, <2>4, <3>1
  <2>6. \A k \in 1..(m - 1) : s[k] = t[k] /\ t[k] = s[k]
    BY <2>4
  <2>7. CASE m > Len(s) /\ m > Len(t)
    <3>1. Len(s) = Len(t) /\ m - 1 = Len(s)
      BY <2>1, <2>4, <2>5, <2>7
    <3>2. s = t
      BY <2>6, <3>1, SeqEqual
    <3> QED
      BY <1>3, <3>2
  <2>8. CASE m > Len(s) /\ m <= Len(t)
    <3>1. DiffersAt(lt, s, t, m)
      BY <2>1, <2>4, <2>5, <2>6, <2>8 DEF DiffersAt
    <3> QED
      BY <2>4, <3>1
  <2>9. CASE m <= Len(s) /\ m > Len(t)
    <3>1. DiffersAt(lt, t, s, m)
      BY <2>1, <2>4, <2>5, <2>6, <2>9 DEF DiffersAt
    <3> QED
      BY <2>4, <3>1
  <2>10. CASE m <= Len(s) /\ m <= Len(t)
    <3>1. m \in 1..Len(s) /\ m \in 1..Len(t) /\ s[m] # t[m]
      BY <2>1, <2>4, <2>10
    <3>2. s[m] \in S /\ t[m] \in S
      BY <3>1
    <3>3. <<s[m], t[m]>> \in lt \/ <<t[m], s[m]>> \in lt
      BY <3>1, <3>2 DEF StrictOrder
    <3>4. DiffersAt(lt, s, t, m) \/ DiffersAt(lt, t, s, m)
      BY <2>5, <2>6, <3>1, <3>3 DEF DiffersAt
    <3> QED
      BY <2>4, <3>4
  <2> QED
    BY <2>1, <2>4, <2>7, <2>8, <2>9, <2>10
<1>4. \A s, t \in Seq(S) : <<s, t>> \in Lex(lt, S) <=> \E i \in Nat : DiffersAt(lt, s, t, i)
  BY DEF Lex
<1> QED
  BY <1>1, <1>2, <1>3, <1>4 DEF StrictOrder

(* The pairs in order: of numbers, of strings, of paths. *)
Numbers == {x \in Nat \X Nat : x[1] < x[2]}
Strings == {x \in Seq(Nat) \X Seq(Nat) : StringBefore(x[1], x[2])}
PathPairs == {x \in Seq(Seq(Nat)) \X Seq(Seq(Nat)) : PathBefore(x[1], x[2])}

(* The order of strings, as Go compares them, is a strict order. *)
LEMMA StringsOrdered == StrictOrder(Strings, Seq(Nat))
<1>1. StrictOrder(Numbers, Nat)
  BY DEF StrictOrder, Numbers
<1>2. ASSUME NEW s \in Seq(Nat), NEW t \in Seq(Nat)
      PROVE  StringBefore(s, t) <=> \E i \in Nat : DiffersAt(Numbers, s, t, i)
  <2>1. DOMAIN t = 1..Len(t) /\ DOMAIN t \subseteq Nat /\ Len(s) \in Nat
    OBVIOUS
  <2>2. \A i \in DOMAIN t : SharePrefix(s, t, i) <=> i <= Len(s) + 1 /\ \A j \in 1..(i - 1) : s[j] = t[j]
    BY SharePrefixMeans
  <2>3. \A i \in DOMAIN t : i <= Len(s) => s[i] \in Nat /\ t[i] \in Nat
    BY <2>1
  <2>4. \A i \in DOMAIN t : i <= Len(s) => (s[i] < t[i] <=> <<s[i], t[i]>> \in Numbers)
    BY <2>3 DEF Numbers
  <2>5. \A i \in DOMAIN t :
          (SharePrefix(s, t, i) /\ (i <= Len(s) => s[i] < t[i])) <=> DiffersAt(Numbers, s, t, i)
    BY <2>1, <2>2, <2>4 DEF DiffersAt
  <2>6. \A i : DiffersAt(Numbers, s, t, i) => i \in DOMAIN t
    BY <2>1 DEF DiffersAt
  <2> QED
    BY <2>1, <2>5, <2>6 DEF StringBefore
<1>3. Strings = Lex(Numbers, Nat)
  BY <1>2 DEF Strings, Lex
<1> QED
  BY <1>1, <1>3, LexOrder

(* So is the order that Walk visits paths in. *)
LEMMA PathsOrdered == StrictOrder(PathPairs, Seq(Seq(Nat)))
<1>1. PICK S : S = Seq(Nat)
  OBVIOUS
<1>2. ASSUME NEW s \in Seq(S), NEW t \in Seq(S)
      PROVE  PathBefore(s, t) <=> \E i \in Nat : DiffersAt(Strings, s, t, i)
  <2>1. DOMAIN t = 1..Len(t) /\ DOMAIN t \subseteq Nat /\ Len(s) \in Nat
    OBVIOUS
  <2>2. \A i \in DOMAIN t : SharePrefix(s, t, i) <=> i <= Len(s) + 1 /\ \A j \in 1..(i - 1) : s[j] = t[j]
    BY SharePrefixMeans
  <2>3. \A i \in DOMAIN t : i <= Len(s) => s[i] \in S /\ t[i] \in S
    BY <2>1
  <2>4. \A i \in DOMAIN t : i <= Len(s) => (StringBefore(s[i], t[i]) <=> <<s[i], t[i]>> \in Strings)
    BY <1>1, <2>3 DEF Strings
  <2>5. \A i \in DOMAIN t :
          (SharePrefix(s, t, i) /\ (i <= Len(s) => StringBefore(s[i], t[i]))) <=> DiffersAt(Strings, s, t, i)
    BY <2>1, <2>2, <2>4 DEF DiffersAt
  <2>6. \A i : DiffersAt(Strings, s, t, i) => i \in DOMAIN t
    BY <2>1 DEF DiffersAt
  <2> QED
    BY <2>1, <2>5, <2>6 DEF PathBefore
<1>3. PathPairs = Lex(Strings, S)
  BY <1>1, <1>2 DEF PathPairs, Lex
<1> QED
  BY <1>1, <1>3, StringsOrdered, LexOrder

(* In a finite set each element has its place: the number of those before. *)
Rank(lt, S, p) == Cardinality({q \in S : <<q, p>> \in lt})

(* Each element has a place, and each place has an element. *)
LEMMA Ranked ==
  ASSUME NEW S, IsFiniteSet(S), NEW lt, StrictOrder(lt, S)
  PROVE  /\ Cardinality(S) \in Nat
         /\ \A p \in S : Rank(lt, S, p) + 1 \in 1..Cardinality(S)
         /\ \A p, q \in S : Rank(lt, S, p) = Rank(lt, S, q) => p = q
         /\ \A i \in 1..Cardinality(S) : \E p \in S : Rank(lt, S, p) = i - 1
<1> DEFINE Below(p) == {q \in S : <<q, p>> \in lt}
           rank == [p \in S |-> Rank(lt, S, p)]
<1>1. PICK n \in Nat : n = Cardinality(S)
  BY FS_CardinalityType
<1>2. ASSUME NEW p \in S PROVE Rank(lt, S, p) \in 0..(n - 1)
  <2>1. Below(p) \subseteq S /\ p \notin Below(p)
    BY DEF StrictOrder
  <2>2. /\ Cardinality(Below(p)) \in Nat /\ Cardinality(Below(p)) <= n
        /\ Cardinality(Below(p)) # n
    <3> HIDE DEF Below
    <3>1. IsFiniteSet(Below(p)) /\ Cardinality(Below(p)) <= n /\ (n = Cardinality(Below(p)) => S = Below(p))
      BY <1>1, <2>1, FS_Subset
    <3> QED
      BY <2>1, <3>1, FS_CardinalityType
  <2> QED
    BY <1>1, <2>2 DEF Rank
<1>3. ASSUME NEW p \in S, NEW q \in S, <<p, q>> \in lt PROVE Rank(lt, S, p) < Rank(lt, S, q)
  <2>1. Below(p) \subseteq Below(q) /\ p \in Below(q) /\ p \notin Below(p) /\ Below(q) \subseteq S
    BY <1>3 DEF StrictOrder
  <2>2. /\ Cardinality(Below(p)) \in Nat /\ Cardinality(Below(q)) \in Nat
        /\ Cardinality(Below(p)) <= Cardinality(Below(q))
        /\ Cardinality(Below(p)) # Cardinality(Below(q))
    <3> HIDE DEF Below
    <3>1. IsFiniteSet(Below(q))
      BY <2>1, FS_Subset
    <3>2. /\ IsFiniteSet(Below(p)) /\ Cardinality(Below(p)) <= Cardinality(Below(q))
          /\ Cardinality(Below(q)) = Cardinality(Below(p)) => Below(q) = Below(p)
      BY <2>1, <3>1, FS_Subset
    <3> QED
      BY <2>1, <3>1, <3>2, FS_CardinalityType
  <2> QED
    BY <2>2 DEF Rank
<1>4. ASSUME NEW p \in S, NEW q \in S, Rank(lt, S, p) = Rank(lt, S, q) PROVE p = q
  <2>1. p = q \/ <<p, q>> \in lt \/ <<q, p>> \in lt
    BY DEF StrictOrder
  <2>2. Rank(lt, S, p) \in Int
    BY <1>2
  <2>3. ~(Rank(lt, S, p) < Rank(lt, S, q)) /\ ~(Rank(lt, S, q) < Rank(lt, S, p))
    BY <1>4, <2>2
  <2> QED
    BY <1>3, <2>1, <2>3
<1>5. rank \in Surjection(S, 0..(n - 1))
  <2>1. rank \in Injection(S, 0..(n - 1))
    BY <1>2, <1>4 DEF Injection, IsInjective
  <2>2. IsFiniteSet(0..(n - 1)) /\ Cardinality(0..(n - 1)) = n
    <3>1. 0 \in Int /\ n - 1 \in Int
      OBVIOUS
    <3>2. IsFiniteSet(0..(n - 1)) /\ Cardinality(0..(n - 1)) = IF 0 > n - 1 THEN 0 ELSE (n - 1) - 0 + 1
      BY <3>1, FS_Interval
    <3> QED
      BY <3>2
  <2> HIDE DEF rank
  <2> QED
    BY <1>1, <2>1, <2>2, FS_Injection
<1>6. ASSUME NEW i \in 1..n PROVE \E p \in S : Rank(lt, S, p) = i - 1
  <2>1. i - 1 \in 0..(n - 1)
    OBVIOUS
  <2>2. \E p \in S : rank[p] = i - 1
    BY <1>5, <2>1 DEF Surjection
  <2> QED
    BY <2>2
<1>7. \A p \in S : Rank(lt, S, p) + 1 \in 1..n
  BY <1>2
<1> QED
  BY <1>1, <1>4, <1>6, <1>7

-----------------------------------------------------------------------------
(* Paths, and what is hashed of a file. *)

(* A path has no NUL in it. *)
Bytes == Nat \ {NUL}
FileEntries == [path: Seq(Bytes), data: Seq(Nat)]

(* Joined adds one name after another. *)
LEMMA JoinedReads ==
  ASSUME NEW path \in Seq(FileNames), path # <<>>
  PROVE  \E f \in [1..Len(path) -> Seq(Bytes)] :
           /\ f[1] = path[1] /\ \A m \in 2..Len(path) : f[m] = f[m - 1] \o <<Slash>> \o path[m]
           /\ Joined(path) = f[Len(path)]
<1> DEFINE Equation(f) == f = [m \in 1..Len(path) |->
             IF m = 1 THEN path[1] ELSE f[m - 1] \o <<Slash>> \o path[m]]
<1>0. Len(path) \in Nat /\ 1 <= Len(path) /\ \A m \in 1..Len(path) : path[m] \in FileNames /\ path[m] \in Seq(Bytes)
  <2>1. FileNames \subseteq Seq(Bytes)
    BY DEF FileNames, Bytes
  <2> QED
    BY <2>1
<1>1. PICK n \in Nat : n = Len(path) /\ 1 <= n /\ \A m \in 1..n : path[m] \in Seq(Bytes)
  BY <1>0
<1>2. PICK S, base : S = Seq(Bytes) /\ base = path[1] /\ base \in S
  BY <1>0
<1>3. \A x \in S, m \in 2..n : x \o <<Slash>> \o path[m] \in S
  <2>1. <<Slash>> \in Seq(Bytes)
    BY DEF Slash, Bytes, NUL
  <2> QED
    BY <1>1, <1>2, <2>1
<1>4. PICK step : step = [x \in S \X (1..n) |-> IF x[2] = 1 THEN base ELSE x[1] \o <<Slash>> \o path[x[2]]]
  OBVIOUS
<1>5. \A x \in S, m \in 2..n : step[<<x, m>>] = x \o <<Slash>> \o path[m]
  <2>1. \A x \in S, m \in 2..n : <<x, m>> \in S \X (1..n) /\ m # 1
    BY <1>1
  <2> QED
    BY <1>4, <2>1
<1>6. step \in [S \X (1..n) -> S]
  <2>1. \A x \in S \X (1..n) : x[1] \in S /\ (x[2] = 1 \/ x[2] \in 2..n)
    BY <1>1
  <2> QED
    BY <1>2, <1>3, <1>4, <2>1
<1>7. PICK f \in [1..n -> S] : /\ Follows(f, 1, n, base, step)
                              /\ \A g : Steps(g, 1, n, base, S, step) => g = f
  <2>1. 1 \in Nat /\ 1 <= n
    BY <1>1
  <2> QED
    BY <1>1, <1>2, <1>6, <2>1, Recursion
<1>8. f[1] = path[1] /\ \A m \in 2..n : f[m] = f[m - 1] \o <<Slash>> \o path[m]
  <2>1. \A m \in 2..n : f[m - 1] \in S
    <3>1. \A m \in 2..n : m - 1 \in 1..n
      BY <1>1
    <3> QED
      BY <3>1
  <2>2. \A m \in 2..n : f[m] = step[<<f[m - 1], m>>]
    BY <1>7 DEF Follows
  <2> QED
    BY <1>2, <1>5, <1>7, <2>1, <2>2 DEF Follows
<1>9. \A h : Equation(h) <=>
        h = [m \in 1..n |-> IF m = 1 THEN path[1] ELSE h[m - 1] \o <<Slash>> \o path[m]]
  BY <1>1
<1>10. Equation(f)
  <2>1. \A m \in 1..n : m = 1 \/ m \in 2..n
    BY <1>1
  <2>2. f = [m \in 1..n |-> IF m = 1 THEN path[1] ELSE f[m - 1] \o <<Slash>> \o path[m]]
    BY <1>7, <1>8, <2>1
  <2> QED
    BY <1>9, <2>2
<1> HIDE DEF Equation
<1>11. PICK g : g = (CHOOSE h : Equation(h))
  OBVIOUS
<1>12. g = [m \in 1..n |-> IF m = 1 THEN path[1] ELSE g[m - 1] \o <<Slash>> \o path[m]]
  BY <1>9, <1>10, <1>11
<1>13. Steps(g, 1, n, base, S, step)
  <2>1. 1 \in 1..n /\ \A m \in 2..n : m # 1 /\ m \in 1..n
    BY <1>1
  <2>2. OnAll(g, 1, n) /\ g[1] = base
    BY <1>2, <1>12, <2>1 DEF OnAll
  <2>3. \A m \in 2..n : g[m] = g[m - 1] \o <<Slash>> \o path[m]
    BY <1>12, <2>1
  <2>4. \A m \in 2..n : g[m - 1] \in S => g[m] = step[<<g[m - 1], m>>]
    BY <1>5, <2>3
  <2> QED
    BY <2>2, <2>4 DEF Steps
<1>14. Joined(path) = f[n]
  BY <1>1, <1>7, <1>11, <1>13 DEF Joined, Equation
<1> QED
  BY <1>1, <1>2, <1>7, <1>8, <1>14

(* A piece x of the bytes F after the first o, ended by a mark or by F's   *)
(* end: there is one only that has no mark in it.                          *)
Piece(F, o, x) == o + Len(x) <= Len(F) /\ \A i \in 1..Len(x) : F[o + i] = x[i]
Ended(F, o, x, mark) == o + Len(x) = Len(F) \/ F[o + Len(x) + 1] = mark

(* It is the same piece when it is read twice. *)
LEMMA OnePiece ==
  ASSUME NEW F \in Seq(Nat), NEW o \in Nat, NEW mark, NEW x \in Seq(Nat), NEW y \in Seq(Nat),
         \A i \in 1..Len(x) : x[i] # mark, \A i \in 1..Len(y) : y[i] # mark,
         Piece(F, o, x), Ended(F, o, x, mark), Piece(F, o, y), Ended(F, o, y, mark)
  PROVE  x = y
<1>1. PICK m \in Nat, n \in Nat, k \in Nat : m = Len(x) /\ n = Len(y) /\ k = Len(F)
  OBVIOUS
<1>2. /\ o + m <= k /\ o + n <= k
      /\ \A i \in 1..m : F[o + i] = x[i] /\ x[i] # mark
      /\ \A i \in 1..n : F[o + i] = y[i] /\ y[i] # mark
      /\ o + m = k \/ F[o + m + 1] = mark
      /\ o + n = k \/ F[o + n + 1] = mark
  BY <1>1 DEF Piece, Ended
<1>3. CASE m < n
  <2>1. m + 1 \in 1..n /\ o + (m + 1) = o + m + 1 /\ o + m # k
    BY <1>2, <1>3
  <2>2. F[o + (m + 1)] # mark
    BY <1>2, <2>1
  <2>3. F[o + m + 1] = mark
    BY <1>2, <2>1
  <2> QED
    BY <2>1, <2>2, <2>3
<1>4. CASE n < m
  <2>1. n + 1 \in 1..m /\ o + (n + 1) = o + n + 1 /\ o + n # k
    BY <1>2, <1>4
  <2>2. F[o + (n + 1)] # mark
    BY <1>2, <2>1
  <2>3. F[o + n + 1] = mark
    BY <1>2, <2>1
  <2> QED
    BY <2>1, <2>2, <2>3
<1>5. CASE m = n
  BY <1>1, <1>2, <1>5, SeqEqual
<1> QED
  BY <1>3, <1>4, <1>5

(* Where the k-th name begins in what Joined makes of a path. *)
Offset(f, k) == IF k = 1 THEN 0 ELSE Len(f[k - 1]) + 1

(* f joins the first names of path, each of them such a piece. *)
NamesIn(path, f, l) ==
  /\ Joined(path) = f[l] /\ Joined(path) \in Seq(Bytes)
  /\ \A k \in 1..l :
       /\ path[k] \in Seq(Nat) /\ \A i \in 1..Len(path[k]) : path[k][i] # Slash
       /\ f[k] = IF k = 1 THEN path[k] ELSE f[k - 1] \o <<Slash>> \o path[k]
       /\ Len(f[k]) = Offset(f, k) + Len(path[k])
       /\ Piece(Joined(path), Offset(f, k), path[k])
       /\ Ended(Joined(path), Offset(f, k), path[k], Slash)
       /\ k < l => Len(f[k]) < Len(Joined(path))

(* There are such values for every path. *)
LEMMA NamesJoined ==
  ASSUME NEW path \in Seq(FileNames), path # <<>>
  PROVE  \E f \in [1..Len(path) -> Seq(Nat)] : NamesIn(path, f, Len(path))
<1>1. PICK f \in [1..Len(path) -> Seq(Bytes)] :
        /\ f[1] = path[1] /\ \A m \in 2..Len(path) : f[m] = f[m - 1] \o <<Slash>> \o path[m]
        /\ Joined(path) = f[Len(path)]
  BY JoinedReads
<1>2. PICK n \in Nat : n = Len(path) /\ n >= 1
  OBVIOUS
<1>3. PICK B : B = Seq(Nat) /\ Seq(Bytes) \subseteq B
  <2>1. Seq(Bytes) \subseteq Seq(Nat)
    BY DEF Bytes
  <2> QED
    BY <2>1
<1>4. \A k \in 1..n : path[k] \in Seq(Nat) /\ \A i \in 1..Len(path[k]) : path[k][i] # Slash
  BY <1>2 DEF FileNames
<1>5. PICK F \in Seq(Nat) : F = Joined(path) /\ F = f[n]
  BY <1>1, <1>2, <1>3
<1>6. f \in [1..n -> Seq(Nat)]
  BY <1>2, <1>3
<1>7. \A k \in 2..n : f[k] = f[k - 1] \o <<Slash>> \o path[k]
  BY <1>1, <1>2
<1>8. \A k \in 1..n : Begins(f[k], F)
  <2>1. \A m \in 2..n : \E x \in Seq(Nat) : f[m] = f[m - 1] \o x
    <3> SUFFICES ASSUME NEW m \in 2..n PROVE \E x \in Seq(Nat) : f[m] = f[m - 1] \o x
      OBVIOUS
    <3>1. f[m - 1] \in Seq(Nat) /\ path[m] \in Seq(Nat) /\ <<Slash>> \in Seq(Nat)
      BY <1>4, <1>6 DEF Slash
    <3>2. PICK u \in Seq(Nat), v \in Seq(Nat), w \in Seq(Nat) :
            u = f[m - 1] /\ v = <<Slash>> /\ w = path[m]
      BY <3>1
    <3>3. v \o w \in Seq(Nat)
      OBVIOUS
    <3>4. (u \o v) \o w = u \o (v \o w)
      BY ConcatAssociative, SMTT(30)
    <3>5. f[m] = u \o (v \o w)
      BY <1>7, <3>2, <3>4
    <3> QED
      BY <3>2, <3>3, <3>5
  <2>2. 1 \in Nat /\ (1 + 1)..n = 2..n
    OBVIOUS
  <2>3. \A k \in 1..n : Begins(f[k], f[n])
    BY <1>6, <2>1, <2>2, Growing
  <2> QED
    BY <1>5, <2>3
<1>9. ASSUME NEW k \in 2..n
      PROVE  /\ Len(f[k]) = Len(f[k - 1]) + 1 + Len(path[k]) /\ f[k][Len(f[k - 1]) + 1] = Slash
             /\ \A i \in 1..Len(path[k]) : f[k][Len(f[k - 1]) + 1 + i] = path[k][i]
             /\ Len(f[k - 1]) \in Nat /\ Len(path[k]) \in Nat /\ Len(f[k]) \in Nat
  <2>1. PICK s \in Seq(Nat), x \in Seq(Nat) : s = f[k - 1] /\ x = path[k]
    <3>1. f[k - 1] \in Seq(Nat) /\ path[k] \in Seq(Nat)
      BY <1>4, <1>6
    <3> QED
      BY <3>1
  <2>2. PICK u \in Seq(Nat) : u = s \o <<Slash>>
    <3>1. <<Slash>> \in Seq(Nat)
      BY DEF Slash
    <3>2. s \o <<Slash>> \in Seq(Nat)
      BY <3>1, ConcatProperties
    <3> QED
      BY <3>2
  <2>3. Len(u) = Len(s) + 1 /\ u[Len(s) + 1] = Slash
    BY <2>1, <2>2
  <2>4. f[k] = u \o x
    BY <1>7, <2>1, <2>2
  <2>5. PICK l \in Nat, m \in Nat : l = Len(s) /\ m = Len(x)
    BY <2>1
  <2>6. /\ Len(u \o x) = l + 1 + m /\ (u \o x)[l + 1] = u[l + 1]
        /\ \A i \in 1..m : (u \o x)[l + 1 + i] = x[i]
    <3>1. Len(u) = l + 1 /\ l + 1 \in 1..Len(u)
      BY <2>3, <2>5
    <3>2. /\ Len(u \o x) = (l + 1) + m
          /\ \A i \in 1..((l + 1) + m) : (u \o x)[i] = IF i <= l + 1 THEN u[i] ELSE x[i - (l + 1)]
      <4>1. /\ Len(u \o x) = Len(u) + Len(x)
            /\ \A i \in 1..(Len(u) + Len(x)) : (u \o x)[i] = IF i <= Len(u) THEN u[i] ELSE x[i - Len(u)]
        BY ConcatProperties
      <4> QED
        BY <2>5, <3>1, <4>1
    <3>3. l + 1 \in 1..((l + 1) + m) /\ l + 1 <= l + 1
      OBVIOUS
    <3>4. ASSUME NEW i \in 1..m PROVE (u \o x)[l + 1 + i] = x[i]
      <4>1. /\ (l + 1) + i \in 1..((l + 1) + m) /\ ~((l + 1) + i <= l + 1)
            /\ ((l + 1) + i) - (l + 1) = i
        OBVIOUS
      <4> QED
        BY <3>2, <4>1
    <3> QED
      BY <3>2, <3>3, <3>4
  <2>7. l + 1 + m \in Nat
    OBVIOUS
  <2> QED
    BY <2>1, <2>3, <2>4, <2>5, <2>6, <2>7
<1>10. ASSUME NEW k \in 1..n
       PROVE  /\ f[k] = IF k = 1 THEN path[k] ELSE f[k - 1] \o <<Slash>> \o path[k]
              /\ Len(f[k]) = Offset(f, k) + Len(path[k])
              /\ Piece(F, Offset(f, k), path[k]) /\ Ended(F, Offset(f, k), path[k], Slash)
              /\ k < n => Len(f[k]) < Len(F)
  <2>1. k = 1 \/ k \in 2..n
    OBVIOUS
  <2>2. PICK o \in Nat, l \in Nat, N \in Nat : o = Offset(f, k) /\ l = Len(path[k]) /\ N = Len(F)
    <3>1. Offset(f, k) \in Nat
      BY <1>9, <2>1 DEF Offset
    <3>2. Len(path[k]) \in Nat
      BY <1>4
    <3> QED
      BY <3>1, <3>2
  <2>3. Len(f[k]) = o + l /\ \A i \in 1..l : f[k][o + i] = path[k][i]
    <3>1. CASE k = 1
      <4>1. o = 0 /\ f[k] = path[k]
        BY <1>1, <2>2, <3>1 DEF Offset
      <4> QED
        BY <2>2, <4>1
    <3>2. CASE k \in 2..n
      <4>1. o = Len(f[k - 1]) + 1
        BY <2>2, <3>2 DEF Offset
      <4> QED
        BY <1>9, <2>2, <3>2, <4>1
    <3> QED
      BY <2>1, <3>1, <3>2
  <2>4. o + l <= N /\ \A i \in 1..(o + l) : F[i] = f[k][i]
    BY <1>8, <2>2, <2>3 DEF Begins
  <2>5. Piece(F, o, path[k])
    <3>1. \A i \in 1..l : o + i \in 1..(o + l)
      OBVIOUS
    <3> QED
      BY <2>2, <2>3, <2>4, <3>1 DEF Piece
  <2>6. Ended(F, o, path[k], Slash) /\ (k < n => o + l < N)
    <3>1. CASE k = n
      BY <1>5, <2>2, <2>3, <3>1 DEF Ended
    <3>2. CASE k < n
      <4>1. PICK j \in 2..n : j = k + 1 /\ j - 1 = k /\ j \in 1..n
        BY <3>2
      <4>2. Len(f[j]) \in Nat /\ Len(f[j]) >= o + l + 1 /\ f[j][o + l + 1] = Slash
        <5>1. /\ Len(f[j]) = Len(f[k]) + 1 + Len(path[j]) /\ f[j][Len(f[k]) + 1] = Slash
              /\ Len(path[j]) \in Nat /\ Len(f[j]) \in Nat
          BY <1>9, <4>1
        <5>2. PICK h \in Nat : h = Len(path[j]) /\ Len(f[j]) = (o + l) + 1 + h
          BY <2>3, <5>1
        <5>3. o + l + 1 <= (o + l) + 1 + h
          OBVIOUS
        <5>4. f[j][o + l + 1] = Slash
          BY <2>3, <5>1
        <5> QED
          BY <5>1, <5>2, <5>3, <5>4
      <4>3. Len(f[j]) <= N /\ \A i \in 1..Len(f[j]) : F[i] = f[j][i]
        BY <1>8, <2>2, <4>1 DEF Begins
      <4>4. o + l + 1 \in 1..Len(f[j])
        BY <4>2
      <4>5. F[o + l + 1] = Slash /\ o + l < N
        BY <4>2, <4>3, <4>4
      <4> QED
        BY <2>2, <4>5 DEF Ended
    <3> QED
      BY <3>1, <3>2
  <2>7. f[k] = IF k = 1 THEN path[k] ELSE f[k - 1] \o <<Slash>> \o path[k]
    BY <1>1, <1>7, <2>1
  <2> QED
    BY <2>2, <2>3, <2>5, <2>6, <2>7
<1>11. F = Joined(path) /\ Joined(path) = f[n] /\ Joined(path) \in Seq(Bytes)
  BY <1>1, <1>2, <1>5
<1>12. NamesIn(path, f, n)
  BY <1>4, <1>10, <1>11 DEF NamesIn
<1> QED
  BY <1>2, <1>6, <1>12

(* Bytes are numbers. *)
LEMMA BytesAreNumbers == Seq(Bytes) \subseteq Seq(Nat)
BY DEF Bytes

(* Where the elements of s \o t are. *)
LEMMA ConcatAt ==
  ASSUME NEW S, NEW s \in Seq(S), NEW t \in Seq(S), NEW m \in Nat, NEW n \in Nat,
         Len(s) = m, Len(t) = n
  PROVE  /\ s \o t \in Seq(S) /\ Len(s \o t) = m + n
         /\ \A i \in 1..m : (s \o t)[i] = s[i]
         /\ \A i \in 1..n : (s \o t)[m + i] = t[i]
<1>1. /\ s \o t \in Seq(S) /\ Len(s \o t) = Len(s) + Len(t)
      /\ \A i \in 1..(Len(s) + Len(t)) : (s \o t)[i] = IF i <= Len(s) THEN s[i] ELSE t[i - Len(s)]
  BY ConcatProperties
<1>2. \A i \in 1..(m + n) : (s \o t)[i] = IF i <= m THEN s[i] ELSE t[i - m]
  BY <1>1
<1>3. \A i \in 1..m : i \in 1..(m + n) /\ i <= m
  OBVIOUS
<1>4. \A i \in 1..n : m + i \in 1..(m + n) /\ ~(m + i <= m) /\ (m + i) - m = i
  OBVIOUS
<1> QED
  BY <1>1, <1>2, <1>3, <1>4

(* Two paths with the same characters have the same names. *)
LEMMA JoinedInjective ==
  ASSUME NEW p \in Seq(FileNames), NEW q \in Seq(FileNames), p # <<>>, q # <<>>,
         Joined(p) = Joined(q)
  PROVE  p = q
<1>1. PICK n \in Nat, m \in Nat : n = Len(p) /\ m = Len(q) /\ n >= 1 /\ m >= 1
  OBVIOUS
<1>2. PICK f \in [1..n -> Seq(Nat)] : NamesIn(p, f, n)
  BY <1>1, NamesJoined
<1>3. PICK g \in [1..m -> Seq(Nat)] : NamesIn(q, g, m)
  BY <1>1, NamesJoined
<1>4. PICK F \in Seq(Nat) : F = Joined(p) /\ F = Joined(q)
  <2>1. Joined(p) \in Seq(Nat)
    BY <1>2 DEF Bytes, NamesIn
  <2> QED
    BY <2>1
<1>5. ASSUME NEW k \in 1..n, k <= m, Offset(f, k) = Offset(g, k), Offset(f, k) \in Nat
      PROVE  p[k] = q[k]
  <2>1. k \in 1..m
    BY <1>5
  <2>2. /\ p[k] \in Seq(Nat) /\ \A i \in 1..Len(p[k]) : p[k][i] # Slash
        /\ Piece(F, Offset(f, k), p[k]) /\ Ended(F, Offset(f, k), p[k], Slash)
    BY <1>2, <1>4 DEF NamesIn
  <2>3. /\ q[k] \in Seq(Nat) /\ \A i \in 1..Len(q[k]) : q[k][i] # Slash
        /\ Piece(F, Offset(f, k), q[k]) /\ Ended(F, Offset(f, k), q[k], Slash)
    BY <1>3, <1>4, <1>5, <2>1 DEF NamesIn
  <2> QED
    BY <1>5, <2>2, <2>3, OnePiece
<1> DEFINE T == {k \in 1..n : k <= m /\ (\A j \in 1..k : p[j] = q[j]) /\ f[k] = g[k]}
<1>6. 1 \in T
  <2>1. Offset(f, 1) = 0 /\ Offset(g, 1) = 0
    BY DEF Offset
  <2>2. 1 \in 1..n /\ 1 \in 1..m /\ 1 <= m /\ 0 \in Nat
    BY <1>1
  <2>3. p[1] = q[1]
    BY <1>5, <2>1, <2>2
  <2>4. f[1] = p[1] /\ g[1] = q[1]
    BY <1>2, <1>3, <2>2 DEF NamesIn
  <2> QED
    BY <2>2, <2>3, <2>4
<1>7. \A k \in 1..(n - 1) : k \in T => k + 1 \in T
  <2> SUFFICES ASSUME NEW k \in 1..(n - 1), k <= m, \A j \in 1..k : p[j] = q[j], f[k] = g[k]
               PROVE  /\ k + 1 \in 1..n /\ k + 1 <= m /\ f[k + 1] = g[k + 1]
                      /\ \A j \in 1..(k + 1) : p[j] = q[j]
    OBVIOUS
  <2>1. k + 1 \in 1..n /\ (k + 1) - 1 = k /\ k + 1 # 1 /\ k < n /\ k \in 1..n
    BY <1>1
  <2>2. k # m
    <3> SUFFICES ASSUME k = m PROVE FALSE
      OBVIOUS
    <3>1. Len(f[k]) < Len(F) /\ f[k] = F
      BY <1>2, <1>3, <1>4, <2>1 DEF NamesIn
    <3> QED
      BY <3>1
  <2>3. k + 1 \in 1..m /\ k + 1 <= m
    BY <2>1, <2>2
  <2>4. Offset(f, k + 1) = Len(f[k]) + 1 /\ Offset(g, k + 1) = Len(g[k]) + 1
        /\ Offset(f, k + 1) \in Nat /\ Offset(f, k + 1) = Offset(g, k + 1)
    <3>1. Len(f[k]) \in Nat
      BY <2>1
    <3> QED
      BY <2>1, <3>1 DEF Offset
  <2>5. p[k + 1] = q[k + 1]
    BY <1>5, <2>1, <2>3, <2>4
  <2>6. f[k + 1] = f[k] \o <<Slash>> \o p[k + 1] /\ g[k + 1] = g[k] \o <<Slash>> \o q[k + 1]
    BY <1>2, <1>3, <2>1, <2>3 DEF NamesIn
  <2> QED
    BY <2>1, <2>3, <2>5, <2>6
<1>8. n \in T
  <2> HIDE DEF T
  <2>1. 1..n \subseteq T
    BY <1>6, <1>7, OneByOne
  <2> QED
    BY <1>1, <2>1
<1>9. n <= m /\ (\A j \in 1..n : p[j] = q[j]) /\ f[n] = g[n] /\ n \in 1..n
  BY <1>1, <1>8
<1>10. ~(n < m)
  <2> SUFFICES ASSUME n < m PROVE FALSE
    OBVIOUS
  <2>0. n \in 1..m
    BY <1>1
  <2>1. Len(g[n]) < Len(F) /\ f[n] = F
    BY <1>2, <1>3, <1>4, <2>0 DEF NamesIn
  <2> QED
    BY <1>9, <2>1
<1> QED
  BY <1>1, <1>9, <1>10, SeqEqual

(* What is where in the bytes hashed of a file. *)
LEMMA HashedParts ==
  ASSUME NEW e \in FileEntries
  PROVE  LET h == Hashed(e)
             a == Len(e.path)
             b == Len(e.data)
         IN  /\ h \in Seq(Nat) /\ Len(h) = a + 3 + b /\ a \in Nat /\ b \in Nat
             /\ \A i \in 1..a : h[i] = e.path[i]
             /\ h[a + 1] = NUL /\ h[a + 2] = Length(b)
             /\ \A i \in 1..b : h[a + 3 + i] = e.data[i]
<1>1. PICK p \in Seq(Nat), d \in Seq(Nat) : p = e.path /\ d = e.data
  <2>1. e.path \in Seq(Bytes) /\ e.data \in Seq(Nat)
    BY DEF FileEntries
  <2>2. e.path \in Seq(Nat)
    BY <2>1, BytesAreNumbers
  <2> QED
    BY <2>1, <2>2
<1>2. PICK a \in Nat, b \in Nat : a = Len(p) /\ b = Len(d)
  OBVIOUS
<1>3. PICK x \in Nat, y \in Nat : x = NUL /\ y = Length(b)
  BY DEF NUL, Length
<1>4. PICK m \in Seq(Nat) : m = <<x, y, x>> /\ Len(m) = 3 /\ m[1] = x /\ m[2] = y
  <2>1. <<x, y, x>> \in Seq(Nat) /\ Len(<<x, y, x>>) = 3
    OBVIOUS
  <2> QED
    BY <2>1
<1>5. PICK u \in Seq(Nat) : /\ u = p \o m /\ Len(u) = a + 3
                            /\ \A i \in 1..a : u[i] = p[i]
                            /\ \A i \in 1..3 : u[a + i] = m[i]
  <2>1. /\ p \o m \in Seq(Nat) /\ Len(p \o m) = a + 3
        /\ \A i \in 1..a : (p \o m)[i] = p[i]
        /\ \A i \in 1..3 : (p \o m)[a + i] = m[i]
    BY <1>2, <1>4, ConcatAt
  <2> QED
    BY <2>1
<1>6. PICK h \in Seq(Nat) : /\ h = u \o d /\ Len(h) = (a + 3) + b
                            /\ \A i \in 1..(a + 3) : h[i] = u[i]
                            /\ \A i \in 1..b : h[(a + 3) + i] = d[i]
  <2>1. PICK k \in Nat : k = a + 3
    OBVIOUS
  <2>2. Len(u) = k /\ Len(d) = b
    BY <1>2, <1>5, <2>1
  <2>3. /\ u \o d \in Seq(Nat) /\ Len(u \o d) = k + b
        /\ \A i \in 1..k : (u \o d)[i] = u[i]
        /\ \A i \in 1..b : (u \o d)[k + i] = d[i]
    <3>1. /\ u \o d \in Seq(Nat) /\ Len(u \o d) = k + b
          /\ \A i \in 1..k : (u \o d)[i] = u[i]
      BY <2>2, ConcatAt
    <3>2. ASSUME NEW i \in 1..b PROVE (u \o d)[k + i] = d[i]
      <4>1. PICK j \in 1..(k + b) : j = k + i /\ ~(j <= k) /\ j - k = i
        OBVIOUS
      <4>2. (u \o d)[j] = d[i]
        <5>1. \A z \in 1..(Len(u) + Len(d)) :
                (u \o d)[z] = IF z <= Len(u) THEN u[z] ELSE d[z - Len(u)]
          BY ConcatProperties
        <5>2. (u \o d)[j] = IF j <= Len(u) THEN u[j] ELSE d[j - Len(u)]
          BY <2>2, <4>1, <5>1
        <5>3. ~(j <= Len(u)) /\ j - Len(u) = i
          BY <2>2, <4>1
        <5> QED
          BY <5>2, <5>3
      <4> QED
        BY <4>1, <4>2
    <3> QED
      BY <3>1, <3>2
  <2> QED
    BY <2>1, <2>3
<1>7. Hashed(e) = h
  BY <1>1, <1>2, <1>3, <1>4, <1>5, <1>6 DEF Hashed
<1>8. \A i \in 1..a : h[i] = p[i]
  <2>1. \A i \in 1..a : i \in 1..(a + 3)
    OBVIOUS
  <2> QED
    BY <1>5, <1>6, <2>1
<1>9. h[a + 1] = x /\ h[a + 2] = y
  <2>1. a + 1 \in 1..(a + 3) /\ a + 2 \in 1..(a + 3) /\ 1 \in 1..3 /\ 2 \in 1..3
    OBVIOUS
  <2> QED
    BY <1>4, <1>5, <1>6, <2>1
<1> QED
  BY <1>1, <1>2, <1>3, <1>6, <1>7, <1>8, <1>9

(* The bytes of a file can be told from what comes before and after. *)
LEMMA HashedOnce ==
  ASSUME NEW F \in Seq(Nat), NEW o \in Nat, NEW e \in FileEntries, NEW d \in FileEntries,
         Piece(F, o, Hashed(e)), Piece(F, o, Hashed(d))
  PROVE  e = d
<1>1. ASSUME NEW c \in FileEntries, Piece(F, o, Hashed(c))
      PROVE  /\ c.path \in Seq(Nat) /\ \A i \in 1..Len(c.path) : c.path[i] # NUL
             /\ Piece(F, o, c.path) /\ Ended(F, o, c.path, NUL)
             /\ F[o + Len(c.path) + 2] = Length(Len(c.data))
             /\ \A i \in 1..Len(c.data) : F[o + Len(c.path) + 3 + i] = c.data[i]
  <2>1. c.path \in Seq(Bytes) /\ c.data \in Seq(Nat)
    BY DEF FileEntries
  <2>2. c.path \in Seq(Nat) /\ \A i \in 1..Len(c.path) : c.path[i] # NUL
    BY <2>1 DEF Bytes
  <2>3. PICK a \in Nat, b \in Nat, h \in Seq(Nat), N \in Nat :
          /\ a = Len(c.path) /\ b = Len(c.data) /\ h = Hashed(c) /\ N = Len(F)
          /\ Len(h) = a + 3 + b /\ (\A i \in 1..a : h[i] = c.path[i])
          /\ h[a + 1] = NUL /\ h[a + 2] = Length(b)
          /\ \A i \in 1..b : h[a + 3 + i] = c.data[i]
    <3>1. Len(F) \in Nat
      OBVIOUS
    <3>2. /\ Hashed(c) \in Seq(Nat) /\ Len(c.path) \in Nat /\ Len(c.data) \in Nat
          /\ Len(Hashed(c)) = Len(c.path) + 3 + Len(c.data)
          /\ \A i \in 1..Len(c.path) : Hashed(c)[i] = c.path[i]
          /\ Hashed(c)[Len(c.path) + 1] = NUL /\ Hashed(c)[Len(c.path) + 2] = Length(Len(c.data))
          /\ \A i \in 1..Len(c.data) : Hashed(c)[Len(c.path) + 3 + i] = c.data[i]
      BY HashedParts
    <3> QED
      BY <3>1, <3>2
  <2>4. o + (a + 3 + b) <= N /\ \A i \in 1..(a + 3 + b) : F[o + i] = h[i]
    BY <1>1, <2>3 DEF Piece
  <2>5. o + a <= N /\ \A i \in 1..a : F[o + i] = c.path[i]
    <3>1. \A i \in 1..a : i \in 1..(a + 3 + b)
      OBVIOUS
    <3>2. \A k \in Nat : o + (a + 3 + b) <= k => o + a <= k
      OBVIOUS
    <3>3. \A i \in 1..a : F[o + i] = c.path[i]
      BY <2>3, <2>4, <3>1
    <3> QED
      BY <2>3, <2>4, <3>2, <3>3
  <2>6. F[o + a + 1] = NUL /\ F[o + a + 2] = Length(b)
    <3>1. a + 1 \in 1..(a + 3 + b) /\ o + (a + 1) = o + a + 1
          /\ a + 2 \in 1..(a + 3 + b) /\ o + (a + 2) = o + a + 2
      OBVIOUS
    <3> QED
      BY <2>3, <2>4, <3>1
  <2>7. ASSUME NEW i \in 1..b PROVE F[o + a + 3 + i] = c.data[i]
    <3>1. a + 3 + i \in 1..(a + 3 + b) /\ o + (a + 3 + i) = o + a + 3 + i
      OBVIOUS
    <3> QED
      BY <2>3, <2>4, <3>1
  <2> QED
    BY <2>2, <2>3, <2>5, <2>6, <2>7 DEF Piece, Ended
<1>2. e.path = d.path
  BY <1>1, OnePiece
<1>3. Len(e.data) = Len(d.data)
  <2>1. Length(Len(e.data)) = Length(Len(d.data)) /\ Len(e.data) \in Nat /\ Len(d.data) \in Nat
    <3>1. e.data \in Seq(Nat) /\ d.data \in Seq(Nat)
      BY DEF FileEntries
    <3>2. Len(e.data) \in Nat /\ Len(d.data) \in Nat
      BY <3>1
    <3> QED
      BY <1>1, <1>2, <3>2
  <2> QED
    BY <2>1 DEF Length
<1>4. e.data = d.data
  <2>1. e.data \in Seq(Nat) /\ d.data \in Seq(Nat)
    BY DEF FileEntries
  <2>2. ASSUME NEW i \in 1..Len(e.data) PROVE e.data[i] = d.data[i]
    <3>1. F[o + Len(e.path) + 3 + i] = e.data[i]
      BY <1>1
    <3>2. F[o + Len(d.path) + 3 + i] = d.data[i]
      BY <1>1, <1>3
    <3> QED
      BY <1>2, <3>1, <3>2
  <2> QED
    BY <1>3, <2>1, <2>2, SeqEqual
<1> QED
  BY <1>2, <1>4 DEF FileEntries

(* They are bytes. *)
LEMMA HashedType ==
  \A e \in FileEntries : Hashed(e) \in Seq(Nat)
BY HashedParts

(* AllHashed adds one file after another. *)
LEMMA AllHashedReads ==
  ASSUME NEW entries \in Seq(FileEntries)
  PROVE  \E f \in [0..Len(entries) -> Seq(Nat)] :
           /\ f[0] = <<>> /\ \A m \in 1..Len(entries) : f[m] = f[m - 1] \o Hashed(entries[m])
           /\ AllHashed(entries) = f[Len(entries)]
<1> DEFINE Equation(f) == f = [m \in 0..Len(entries) |->
             IF m = 0 THEN <<>> ELSE f[m - 1] \o Hashed(entries[m])]
<1>0. Len(entries) \in Nat /\ (\A m \in 1..Len(entries) : entries[m] \in FileEntries) /\ <<>> \in Seq(Nat)
  OBVIOUS
<1>1. PICK n \in Nat : n = Len(entries) /\ 0 <= n /\ \A m \in 1..n : entries[m] \in FileEntries
  BY <1>0
<1>2. PICK S, base : S = Seq(Nat) /\ base = <<>> /\ base \in S
  BY <1>0
<1>3. \A x \in S, m \in 1..n : x \o Hashed(entries[m]) \in S
  BY <1>1, <1>2, HashedType
<1>4. PICK step : step = [x \in S \X (0..n) |-> IF x[2] = 0 THEN base ELSE x[1] \o Hashed(entries[x[2]])]
  OBVIOUS
<1>5. \A x \in S, m \in 1..n : step[<<x, m>>] = x \o Hashed(entries[m])
  <2>1. \A x \in S, m \in 1..n : <<x, m>> \in S \X (0..n) /\ m # 0
    BY <1>1
  <2> QED
    BY <1>4, <2>1
<1>6. step \in [S \X (0..n) -> S]
  <2>1. \A x \in S \X (0..n) : x[1] \in S /\ (x[2] = 0 \/ x[2] \in 1..n)
    BY <1>1
  <2> QED
    BY <1>2, <1>3, <1>4, <2>1
<1>7. PICK f \in [0..n -> S] : /\ Follows(f, 0, n, base, step)
                              /\ \A g : Steps(g, 0, n, base, S, step) => g = f
  <2>1. 0 \in Nat /\ 0 <= n
    BY <1>1
  <2> QED
    BY <1>1, <1>2, <1>6, <2>1, Recursion
<1>8. f[0] = <<>> /\ \A m \in 1..n : f[m] = f[m - 1] \o Hashed(entries[m])
  <2>1. \A m \in 1..n : f[m - 1] \in S
    <3>1. \A m \in 1..n : m - 1 \in 0..n
      BY <1>1
    <3> QED
      BY <3>1
  <2>2. \A m \in 1..n : f[m] = step[<<f[m - 1], m>>]
    BY <1>7 DEF Follows
  <2> QED
    BY <1>2, <1>5, <1>7, <2>1, <2>2 DEF Follows
<1>9. \A h : Equation(h) <=>
        h = [m \in 0..n |-> IF m = 0 THEN <<>> ELSE h[m - 1] \o Hashed(entries[m])]
  BY <1>1
<1>10. Equation(f)
  <2>1. \A m \in 0..n : m = 0 \/ m \in 1..n
    BY <1>1
  <2>2. f = [m \in 0..n |-> IF m = 0 THEN <<>> ELSE f[m - 1] \o Hashed(entries[m])]
    BY <1>7, <1>8, <2>1
  <2> QED
    BY <1>9, <2>2
<1> HIDE DEF Equation
<1>11. PICK g : g = (CHOOSE h : Equation(h))
  OBVIOUS
<1>12. g = [m \in 0..n |-> IF m = 0 THEN <<>> ELSE g[m - 1] \o Hashed(entries[m])]
  BY <1>9, <1>10, <1>11
<1>13. Steps(g, 0, n, base, S, step)
  <2>1. 0 \in 0..n /\ \A m \in 1..n : m # 0 /\ m \in 0..n
    BY <1>1
  <2>2. OnAll(g, 0, n) /\ g[0] = base
    BY <1>2, <1>12, <2>1 DEF OnAll
  <2>3. \A m \in 1..n : g[m] = g[m - 1] \o Hashed(entries[m])
    BY <1>12, <2>1
  <2>4. \A m \in 1..n : g[m - 1] \in S => g[m] = step[<<g[m - 1], m>>]
    BY <1>5, <2>3
  <2> QED
    BY <2>2, <2>4 DEF Steps
<1>14. AllHashed(entries) = f[n]
  BY <1>1, <1>7, <1>11, <1>13 DEF AllHashed, Equation
<1> QED
  BY <1>1, <1>2, <1>7, <1>8, <1>14

(* f has the bytes of the first files, which follow each other. *)
Laid(entries, f, l) ==
  /\ f[0] = <<>> /\ AllHashed(entries) = f[l] /\ AllHashed(entries) \in Seq(Nat)
  /\ \A k \in 1..l :
       /\ f[k] = f[k - 1] \o Hashed(entries[k])
       /\ Piece(AllHashed(entries), Len(f[k - 1]), Hashed(entries[k]))
       /\ Len(f[k - 1]) < Len(AllHashed(entries))

(* There are such values for all files. *)
LEMMA FilesLaid ==
  ASSUME NEW entries \in Seq(FileEntries)
  PROVE  \E f \in [0..Len(entries) -> Seq(Nat)] : Laid(entries, f, Len(entries))
<1>1. PICK n \in Nat : n = Len(entries) /\ \A k \in 1..n : entries[k] \in FileEntries
  OBVIOUS
<1>2. PICK f \in [0..n -> Seq(Nat)] :
        /\ f[0] = <<>> /\ \A k \in 1..n : f[k] = f[k - 1] \o Hashed(entries[k])
        /\ AllHashed(entries) = f[n]
  BY <1>1, AllHashedReads
<1>3. PICK F \in Seq(Nat) : F = AllHashed(entries) /\ F = f[n]
  BY <1>2
<1>4. \A k \in 0..n : Begins(f[k], F)
  <2>1. \A k \in 1..n : \E x \in Seq(Nat) : f[k] = f[k - 1] \o x
    <3> SUFFICES ASSUME NEW k \in 1..n PROVE \E x \in Seq(Nat) : f[k] = f[k - 1] \o x
      OBVIOUS
    <3>1. Hashed(entries[k]) \in Seq(Nat)
      BY <1>1, HashedType
    <3> QED
      BY <1>2, <3>1
  <2>2. 0 \in Nat /\ (0 + 1)..n = 1..n
    OBVIOUS
  <2>3. \A k \in 0..n : Begins(f[k], f[n])
    BY <1>2, <2>1, <2>2, Growing
  <2> QED
    BY <1>3, <2>3
<1>5. ASSUME NEW k \in 1..n
      PROVE  Piece(F, Len(f[k - 1]), Hashed(entries[k])) /\ Len(f[k - 1]) < Len(F)
  <2>1. PICK s \in Seq(Nat), x \in Seq(Nat) : s = f[k - 1] /\ x = Hashed(entries[k])
    <3>1. Hashed(entries[k]) \in Seq(Nat)
      BY <1>1, HashedType
    <3>2. f[k - 1] \in Seq(Nat)
      OBVIOUS
    <3> QED
      BY <3>1, <3>2
  <2>2. PICK l \in Nat, m \in Nat, N \in Nat : l = Len(s) /\ m = Len(x) /\ N = Len(F) /\ m >= 1
    <3>1. PICK e \in FileEntries : e = entries[k]
      BY <1>1
    <3>2. Len(x) = Len(e.path) + 3 + Len(e.data) /\ Len(e.path) \in Nat /\ Len(e.data) \in Nat
      BY <2>1, <3>1, HashedParts
    <3>3. PICK a \in Nat, b \in Nat : Len(x) = a + 3 + b
      BY <3>2
    <3>4. a + 3 + b \in Nat /\ a + 3 + b >= 1
      OBVIOUS
    <3>5. PICK M \in Nat : M = Len(x) /\ M >= 1
      BY <3>3, <3>4
    <3>6. Len(s) \in Nat /\ Len(F) \in Nat
      OBVIOUS
    <3> QED
      BY <3>5, <3>6
  <2>3. /\ Len(s \o x) = l + m /\ \A i \in 1..m : (s \o x)[l + i] = x[i]
    <3>1. Len(s \o x) = l + m
      BY <2>2, ConcatProperties
    <3>2. ASSUME NEW i \in 1..m PROVE (s \o x)[l + i] = x[i]
      <4>1. PICK j \in 1..(l + m) : j = l + i /\ ~(j <= l) /\ j - l = i
        OBVIOUS
      <4>2. \A z \in 1..(Len(s) + Len(x)) :
              (s \o x)[z] = IF z <= Len(s) THEN s[z] ELSE x[z - Len(s)]
        BY ConcatProperties
      <4>3. (s \o x)[j] = IF j <= l THEN s[j] ELSE x[j - l]
        BY <2>2, <4>1, <4>2
      <4> QED
        BY <4>1, <4>3
    <3> QED
      BY <3>1, <3>2
  <2>4. f[k] = s \o x /\ k \in 0..n
    <3>1. k \in 0..n
      OBVIOUS
    <3>2. f[k] = f[k - 1] \o Hashed(entries[k])
      BY <1>2
    <3> QED
      BY <2>1, <3>1, <3>2
  <2>5. l + m <= N /\ \A i \in 1..(l + m) : F[i] = f[k][i]
    <3>1. Begins(f[k], F) /\ Len(f[k]) = l + m
      BY <1>4, <2>3, <2>4
    <3> QED
      BY <2>2, <3>1 DEF Begins
  <2>6. \A i \in 1..m : F[l + i] = x[i]
    <3>1. \A i \in 1..m : l + i \in 1..(l + m)
      OBVIOUS
    <3> QED
      BY <2>3, <2>4, <2>5, <3>1
  <2>7. l < N
    BY <2>2, <2>5
  <2> QED
    BY <2>1, <2>2, <2>5, <2>6, <2>7 DEF Piece
<1>6. Laid(entries, f, n)
  BY <1>2, <1>3, <1>5 DEF Laid
<1> QED
  BY <1>1, <1>6

(* What is hashed tells the files and their order. *)
LEMMA AllHashedOnce ==
  ASSUME NEW s \in Seq(FileEntries), NEW t \in Seq(FileEntries), AllHashed(s) = AllHashed(t)
  PROVE  s = t
<1>1. PICK n \in Nat, m \in Nat :
        /\ n = Len(s) /\ m = Len(t)
        /\ (\A k \in 1..n : s[k] \in FileEntries) /\ (\A k \in 1..m : t[k] \in FileEntries)
  OBVIOUS
<1>2. PICK f \in [0..n -> Seq(Nat)] : Laid(s, f, n)
  BY <1>1, FilesLaid
<1>3. PICK g \in [0..m -> Seq(Nat)] : Laid(t, g, m)
  BY <1>1, FilesLaid
<1>4. PICK F \in Seq(Nat) : F = AllHashed(s) /\ F = AllHashed(t)
  BY <1>2 DEF Laid
<1> DEFINE T == {k \in 0..n : k <= m /\ f[k] = g[k] /\ \A j \in 1..k : s[j] = t[j]}
<1>5. 0 \in T
  BY <1>1, <1>2, <1>3 DEF Laid
<1>6. \A k \in 0..(n - 1) : k \in T => k + 1 \in T
  <2> SUFFICES ASSUME NEW k \in 0..(n - 1), k <= m, f[k] = g[k], \A j \in 1..k : s[j] = t[j]
               PROVE  /\ k + 1 \in 0..n /\ k + 1 <= m /\ f[k + 1] = g[k + 1]
                      /\ \A j \in 1..(k + 1) : s[j] = t[j]
    OBVIOUS
  <2>1. PICK i \in 1..n : i = k + 1 /\ i - 1 = k /\ k \in 0..n
    BY <1>1
  <2>2. PICK o \in Nat : o = Len(f[k]) /\ o = Len(g[k])
    BY <2>1
  <2>3. o < Len(F) /\ f[i] = f[k] \o Hashed(s[i]) /\ Piece(F, o, Hashed(s[i]))
    BY <1>2, <1>4, <2>1, <2>2 DEF Laid
  <2>4. k # m
    <3> SUFFICES ASSUME k = m PROVE FALSE
      OBVIOUS
    <3>1. F = g[k]
      BY <1>3, <1>4 DEF Laid
    <3>2. Len(F) \in Nat
      OBVIOUS
    <3> QED
      BY <2>2, <2>3, <3>1, <3>2
  <2>5. i \in 1..m
    BY <1>1, <2>1, <2>4
  <2>6. g[i] = g[k] \o Hashed(t[i]) /\ Piece(F, o, Hashed(t[i]))
    BY <1>3, <1>4, <2>1, <2>2, <2>5 DEF Laid
  <2>7. s[i] = t[i]
    <3>1. s[i] \in FileEntries /\ t[i] \in FileEntries
      BY <1>1, <2>1, <2>5
    <3> QED
      BY <2>3, <2>6, <3>1, HashedOnce
  <2>8. \A j \in 1..(k + 1) : j \in 1..k \/ j = i
    BY <2>1
  <2>9. \A j \in 1..(k + 1) : s[j] = t[j]
    BY <2>7, <2>8
  <2>10. f[i] = g[i]
    BY <2>3, <2>6, <2>7
  <2> QED
    BY <2>1, <2>5, <2>9, <2>10
<1>7. n <= m /\ f[n] = g[n] /\ \A j \in 1..n : s[j] = t[j]
  <2> HIDE DEF T
  <2>1. 0..n \subseteq T
    BY <1>5, <1>6, OneByOne
  <2>2. n \in T
    BY <1>1, <2>1
  <2> QED
    BY <2>2 DEF T
<1>8. ~(n < m)
  <2> SUFFICES ASSUME n < m PROVE FALSE
    OBVIOUS
  <2>1. PICK k \in 1..m : k = n + 1 /\ k - 1 = n
    BY <1>1
  <2>2. Len(g[n]) < Len(F) /\ F = g[n]
    BY <1>2, <1>3, <1>4, <1>7, <2>1 DEF Laid
  <2>3. Len(F) \in Nat
    OBVIOUS
  <2> QED
    BY <2>2, <2>3
<1> QED
  BY <1>1, <1>7, <1>8, SeqEqual

-----------------------------------------------------------------------------
(* The insertion sort. *)

(* Where the elements are after an insertion. *)
LEMMA InsertAtReads ==
  ASSUME NEW S, NEW s \in Seq(S), NEW e \in S, NEW n \in Nat, n = Len(s), NEW k \in 0..n
  PROVE  /\ InsertAt(s, k + 1, e) \in Seq(S) /\ Len(InsertAt(s, k + 1, e)) = n + 1
         /\ \A i \in 1..k : InsertAt(s, k + 1, e)[i] = s[i]
         /\ InsertAt(s, k + 1, e)[k + 1] = e
         /\ \A i \in (k + 1)..n : InsertAt(s, k + 1, e)[i + 1] = s[i]
<1>1. PICK u \in Seq(S) : u = SubSeq(s, 1, k) /\ Len(u) = k /\ \A i \in 1..k : u[i] = s[i]
  <2>1. \A i \in 1..k : s[i] \in S
    OBVIOUS
  <2>2. 1 \in Int /\ k \in Int /\ k - 1 + 1 = k /\ (1 <= k \/ k = 0)
    OBVIOUS
  <2>3. /\ SubSeq(s, 1, k) \in Seq(S) /\ Len(SubSeq(s, 1, k)) = IF 1 <= k THEN k - 1 + 1 ELSE 0
        /\ \A i \in 1..(k - 1 + 1) : SubSeq(s, 1, k)[i] = s[1 + i - 1]
    BY <2>1, <2>2, SubSeqProperties
  <2>4. \A i \in 1..k : i \in 1..(k - 1 + 1) /\ 1 + i - 1 = i
    OBVIOUS
  <2>5. Len(SubSeq(s, 1, k)) = k /\ \A i \in 1..k : SubSeq(s, 1, k)[i] = s[i]
    BY <2>2, <2>3, <2>4
  <2> QED
    BY <2>3, <2>5
<1>2. PICK m \in Nat : m = n - k /\ k + m = n
  <2>1. n - k \in Nat /\ k + (n - k) = n
    OBVIOUS
  <2> QED
    BY <2>1
<1>3. PICK v \in Seq(S) : v = SubSeq(s, k + 1, n) /\ Len(v) = m /\ \A i \in 1..m : v[i] = s[k + i]
  <2>1. \A i \in (k + 1)..n : s[i] \in S
    OBVIOUS
  <2>2. k + 1 \in Int /\ n \in Int /\ n - (k + 1) + 1 = m /\ (k + 1 <= n <=> m # 0)
    BY <1>2
  <2>3. /\ SubSeq(s, k + 1, n) \in Seq(S)
        /\ Len(SubSeq(s, k + 1, n)) = IF k + 1 <= n THEN n - (k + 1) + 1 ELSE 0
        /\ \A i \in 1..(n - (k + 1) + 1) : SubSeq(s, k + 1, n)[i] = s[k + 1 + i - 1]
    BY <2>1, <2>2, SubSeqProperties
  <2>4. \A i \in 1..m : i \in 1..(n - (k + 1) + 1) /\ k + 1 + i - 1 = k + i
    BY <1>2
  <2>5. Len(SubSeq(s, k + 1, n)) = m /\ \A i \in 1..m : SubSeq(s, k + 1, n)[i] = s[k + i]
    BY <2>2, <2>3, <2>4
  <2> QED
    BY <2>3, <2>5
<1>4. PICK w \in Seq(S) : w = u \o <<e>> /\ Len(w) = k + 1 /\ w[k + 1] = e /\ \A i \in 1..k : w[i] = s[i]
  <2>1. u \o <<e>> = Append(u, e) /\ Append(u, e) \in Seq(S)
    OBVIOUS
  <2>2. Len(Append(u, e)) = k + 1 /\ Append(u, e)[k + 1] = e
    BY <1>1
  <2>3. \A i \in 1..k : Append(u, e)[i] = u[i]
    BY <1>1
  <2> QED
    BY <1>1, <2>1, <2>2, <2>3
<1>5. InsertAt(s, k + 1, e) = w \o v
  <2>1. (k + 1) - 1 = k
    OBVIOUS
  <2> QED
    BY <1>1, <1>3, <1>4, <2>1 DEF InsertAt
<1>6. w \o v \in Seq(S) /\ Len(w \o v) = (k + 1) + m
  <2>1. w \o v \in Seq(S) /\ Len(w \o v) = Len(w) + Len(v)
    BY ConcatProperties
  <2> QED
    BY <1>3, <1>4, <2>1
<1>7. ASSUME NEW i \in 1..((k + 1) + m)
      PROVE  (w \o v)[i] = IF i <= k + 1 THEN w[i] ELSE v[i - (k + 1)]
  <2>1. \A j \in 1..(Len(w) + Len(v)) : (w \o v)[j] = IF j <= Len(w) THEN w[j] ELSE v[j - Len(w)]
    BY ConcatProperties
  <2> QED
    BY <1>3, <1>4, <2>1
<1>8. (w \o v)[k + 1] = e
  <2>1. k + 1 \in 1..((k + 1) + m) /\ k + 1 <= k + 1
    OBVIOUS
  <2> QED
    BY <1>4, <1>7, <2>1
<1>9. ASSUME NEW i \in 1..k PROVE (w \o v)[i] = s[i]
  <2>1. i \in 1..((k + 1) + m) /\ i <= k + 1
    OBVIOUS
  <2> QED
    BY <1>4, <1>7, <2>1
<1>10. ASSUME NEW i \in (k + 1)..n PROVE (w \o v)[i + 1] = s[i]
  <2>1. PICK j \in 1..m : j = i - k /\ k + j = i
    BY <1>2
  <2>2. i + 1 \in 1..((k + 1) + m) /\ ~(i + 1 <= k + 1) /\ (i + 1) - (k + 1) = j
    BY <1>2, <2>1
  <2>3. (w \o v)[i + 1] = v[j]
    BY <1>7, <2>2
  <2> QED
    BY <1>3, <2>1, <2>3
<1>11. (k + 1) + m = n + 1
  BY <1>2
<1> QED
  BY <1>5, <1>6, <1>8, <1>9, <1>10, <1>11

(* A set of positions that holds with each those before it.                *)
LEMMA FirstOnes ==
  ASSUME NEW n \in Nat, NEW T \in SUBSET (1..n),
         \A i \in T, j \in 1..n : j < i => j \in T
  PROVE  Cardinality(T) \in 0..n /\ T = 1..Cardinality(T)
<1>1. IsFiniteSet(1..n) /\ \A k \in 0..n : Cardinality(1..k) = k
  <2>1. 1 \in Int /\ n \in Int /\ \A k \in 0..n : k \in Int
    OBVIOUS
  <2>2. IsFiniteSet(1..n) /\ \A k \in 0..n : Cardinality(1..k) = IF 1 > k THEN 0 ELSE k - 1 + 1
    BY <2>1, FS_Interval
  <2>3. \A k \in 0..n : (IF 1 > k THEN 0 ELSE k - 1 + 1) = k
    OBVIOUS
  <2> QED
    BY <2>2, <2>3
<1>2. \E k \in 0..n : T = 1..k
  <2>1. CASE T = 1..n
    BY <2>1
  <2>2. CASE T # 1..n
    <3>1. PICK m \in (1..n) \ T : \A i \in (1..n) \ T : m <= i
      <4>1. PICK U : U = (1..n) \ T
        OBVIOUS
      <4>2. U \in SUBSET Nat
        BY <4>1
      <4>3. U # {}
        <5>1. T \subseteq 1..n
          OBVIOUS
        <5> QED
          BY <2>2, <4>1, <5>1, Zenon
      <4> QED
        BY <4>1, <4>2, <4>3, LeastNumber
    <3>2. m - 1 \in 0..n /\ 1..(m - 1) \subseteq 1..n
      OBVIOUS
    <3>3. \A i \in 1..(m - 1) : i \in T
      BY <3>1, <3>2
    <3>4. \A i \in T : i \in 1..(m - 1)
      OBVIOUS
    <3> QED
      BY <3>2, <3>3, <3>4
  <2> QED
    BY <2>1, <2>2
<1> QED
  BY <1>1, <1>2

(* In order of path. *)
Increasing(entries) ==
  \A i, j \in DOMAIN entries : i < j => StringBefore(entries[i].path, entries[j].path)

(* The types of an entry. *)
LEMMA PathType ==
  \A e \in FileEntries : e.path \in Seq(Nat) /\ e.path \in Seq(Bytes) /\ e.data \in Seq(Nat)
BY BytesAreNumbers DEF FileEntries

(* Strings are compared one way only. *)
LEMMA StringsCompare ==
  /\ \A s \in Seq(Nat) : ~StringBefore(s, s)
  /\ \A s, t \in Seq(Nat) : ~(StringBefore(s, t) /\ StringBefore(t, s))
  /\ \A s, t, u \in Seq(Nat) : StringBefore(s, t) /\ StringBefore(t, u) => StringBefore(s, u)
  /\ \A s, t \in Seq(Nat) : s = t \/ StringBefore(s, t) \/ StringBefore(t, s)
<1>1. \A s, t \in Seq(Nat) : StringBefore(s, t) <=> <<s, t>> \in Strings
  BY DEF Strings
<1> QED
  BY <1>1, StringsOrdered DEF StrictOrder

(* Two sequences in order of path, of the same elements, are the same. *)
LEMMA IncreasingBegins ==
  ASSUME NEW s \in Seq(FileEntries), NEW t \in Seq(FileEntries),
         Increasing(s), Increasing(t), ToSet(s) = ToSet(t)
  PROVE  Len(s) <= Len(t) /\ \A i \in 1..Len(s) : s[i] = t[i]
<1>1. PICK n \in Nat, m \in Nat : n = Len(s) /\ m = Len(t)
  OBVIOUS
<1>2. /\ \A i \in 1..n : s[i] \in FileEntries /\ \E j \in 1..m : t[j] = s[i]
      /\ \A i \in 1..m : t[i] \in FileEntries /\ \E j \in 1..n : s[j] = t[i]
  <2>1. DOMAIN s = 1..n /\ DOMAIN t = 1..m
    BY <1>1
  <2>2. {s[i] : i \in 1..n} = {t[i] : i \in 1..m}
    BY <2>1 DEF ToSet
  <2>3. \A i \in 1..n : s[i] \in {t[j] : j \in 1..m}
    BY <2>2
  <2>4. \A i \in 1..m : t[i] \in {s[j] : j \in 1..n}
    BY <2>2
  <2>5. (\A i \in 1..n : s[i] \in FileEntries) /\ (\A i \in 1..m : t[i] \in FileEntries)
    BY <1>1
  <2> QED
    BY <2>3, <2>4, <2>5
<1>3. /\ \A i, j \in 1..n : i < j => StringBefore(s[i].path, s[j].path)
      /\ \A i, j \in 1..m : i < j => StringBefore(t[i].path, t[j].path)
  BY <1>1 DEF Increasing
<1> DEFINE Same(k) == k <= m /\ s[k] = t[k]
           T == {k \in 1..n : ~Same(k)}
<1>4. T = {}
  <2> SUFFICES ASSUME T # {} PROVE FALSE
    OBVIOUS
  <2>1. PICK k \in T : \A i \in T : k <= i
    <3>1. T \in SUBSET Nat
      OBVIOUS
    <3> HIDE DEF T
    <3> QED
      BY <3>1, LeastNumber
  <2>2. k \in 1..n /\ \A i \in 1..n : i < k => i \in 1..m /\ s[i] = t[i]
    BY <2>1
  <2>3. PICK j \in 1..m : t[j] = s[k]
    BY <1>2, <2>2
  <2>4. ~(j < k)
    <3> SUFFICES ASSUME j < k PROVE FALSE
      OBVIOUS
    <3>1. j \in 1..n /\ s[j] = s[k]
      BY <2>2, <2>3
    <3>2. StringBefore(s[j].path, s[k].path)
      BY <1>3, <2>2, <3>1
    <3> QED
      BY <1>2, <2>2, <3>1, <3>2, PathType, StringsCompare
  <2>5. k < j /\ k \in 1..m /\ t[k] # s[k]
    BY <2>1, <2>2, <2>3, <2>4
  <2>6. PICK i \in 1..n : s[i] = t[k]
    BY <1>2, <2>5
  <2>7. StringBefore(t[k].path, s[k].path)
    BY <1>3, <2>3, <2>5
  <2>8. CASE i < k
    <3>1. i \in 1..m /\ t[i] = t[k]
      BY <2>2, <2>6, <2>8
    <3>2. StringBefore(t[i].path, t[k].path)
      BY <1>3, <2>5, <2>8, <3>1
    <3> QED
      BY <1>2, <2>5, <3>1, <3>2, PathType, StringsCompare
  <2>9. CASE k < i
    <3>1. StringBefore(s[k].path, t[k].path)
      BY <1>3, <2>2, <2>6, <2>9
    <3>2. s[k].path \in Seq(Nat) /\ t[k].path \in Seq(Nat)
      BY <1>2, <2>2, <2>5, PathType
    <3> QED
      BY <2>7, <3>1, <3>2, StringsCompare
  <2> QED
    BY <2>2, <2>5, <2>6, <2>8, <2>9
<1>5. \A k \in 1..n : k <= m /\ s[k] = t[k]
  BY <1>4
<1>6. n <= m
  <2>1. n = 0 \/ n \in 1..n
    OBVIOUS
  <2> QED
    BY <1>5, <2>1
<1> QED
  BY <1>1, <1>5, <1>6

(* Hence they are equal. *)
LEMMA OneIncreasing ==
  ASSUME NEW s \in Seq(FileEntries), NEW t \in Seq(FileEntries),
         Increasing(s), Increasing(t), ToSet(s) = ToSet(t)
  PROVE  s = t
<1>1. Len(s) <= Len(t) /\ \A i \in 1..Len(s) : s[i] = t[i]
  BY IncreasingBegins
<1>2. Len(t) <= Len(s)
  BY IncreasingBegins
<1>3. Len(s) \in Nat /\ Len(t) \in Nat
  OBVIOUS
<1> QED
  BY <1>1, <1>2, <1>3, SeqEqual

(* The entries that a sorted one passes are the larger ones. *)
Smaller(done, entry) == {i \in DOMAIN done : ~StringBefore(entry.path, done[i].path)}

(* An entry more is a sequence of entries. *)
LEMMA InsertedType ==
  \A done \in Seq(FileEntries), entry \in FileEntries : Inserted(done, entry) \in Seq(FileEntries)
<1> SUFFICES ASSUME NEW done \in Seq(FileEntries), NEW entry \in FileEntries
             PROVE  Inserted(done, entry) \in Seq(FileEntries)
  OBVIOUS
<1>0. PICK n \in Nat : n = Len(done)
  OBVIOUS
<1>1. PICK B : n = Len(done) /\ B = Smaller(done, entry)
  BY <1>0
<1>2. B \subseteq 1..n
  BY <1>1 DEF Smaller
<1>3. PICK k \in 0..n : k = Cardinality(B)
  <2>1. IsFiniteSet(1..n) /\ Cardinality(1..n) <= n /\ Cardinality(1..n) \in Nat
    <3>1. 1 \in Int /\ n \in Int
      OBVIOUS
    <3>2. IsFiniteSet(1..n) /\ Cardinality(1..n) = IF 1 > n THEN 0 ELSE n - 1 + 1
      BY <3>1, FS_Interval
    <3> QED
      BY <3>2
  <2>2. IsFiniteSet(B) /\ Cardinality(B) <= Cardinality(1..n)
    BY <1>2, <2>1, FS_Subset
  <2>3. Cardinality(B) \in Nat
    BY <2>2, FS_CardinalityType
  <2>4. Cardinality(B) \in 0..n
    BY <2>1, <2>2, <2>3
  <2> QED
    BY <2>4
<1>4. Inserted(done, entry) = InsertAt(done, k + 1, entry)
  BY <1>1, <1>3 DEF Inserted, Smaller
<1> QED
  BY <1>1, <1>4, InsertAtReads

(* Sorted inserts one entry after another. *)
LEMMA SortedReads ==
  ASSUME NEW entries \in Seq(FileEntries)
  PROVE  \E f \in [0..Len(entries) -> Seq(FileEntries)] :
           /\ f[0] = <<>> /\ \A m \in 1..Len(entries) : f[m] = Inserted(f[m - 1], entries[m])
           /\ Sorted(entries) = f[Len(entries)]
<1> DEFINE Equation(f) == f = [m \in 0..Len(entries) |->
             IF m = 0 THEN <<>> ELSE Inserted(f[m - 1], entries[m])]
<1>0. Len(entries) \in Nat /\ (\A m \in 1..Len(entries) : entries[m] \in FileEntries) /\ <<>> \in Seq(FileEntries)
  OBVIOUS
<1>1. PICK n \in Nat : n = Len(entries) /\ 0 <= n /\ \A m \in 1..n : entries[m] \in FileEntries
  BY <1>0
<1>2. PICK S, base : S = Seq(FileEntries) /\ base = <<>> /\ base \in S
  BY <1>0
<1>3. \A x \in S, m \in 1..n : Inserted(x, entries[m]) \in S
  BY <1>1, <1>2, InsertedType
<1>4. PICK step : step = [x \in S \X (0..n) |-> IF x[2] = 0 THEN base ELSE Inserted(x[1], entries[x[2]])]
  OBVIOUS
<1>5. \A x \in S, m \in 1..n : step[<<x, m>>] = Inserted(x, entries[m])
  <2>1. \A x \in S, m \in 1..n : <<x, m>> \in S \X (0..n) /\ m # 0
    BY <1>1
  <2> QED
    BY <1>4, <2>1
<1>6. step \in [S \X (0..n) -> S]
  <2>1. \A x \in S \X (0..n) : x[1] \in S /\ (x[2] = 0 \/ x[2] \in 1..n)
    BY <1>1
  <2> QED
    BY <1>2, <1>3, <1>4, <2>1
<1>7. PICK f \in [0..n -> S] : /\ Follows(f, 0, n, base, step)
                              /\ \A g : Steps(g, 0, n, base, S, step) => g = f
  <2>1. 0 \in Nat /\ 0 <= n
    BY <1>1
  <2> QED
    BY <1>1, <1>2, <1>6, <2>1, Recursion
<1>8. f[0] = <<>> /\ \A m \in 1..n : f[m] = Inserted(f[m - 1], entries[m])
  <2>1. \A m \in 1..n : f[m - 1] \in S
    <3>1. \A m \in 1..n : m - 1 \in 0..n
      BY <1>1
    <3> QED
      BY <3>1
  <2>2. \A m \in 1..n : f[m] = step[<<f[m - 1], m>>]
    BY <1>7 DEF Follows
  <2> QED
    BY <1>2, <1>5, <1>7, <2>1, <2>2 DEF Follows
<1>9. \A h : Equation(h) <=>
        h = [m \in 0..n |-> IF m = 0 THEN <<>> ELSE Inserted(h[m - 1], entries[m])]
  BY <1>1
<1>10. Equation(f)
  <2>1. \A m \in 0..n : m = 0 \/ m \in 1..n
    BY <1>1
  <2>2. f = [m \in 0..n |-> IF m = 0 THEN <<>> ELSE Inserted(f[m - 1], entries[m])]
    BY <1>7, <1>8, <2>1
  <2> QED
    BY <1>9, <2>2
<1> HIDE DEF Equation
<1>11. PICK g : g = (CHOOSE h : Equation(h))
  OBVIOUS
<1>12. g = [m \in 0..n |-> IF m = 0 THEN <<>> ELSE Inserted(g[m - 1], entries[m])]
  BY <1>9, <1>10, <1>11
<1>13. Steps(g, 0, n, base, S, step)
  <2>1. 0 \in 0..n /\ \A m \in 1..n : m # 0 /\ m \in 0..n
    BY <1>1
  <2>2. OnAll(g, 0, n) /\ g[0] = base
    BY <1>2, <1>12, <2>1 DEF OnAll
  <2>3. \A m \in 1..n : g[m] = Inserted(g[m - 1], entries[m])
    BY <1>12, <2>1
  <2>4. \A m \in 1..n : g[m - 1] \in S => g[m] = step[<<g[m - 1], m>>]
    BY <1>5, <2>3
  <2> QED
    BY <2>2, <2>4 DEF Steps
<1>14. Sorted(entries) = f[n]
  BY <1>1, <1>7, <1>11, <1>13 DEF Sorted, Equation
<1> QED
  BY <1>1, <1>2, <1>7, <1>8, <1>14

(* An entry of a new path goes where the order has it. *)
LEMMA InsertedIncreases ==
  ASSUME NEW done \in Seq(FileEntries), NEW entry \in FileEntries, Increasing(done),
         \A i \in DOMAIN done : done[i].path # entry.path
  PROVE  /\ Increasing(Inserted(done, entry))
         /\ ToSet(Inserted(done, entry)) = ToSet(done) \cup {entry}
<1>0. PICK n \in Nat : n = Len(done)
  OBVIOUS
<1>1. PICK B : n = Len(done) /\ B = Smaller(done, entry)
  BY <1>0
<1>2. DOMAIN done = 1..n /\ \A i \in 1..n : done[i] \in FileEntries
  BY <1>1
<1>3. \A i, j \in 1..n : i < j => StringBefore(done[i].path, done[j].path)
  BY <1>2 DEF Increasing
<1>4. entry.path \in Seq(Nat) /\ \A i \in 1..n : done[i].path \in Seq(Nat)
  BY <1>2, PathType
<1>5. \A i \in 1..n : i \in B <=> StringBefore(done[i].path, entry.path)
  <2>1. \A i \in 1..n : i \in B <=> ~StringBefore(entry.path, done[i].path)
    BY <1>1, <1>2 DEF Smaller
  <2>2. \A i \in 1..n : done[i].path # entry.path
    BY <1>2
  <2> QED
    BY <1>4, <2>1, <2>2, StringsCompare
<1>6. PICK k \in 0..n : k = Cardinality(B) /\ B = 1..k
  <2>1. B \subseteq 1..n
    BY <1>1 DEF Smaller
  <2>2. ASSUME NEW i \in B, NEW j \in 1..n, j < i PROVE j \in B
    <3>1. i \in 1..n /\ StringBefore(done[i].path, entry.path)
      BY <1>5, <2>1
    <3>2. StringBefore(done[j].path, done[i].path)
      BY <1>3, <2>2, <3>1
    <3>3. done[j].path \in Seq(Nat) /\ done[i].path \in Seq(Nat) /\ entry.path \in Seq(Nat)
      BY <1>4, <3>1
    <3>4. StringBefore(done[j].path, entry.path)
      BY <3>1, <3>2, <3>3, StringsCompare
    <3> QED
      BY <1>5, <3>4
  <2> QED
    BY <2>1, <2>2, FirstOnes
<1>7. PICK t \in Seq(FileEntries) :
        /\ t = Inserted(done, entry) /\ Len(t) = n + 1
        /\ (\A i \in 1..k : t[i] = done[i]) /\ t[k + 1] = entry
        /\ \A i \in (k + 1)..n : t[i + 1] = done[i]
  <2>1. Inserted(done, entry) = InsertAt(done, k + 1, entry)
    BY <1>1, <1>6 DEF Inserted, Smaller
  <2>2. PICK t : t = InsertAt(done, k + 1, entry)
    OBVIOUS
  <2>3. /\ t \in Seq(FileEntries) /\ Len(t) = n + 1
        /\ (\A i \in 1..k : t[i] = done[i]) /\ t[k + 1] = entry
        /\ \A i \in (k + 1)..n : t[i + 1] = done[i]
    <3>1. n = Len(done)
      BY <1>1
    <3>2. /\ InsertAt(done, k + 1, entry) \in Seq(FileEntries)
          /\ Len(InsertAt(done, k + 1, entry)) = n + 1
          /\ \A i \in 1..k : InsertAt(done, k + 1, entry)[i] = done[i]
          /\ InsertAt(done, k + 1, entry)[k + 1] = entry
          /\ \A i \in (k + 1)..n : InsertAt(done, k + 1, entry)[i + 1] = done[i]
      <4>1. InsertAt(done, k + 1, entry) \in Seq(FileEntries)
        BY <3>1, InsertAtReads
      <4>2. Len(InsertAt(done, k + 1, entry)) = n + 1
        BY <3>1, InsertAtReads
      <4>3. \A i \in 1..k : InsertAt(done, k + 1, entry)[i] = done[i]
        BY <3>1, InsertAtReads
      <4>4. InsertAt(done, k + 1, entry)[k + 1] = entry
        BY <3>1, InsertAtReads
      <4>5. \A i \in (k + 1)..n : InsertAt(done, k + 1, entry)[i + 1] = done[i]
        BY <3>1, InsertAtReads
      <4> QED
        BY <4>1, <4>2, <4>3, <4>4, <4>5
    <3> QED
      BY <2>2, <3>2
  <2> QED
    BY <2>1, <2>2, <2>3
<1>8. DOMAIN t = 1..(n + 1)
  BY <1>7
<1>9. \A i \in 1..(n + 1) :
        \/ i \in 1..k /\ t[i] = done[i] /\ i \in 1..n
        \/ i = k + 1 /\ t[i] = entry
        \/ i - 1 \in (k + 1)..n /\ t[i] = done[i - 1] /\ i - 1 \in 1..n
  <2> SUFFICES ASSUME NEW i \in 1..(n + 1), i \notin 1..k, i # k + 1
               PROVE  i - 1 \in (k + 1)..n /\ t[i] = done[i - 1] /\ i - 1 \in 1..n
    BY <1>7
  <2>1. i - 1 \in (k + 1)..n /\ (i - 1) + 1 = i /\ i - 1 \in 1..n
    OBVIOUS
  <2> QED
    BY <1>7, <2>1
<1>10. \A i \in 1..n : i \in 1..k \/ StringBefore(entry.path, done[i].path)
  <2>1. \A i \in 1..n : i \in B \/ StringBefore(entry.path, done[i].path)
    BY <1>1, <1>2 DEF Smaller
  <2> QED
    BY <1>6, <2>1
<1>11. Increasing(t)
  <2> SUFFICES ASSUME NEW i \in 1..(n + 1), NEW j \in 1..(n + 1), i < j
               PROVE  StringBefore(t[i].path, t[j].path)
    BY <1>8 DEF Increasing
  <2>1. CASE i \in 1..k
    <3>1. t[i] = done[i] /\ i \in 1..n /\ StringBefore(done[i].path, entry.path)
      <4>0. i \in 1..n
        BY <2>1
      <4>1. i \in 1..n /\ i \in B
        BY <1>6, <2>1, <4>0
      <4> QED
        BY <1>5, <1>7, <2>1, <4>1
    <3>2. CASE j = k + 1
      BY <1>7, <3>1, <3>2
    <3>3. CASE j \in 1..k
      BY <1>3, <1>7, <3>1, <3>3
    <3>4. CASE j - 1 \in (k + 1)..n /\ t[j] = done[j - 1] /\ j - 1 \in 1..n
      <4>1. i < j - 1
        BY <2>1, <3>4
      <4> QED
        BY <1>3, <3>1, <3>4, <4>1
    <3> QED
      BY <1>9, <3>2, <3>3, <3>4
  <2>2. CASE i = k + 1
    <3>1. t[i] = entry /\ j \notin 1..k /\ j # k + 1
      BY <1>7, <2>2
    <3>2. j - 1 \in (k + 1)..n /\ t[j] = done[j - 1] /\ j - 1 \in 1..n
      BY <1>9, <3>1
    <3>3. j - 1 \notin 1..k
      BY <3>2
    <3> QED
      BY <1>10, <3>1, <3>2, <3>3
  <2>3. CASE i - 1 \in (k + 1)..n /\ t[i] = done[i - 1] /\ i - 1 \in 1..n
    <3>1. j \notin 1..k /\ j # k + 1 /\ i - 1 < j - 1
      BY <2>3
    <3>2. t[j] = done[j - 1] /\ j - 1 \in 1..n
      BY <1>9, <3>1
    <3> QED
      BY <1>3, <2>3, <3>1, <3>2
  <2> QED
    BY <1>9, <2>1, <2>2, <2>3
<1>12. ToSet(t) = ToSet(done) \cup {entry}
  <2>1. ToSet(t) = {t[i] : i \in 1..(n + 1)} /\ ToSet(done) = {done[i] : i \in 1..n}
    BY <1>2, <1>8 DEF ToSet
  <2>2. \A i \in 1..(n + 1) : t[i] \in {done[j] : j \in 1..n} \cup {entry}
    BY <1>9
  <2>3. k + 1 \in 1..(n + 1)
    OBVIOUS
  <2>4. ASSUME NEW i \in 1..n PROVE done[i] \in {t[j] : j \in 1..(n + 1)}
    <3>1. CASE i \in 1..k
      <4>1. i \in 1..(n + 1) /\ t[i] = done[i]
        BY <1>7, <3>1
      <4> QED
        BY <4>1
    <3>2. CASE i \in (k + 1)..n
      <4>1. i + 1 \in 1..(n + 1) /\ t[i + 1] = done[i]
        BY <1>7, <3>2
      <4> QED
        BY <4>1
    <3> QED
      BY <3>1, <3>2
  <2>5. entry \in {t[j] : j \in 1..(n + 1)}
    BY <1>7, <2>3
  <2>6. {t[i] : i \in 1..(n + 1)} = {done[i] : i \in 1..n} \cup {entry}
    BY <2>2, <2>4, <2>5
  <2> QED
    BY <2>1, <2>6
<1> QED
  BY <1>7, <1>11, <1>12

(* Entries of different paths are put in order, none lost and none added. *)
LEMMA SortedIncreases ==
  ASSUME NEW entries \in Seq(FileEntries),
         \A i, j \in DOMAIN entries : i # j => entries[i].path # entries[j].path
  PROVE  /\ Sorted(entries) \in Seq(FileEntries) /\ Increasing(Sorted(entries))
         /\ ToSet(Sorted(entries)) = ToSet(entries)
<1>1. PICK n \in Nat : n = Len(entries) /\ DOMAIN entries = 1..n /\ \A i \in 1..n : entries[i] \in FileEntries
  OBVIOUS
<1>2. PICK f \in [0..n -> Seq(FileEntries)] :
        /\ f[0] = <<>> /\ \A m \in 1..n : f[m] = Inserted(f[m - 1], entries[m])
        /\ Sorted(entries) = f[n]
  BY <1>1, SortedReads
<1> DEFINE T == {m \in 0..n : Increasing(f[m]) /\ ToSet(f[m]) = {entries[i] : i \in 1..m}}
<1>3. 0 \in T
  BY <1>2 DEF Increasing, ToSet
<1>4. \A m \in 0..(n - 1) : m \in T => m + 1 \in T
  <2> SUFFICES ASSUME NEW m \in 0..(n - 1), Increasing(f[m]), ToSet(f[m]) = {entries[i] : i \in 1..m}
               PROVE  /\ m + 1 \in 0..n /\ Increasing(f[m + 1])
                      /\ ToSet(f[m + 1]) = {entries[i] : i \in 1..(m + 1)}
    OBVIOUS
  <2>1. PICK l \in 1..n : l = m + 1 /\ l - 1 = m /\ m \in 0..n /\ l \in 0..n
    <3>1. m + 1 \in 1..n /\ (m + 1) - 1 = m /\ m \in 0..n /\ m + 1 \in 0..n
      OBVIOUS
    <3> QED
      BY <3>1
  <2>2. PICK s \in Seq(FileEntries), e \in FileEntries : s = f[m] /\ e = entries[l]
    BY <1>1, <2>1
  <2>3. f[l] = Inserted(s, e)
    BY <1>2, <2>1, <2>2
  <2>4. \A i \in DOMAIN s : s[i].path # e.path
    <3> SUFFICES ASSUME NEW i \in DOMAIN s PROVE s[i].path # e.path
      OBVIOUS
    <3>1. s[i] \in {entries[j] : j \in 1..m}
      BY <2>2 DEF ToSet
    <3>2. PICK j \in 1..m : s[i] = entries[j]
      BY <3>1
    <3>3. j \in 1..n /\ j # l
      BY <2>1
    <3> QED
      BY <1>1, <2>2, <3>2, <3>3
  <2>5. Increasing(f[l]) /\ ToSet(f[l]) = {entries[i] : i \in 1..m} \cup {e}
    BY <2>2, <2>3, <2>4, InsertedIncreases
  <2>6. 1..l = 1..m \cup {l}
    BY <2>1
  <2>7. {entries[i] : i \in 1..l} = {entries[i] : i \in 1..m} \cup {e}
    BY <2>2, <2>6
  <2> QED
    BY <2>1, <2>5, <2>7
<1>5. n \in T
  <2> HIDE DEF T
  <2>1. 0..n \subseteq T
    BY <1>3, <1>4, OneByOne
  <2> QED
    BY <2>1
<1>6. ToSet(entries) = {entries[i] : i \in 1..n}
  BY <1>1 DEF ToSet
<1> QED
  BY <1>2, <1>5, <1>6

-----------------------------------------------------------------------------
(* From a directory to what is hashed of it. *)

(* A directory's files: finitely many, at paths, of bytes. *)
FileSet(files) ==
  /\ files \in [DOMAIN files -> Seq(Nat)]
  /\ DOMAIN files \subseteq Paths /\ IsFiniteSet(DOMAIN files)

(* The paths of a task directory are sequences of names. *)
LEMMA PathsArePaths ==
  \A p \in Paths : p \in Seq(FileNames) /\ p # <<>> /\ p \in Seq(Seq(Nat))
<1>1. FileNames \subseteq Seq(Nat)
  BY DEF FileNames
<1>2. Seq(FileNames) \subseteq Seq(Seq(Nat))
  BY <1>1
<1> QED
  BY <1>2, MaterialAssumption DEF MaterialAssumption

(* What is hashed of a file is an entry. *)
LEMMA EntryType ==
  ASSUME NEW p \in Paths, NEW d \in Seq(Nat)
  PROVE  FileEntry(p, d) \in FileEntries
<1>1. Joined(p) \in Seq(Bytes)
  <2>1. p \in Seq(FileNames) /\ p # <<>>
    BY PathsArePaths
  <2>2. \E f \in [1..Len(p) -> Seq(Nat)] : NamesIn(p, f, Len(p))
    BY <2>1, NamesJoined
  <2> QED
    BY <2>2 DEF NamesIn
<1>2. LineFeeds(d) \in Seq(Nat)
  <2>1. Len(d) \in Nat /\ Len(d) \in 0..Len(d)
    OBVIOUS
  <2> QED
    BY <2>1, LineFeedsReads
<1>3. Normalised(p, d) \in Seq(Nat)
  BY <1>2 DEF Normalised
<1> QED
  BY <1>1, <1>3 DEF FileEntry, FileEntries

(* Walk meets each material once. *)
LEMMA WalkMeetsMaterial ==
  ASSUME NEW files, FileSet(files)
  PROVE  /\ Walk(files) \in Seq(FileEntries) /\ ToSet(Walk(files)) = Material(files)
         /\ \A i, j \in DOMAIN Walk(files) : i # j => Walk(files)[i].path # Walk(files)[j].path
<1>1. PICK met : met = Met(files) /\ met \subseteq DOMAIN files /\ met \subseteq Paths
  BY DEF FileSet, Met
<1>2. IsFiniteSet(met)
  BY <1>1, FS_Subset DEF FileSet
<1>3. StrictOrder(PathPairs, met)
  <2>1. met \subseteq Seq(Seq(Nat))
    BY <1>1, PathsArePaths
  <2> QED
    BY <2>1, PathsOrdered DEF StrictOrder
<1>4. \A q \in met : Cardinality({r \in met : PathBefore(r, q)}) = Rank(PathPairs, met, q)
  <2> SUFFICES ASSUME NEW q \in met
               PROVE  {r \in met : PathBefore(r, q)} = {r \in met : <<r, q>> \in PathPairs}
    BY DEF Rank
  <2>1. \A r \in met : r \in Seq(Seq(Nat)) /\ q \in Seq(Seq(Nat))
    BY <1>1, PathsArePaths
  <2> QED
    BY <2>1 DEF PathPairs
<1>5. PICK n \in Nat : n = Cardinality(met)
  BY <1>2, FS_CardinalityType
<1>6. /\ \A p \in met : Rank(PathPairs, met, p) + 1 \in 1..n
      /\ \A p, q \in met : Rank(PathPairs, met, p) = Rank(PathPairs, met, q) => p = q
      /\ \A i \in 1..n : \E p \in met : Rank(PathPairs, met, p) = i - 1
  BY <1>2, <1>3, <1>5, Ranked
<1> DEFINE at(i) == CHOOSE q \in met : Cardinality({r \in met : PathBefore(r, q)}) = i - 1
<1>7. \A i \in 1..n : at(i) \in met /\ Rank(PathPairs, met, at(i)) = i - 1
  <2> SUFFICES ASSUME NEW i \in 1..n PROVE at(i) \in met /\ Rank(PathPairs, met, at(i)) = i - 1
    OBVIOUS
  <2>1. \E q \in met : Cardinality({r \in met : PathBefore(r, q)}) = i - 1
    BY <1>4, <1>6
  <2>2. at(i) \in met /\ Cardinality({r \in met : PathBefore(r, at(i))}) = i - 1
    BY <2>1
  <2> QED
    BY <1>4, <2>2
<1>8. Walk(files) = [i \in 1..n |-> FileEntry(at(i), files[at(i)])]
  BY <1>1, <1>5 DEF Walk
<1> HIDE DEF at
<1>9. \A p \in met : files[p] \in Seq(Nat) /\ FileEntry(p, files[p]) \in FileEntries
  <2>1. \A p \in met : p \in Paths /\ files[p] \in Seq(Nat)
    BY <1>1 DEF FileSet
  <2> QED
    BY <2>1, EntryType
<1>10. PICK w \in Seq(FileEntries) :
         /\ w = Walk(files) /\ DOMAIN w = 1..n
         /\ \A i \in 1..n : w[i] = FileEntry(at(i), files[at(i)])
  <2>1. \A i \in 1..n : FileEntry(at(i), files[at(i)]) \in FileEntries
    BY <1>7, <1>9
  <2>2. [i \in 1..n |-> FileEntry(at(i), files[at(i)])] \in Seq(FileEntries)
    BY <2>1
  <2> QED
    BY <1>8, <2>2
<1>11. ToSet(w) = Material(files)
  <2>1. ToSet(w) = {w[i] : i \in 1..n}
    BY <1>10 DEF ToSet
  <2>2. Material(files) = {FileEntry(p, files[p]) : p \in met}
    BY <1>1 DEF Material
  <2>3. \A i \in 1..n : w[i] \in {FileEntry(p, files[p]) : p \in met}
    BY <1>7, <1>10
  <2>4. ASSUME NEW p \in met PROVE FileEntry(p, files[p]) \in {w[i] : i \in 1..n}
    <3>1. PICK i \in 1..n : i = Rank(PathPairs, met, p) + 1
      BY <1>6
    <3>2. Rank(PathPairs, met, p) = i - 1
      <4>1. Rank(PathPairs, met, p) \in Nat
        <5>1. IsFiniteSet({q \in met : <<q, p>> \in PathPairs})
          BY <1>2, FS_Subset
        <5> QED
          BY <5>1, FS_CardinalityType DEF Rank
      <4> QED
        BY <3>1, <4>1
    <3>3. at(i) = p
      BY <1>6, <1>7, <3>2
    <3> QED
      BY <1>10, <3>3
  <2> QED
    BY <2>1, <2>2, <2>3, <2>4
<1>12. ASSUME NEW i \in 1..n, NEW j \in 1..n, i # j PROVE w[i].path # w[j].path
  <2>1. at(i) # at(j)
    BY <1>7, <1>12
  <2>2. at(i) \in Paths /\ at(j) \in Paths
    BY <1>1, <1>7
  <2>3. Joined(at(i)) # Joined(at(j))
    BY <2>1, <2>2, PathsArePaths, JoinedInjective
  <2> QED
    BY <1>10, <2>3 DEF FileEntry
<1> QED
  BY <1>10, <1>11, <1>12

(* Sorted, the entries of Walk are the materials in order of path. *)
LEMMA EntriesAreMaterial ==
  ASSUME NEW files, FileSet(files)
  PROVE  /\ Sorted(Walk(files)) \in Seq(FileEntries) /\ Increasing(Sorted(Walk(files)))
         /\ ToSet(Sorted(Walk(files))) = Material(files)
BY WalkMeetsMaterial, SortedIncreases

(* The bytes that are hashed are the same when the materials are. *)
LEMMA HashedIsMaterial ==
  ASSUME NEW files, FileSet(files), NEW others, FileSet(others)
  PROVE  AllHashed(Sorted(Walk(files))) = AllHashed(Sorted(Walk(others))) <=> Material(files) = Material(others)
<1>1. PICK s \in Seq(FileEntries), t \in Seq(FileEntries) :
        /\ s = Sorted(Walk(files)) /\ t = Sorted(Walk(others)) /\ Increasing(s) /\ Increasing(t)
        /\ ToSet(s) = Material(files) /\ ToSet(t) = Material(others)
  BY EntriesAreMaterial
<1>2. ASSUME AllHashed(s) = AllHashed(t) PROVE ToSet(s) = ToSet(t)
  BY <1>2, AllHashedOnce
<1>3. ASSUME ToSet(s) = ToSet(t) PROVE s = t
  BY <1>1, <1>3, OneIncreasing
<1> QED
  BY <1>1, <1>2, <1>3

-----------------------------------------------------------------------------
(* The working copy. *)

(* A copy that nobody has edited has the committed materials. *)
MaterialInv ==
  /\ FileSet(tree) /\ FileSet(copy)
  /\ stage \in {"commit", "out"} /\ copyEdits \in Nat
  /\ stage = "commit" => links = {}
  /\ stage = "out" /\ copyEdits = 0 =>
       Material(copy) = Material(tree) /\ \A p \in links : Skipped(p)

(* A file more, or one with other bytes, and one less. *)
LEMMA FileSetChanges ==
  ASSUME NEW files, FileSet(files), NEW p \in Paths
  PROVE  /\ \A data \in Seq(Nat) : FileSet(With(files, p, data))
         /\ FileSet(Restrict(files, DOMAIN files \ {p}))
<1>1. ASSUME NEW data \in Seq(Nat) PROVE FileSet(With(files, p, data))
  <2>1. PICK S : S = DOMAIN files \cup {p} /\ IsFiniteSet(S) /\ S \subseteq Paths
    <3>1. PICK D : D = DOMAIN files /\ IsFiniteSet(D) /\ D \subseteq Paths
      BY DEF FileSet
    <3>2. IsFiniteSet(D \cup {p})
      BY <3>1, FS_AddElement
    <3> QED
      BY <3>1, <3>2
  <2>2. With(files, p, data) = [q \in S |-> IF q = p THEN data ELSE files[q]]
    BY <2>1 DEF With
  <2>3. \A q \in S : (IF q = p THEN data ELSE files[q]) \in Seq(Nat)
    BY <2>1 DEF FileSet
  <2> QED
    BY <2>1, <2>2, <2>3 DEF FileSet
<1>2. FileSet(Restrict(files, DOMAIN files \ {p}))
  <2>1. PICK S : S = DOMAIN files \ {p} /\ IsFiniteSet(S) /\ S \subseteq DOMAIN files
    <3>1. PICK D : D = DOMAIN files /\ IsFiniteSet(D)
      BY DEF FileSet
    <3>2. IsFiniteSet(D \ {p})
      BY <3>1, FS_RemoveElement
    <3> QED
      BY <3>1, <3>2
  <2>2. Restrict(files, S) = [q \in S |-> files[q]]
    BY DEF Restrict
  <2> QED
    BY <2>1, <2>2 DEF FileSet
<1> QED
  BY <1>1, <1>2

(* MaterialInv holds at first. *)
LEMMA MaterialInitInv == MaterialInit => MaterialInv
<1> SUFFICES ASSUME MaterialInit PROVE MaterialInv
  OBVIOUS
<1>1. ASSUME NEW files, files = <<>> PROVE FileSet(files)
  <2>1. DOMAIN files = {} /\ files = [p \in {} |-> files[p]]
    BY <1>1
  <2> QED
    BY <2>1, FS_EmptySet DEF FileSet
<1> QED
  BY <1>1 DEF MaterialInit, MaterialInv

(* Every step of the working copy keeps it. *)
LEMMA MaterialNextInv == MaterialInv /\ [MaterialNext]_materialVars => MaterialInv'
<1> SUFFICES ASSUME MaterialInv, [MaterialNext]_materialVars PROVE MaterialInv'
  OBVIOUS
<1>0. UNCHANGED materialVars => MaterialInv'
  BY DEF materialVars, MaterialInv, FileSet, Material, Met
<1>1. CASE Commit
  <2>1. PICK p \in Paths, data \in Contents : tree' = With(tree, p, data)
    BY <1>1 DEF Commit
  <2>2. data \in Seq(Nat)
    BY MaterialAssumption DEF MaterialAssumption
  <2>3. FileSet(tree')
    BY <2>1, <2>2, FileSetChanges DEF MaterialInv
  <2> QED
    BY <1>1, <2>3 DEF Commit, MaterialInv, FileSet
<1>2. CASE CheckOut
  <2>1. PICK crlf \in BOOLEAN :
          copy' = [p \in DOMAIN tree |->
                    IF crlf /\ IsText(p) THEN CarriageReturns(tree[p]) ELSE tree[p]]
    BY <1>2 DEF CheckOut
  <2>2. DOMAIN copy' = DOMAIN tree /\ tree' = tree
    BY <1>2, <2>1 DEF CheckOut
  <2>3. ASSUME NEW p \in DOMAIN tree
        PROVE  copy'[p] \in Seq(Nat) /\ FileEntry(p, copy'[p]) = FileEntry(p, tree[p])
    <3>1. PICK d \in Seq(Nat) : d = tree[p]
      BY DEF MaterialInv, FileSet
    <3>2. CASE crlf /\ IsText(p)
      <4>1. copy'[p] = CarriageReturns(d)
        BY <2>1, <3>1, <3>2
      <4>2. CASE CR \in ToSet(d)
        BY <3>1, <4>1, <4>2 DEF CarriageReturns
      <4>3. CASE CR \notin ToSet(d)
        <5>1. CarriageReturns(d) \in Seq(Nat) /\ LineFeeds(CarriageReturns(d)) = LineFeeds(d)
          BY <4>3, LineFeedsUndo
        <5> QED
          BY <3>1, <3>2, <4>1, <5>1 DEF FileEntry, Normalised
      <4> QED
        BY <4>2, <4>3
    <3>3. CASE ~(crlf /\ IsText(p))
      BY <2>1, <3>1, <3>3
    <3> QED
      BY <3>2, <3>3
  <2>4. FileSet(copy')
    <3>1. copy' \in [DOMAIN tree -> Seq(Nat)]
      BY <2>1, <2>3
    <3> QED
      BY <2>2, <3>1 DEF MaterialInv, FileSet
  <2>5. Met(copy') = Met(tree) /\ Met(tree) \subseteq DOMAIN tree
    BY <2>2 DEF Met
  <2>6. Material(copy') = Material(tree)
    BY <2>3, <2>5 DEF Material
  <2>7. Material(copy)' = Material(tree)'
    BY <2>2, <2>6 DEF Material, Met
  <2>8. FileSet(tree)' /\ FileSet(copy)'
    BY <2>2, <2>4 DEF MaterialInv, FileSet
  <2>9. links' = {} /\ stage' = "out" /\ copyEdits' \in Nat
    BY <1>2 DEF CheckOut, MaterialInv
  <2> QED
    BY <2>7, <2>8, <2>9 DEF MaterialInv
<1>3. CASE Generate
  <2>1. PICK p \in Paths \ DOMAIN copy :
          /\ Skipped(p) /\ copy' = With(copy, p, <<>>)
          /\ links' \in {links, links \cup {p}}
    BY <1>3 DEF Generate
  <2>2. FileSet(copy')
    <3>1. <<>> \in Seq(Nat) /\ p \in Paths /\ FileSet(copy)
      BY DEF MaterialInv
    <3>2. FileSet(With(copy, p, <<>>))
      BY <3>1, FileSetChanges
    <3> QED
      BY <2>1, <3>2
  <2>3. DOMAIN copy' = DOMAIN copy \cup {p} /\ \A q \in DOMAIN copy : copy'[q] = copy[q]
    BY <2>1 DEF With
  <2>4. Met(copy') = Met(copy) /\ Met(copy) \subseteq DOMAIN copy
    BY <2>1, <2>3 DEF Met
  <2>5. Material(copy') = Material(copy)
    BY <2>3, <2>4 DEF Material
  <2>6. Material(copy)' = Material(copy) /\ Material(tree)' = Material(tree)
    BY <1>3, <2>5 DEF Generate, Material, Met
  <2>7. FileSet(tree)' /\ FileSet(copy)'
    BY <1>3, <2>2 DEF Generate, MaterialInv, FileSet
  <2> QED
    BY <1>3, <2>1, <2>6, <2>7 DEF Generate, MaterialInv
<1>4. CASE Edit
  <2>1. PICK p \in Paths :
          \/ \E data \in Contents : copy' = With(copy, p, data)
          \/ copy' = Restrict(copy, DOMAIN copy \ {p})
    BY <1>4 DEF Edit
  <2>2. \A data \in Contents : data \in Seq(Nat)
    BY MaterialAssumption DEF MaterialAssumption
  <2>3. FileSet(copy')
    BY <2>1, <2>2, FileSetChanges DEF MaterialInv
  <2>4. FileSet(tree)' /\ FileSet(copy)'
    BY <1>4, <2>3 DEF Edit, MaterialInv, FileSet
  <2>5. stage' = "out" /\ copyEdits' \in Nat /\ copyEdits' # 0
    BY <1>4 DEF Edit, MaterialInv
  <2> QED
    BY <2>4, <2>5 DEF MaterialInv
<1> QED
  BY <1>0, <1>1, <1>2, <1>3, <1>4 DEF MaterialNext

(* Hence it always holds (internal/catalog/catalog.go, Digest). *)
THEOREM MaterialSafe == MaterialSpec => []MaterialInv
<1> QED
  BY MaterialInitInv, MaterialNextInv, PTL DEF MaterialSpec

(* Two directories have one digest exactly when they have the same          *)
(* materials: the path, the length and the bytes of each file can be read   *)
(* back from what is hashed (catalog.go, Digest), however many files there  *)
(* are and whatever is in them.                                             *)
THEOREM DigestsIdentify == MaterialSpec => []DigestIdentifiesMaterials
<1>1. MaterialInv => DigestIdentifiesMaterials
  <2> SUFFICES ASSUME MaterialInv, stage = "out", \A p \in links : Skipped(p)
               PROVE  Digest(copy, links) = Digest(tree, {}) <=> Material(copy) = Material(tree)
    BY DEF DigestIdentifiesMaterials
  <2>1. /\ Digest(copy, links) = AllHashed(Sorted(Walk(copy)))
        /\ Digest(tree, {}) = AllHashed(Sorted(Walk(tree)))
    BY DEF Digest
  <2> QED
    BY <2>1, HashedIsMaterial DEF MaterialInv
<1> QED
  BY <1>1, MaterialSafe, PTL

(* A checkout with either line ending, with what Python and git write in    *)
(* directories of their own, has the digest that was committed              *)
(* (catalog.go, isTextMaterial and the skipped directories).                *)
THEOREM CheckoutsKeepDigest == MaterialSpec => []CheckoutKeepsDigest
<1>1. MaterialInv => CheckoutKeepsDigest
  <2> SUFFICES ASSUME MaterialInv, stage = "out", copyEdits = 0
               PROVE  Digest(copy, links) = Digest(tree, {})
    BY DEF CheckoutKeepsDigest
  <2>1. /\ Digest(copy, links) = AllHashed(Sorted(Walk(copy)))
        /\ Digest(tree, {}) = AllHashed(Sorted(Walk(tree)))
    BY DEF Digest, MaterialInv
  <2> QED
    BY <2>1, HashedIsMaterial DEF MaterialInv
<1> QED
  BY <1>1, MaterialSafe, PTL

(* The insertion sort of Digest puts the entries of Walk, each of them once,*)
(* in order of their path.                                                  *)
THEOREM DigestsInPathOrder == MaterialSpec => []DigestInPathOrder
<1>1. MaterialInv => DigestInPathOrder
  BY EntriesAreMaterial DEF MaterialInv, DigestInPathOrder, Increasing
<1> QED
  BY <1>1, MaterialSafe, PTL
=============================================================================
