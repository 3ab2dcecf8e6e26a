--------------------------- MODULE EventLoopProofs --------------------------
(* Proofs about the components whose handlers run on one event loop: the    *)
(* impersonator's client and its callers (Impersonator), and the channel    *)
(* with its pipes and its socket (Channel).                                 *)
(*                                                                         *)
(* First what recursive functions compute, by induction over the natural    *)
(* numbers, and from it what event_loop::filter_events leaves of a queue.   *)
(* Then, for each of the two components, the operators of its handlers one  *)
(* by one, the handlers made of them, the actions, and the invariant.       *)
EXTENDS Impersonator, Channel, TLAPS, FiniteSetTheorems, SequenceTheorems

LEMMA Least ==
    ASSUME NEW T \in SUBSET Nat, T # {}
    PROVE  \E m \in T : \A k \in T : m <= k
  <1> DEFINE R == OpToRel(<, Nat)
  <1>1. IsWellFoundedOn(R, Nat) BY NatLessThanWellFounded
  <1>2. R = {ss \in Nat \X Nat : ss[1] < ss[2]} BY DEF OpToRel
  <1> HIDE DEF R
  <1>3. PICK m \in T : \A k \in T : <<k, m>> \notin R BY <1>1, WFMin
  <1>4. \A k \in T : ~ (k < m) BY <1>2, <1>3
  <1> QED BY <1>4

LEMMA Induction ==
    ASSUME NEW T \in SUBSET Nat, 0 \in T, \A n \in T : n + 1 \in T
    PROVE  T = Nat
  <1> SUFFICES ASSUME Nat \ T # {} PROVE FALSE OBVIOUS
  <1>1. PICK m \in Nat \ T : \A k \in Nat \ T : m <= k BY Least
  <1>2. m - 1 \in Nat BY <1>1
  <1>3. m - 1 \in T BY <1>1, <1>2
  <1>4. (m - 1) + 1 \in T BY <1>3
  <1> QED BY <1>1, <1>4

\* The functions up to n that start with a and go on as g says.
Approx(S, a, g, n) ==
    {f \in [0..n -> S] : f[0] = a /\ \A i \in 0..(n - 1) : f[i + 1] = g[<<i, f[i]>>]}

LEMMA ApproxExists ==
    ASSUME NEW S, NEW a \in S, NEW g \in [Nat \X S -> S], NEW n \in Nat
    PROVE  Approx(S, a, g, n) # {}
  <1> DEFINE T == {m \in Nat : Approx(S, a, g, m) # {}}
  <1>1. 0 \in T
    <2> DEFINE f == [i \in 0..0 |-> a]
    <2>1. f \in Approx(S, a, g, 0) BY DEF Approx
    <2> QED BY <2>1
  <1>2. ASSUME NEW m \in T PROVE m + 1 \in T
    <2>1. PICK f : f \in Approx(S, a, g, m) BY <1>2
    <2> DEFINE h == [i \in 0..(m + 1) |-> IF i = m + 1 THEN g[<<m, f[m]>>] ELSE f[i]]
    <2>2. f \in [0..m -> S] /\ f[0] = a /\ \A i \in 0..(m - 1) : f[i + 1] = g[<<i, f[i]>>]
      BY <2>1 DEF Approx
    <2>3. m \in 0..m /\ 0 \in 0..m /\ m \in Nat OBVIOUS
    <2>4. f[m] \in S /\ g[<<m, f[m]>>] \in S BY <2>2, <2>3
    <2>5. h \in [0..(m + 1) -> S] BY <2>2, <2>4
    <2>6. h[0] = a BY <2>2, <2>3
    <2>7. ASSUME NEW i \in 0..((m + 1) - 1) PROVE h[i + 1] = g[<<i, h[i]>>]
      <3>1. i \in 0..m /\ i + 1 \in 0..(m + 1) /\ i # m + 1 /\ i \in 0..(m + 1) BY <2>7
      <3>2. h[i] = f[i] BY <3>1
      <3>3. CASE i = m BY <3>2, <3>3, <3>1
      <3>4. CASE i # m
        <4>1. i \in 0..(m - 1) /\ i + 1 # m + 1 BY <3>1, <3>4
        <4>2. h[i + 1] = f[i + 1] BY <3>1, <4>1
        <4> QED BY <4>1, <4>2, <2>2, <3>2
      <3> QED BY <3>3, <3>4
    <2> HIDE DEF h
    <2>8. h \in Approx(S, a, g, m + 1) BY <2>5, <2>6, <2>7 DEF Approx
    <2> QED BY <2>8
  <1> HIDE DEF T
  <1>3. T = Nat
    <2>1. T \in SUBSET Nat BY DEF T
    <2> QED BY <2>1, <1>1, <1>2, Induction
  <1> QED BY <1>3 DEF T

LEMMA ApproxAgree ==
    ASSUME NEW S, NEW a \in S, NEW g \in [Nat \X S -> S], NEW n \in Nat,
           NEW f \in Approx(S, a, g, n), NEW h \in Approx(S, a, g, n + 1), NEW i \in 0..n
    PROVE  f[i] = h[i]
  <1> DEFINE T == {j \in Nat : j \in 0..n => f[j] = h[j]}
  <1>0. /\ f[0] = a /\ \A j \in 0..(n - 1) : f[j + 1] = g[<<j, f[j]>>]
        /\ h[0] = a /\ \A j \in 0..((n + 1) - 1) : h[j + 1] = g[<<j, h[j]>>]
    BY DEF Approx
  <1>1. 0 \in T BY <1>0
  <1>2. ASSUME NEW j \in T PROVE j + 1 \in T
    <2> SUFFICES ASSUME j + 1 \in 0..n PROVE f[j + 1] = h[j + 1] OBVIOUS
    <2>1. j \in 0..n /\ j \in 0..(n - 1) /\ j \in 0..((n + 1) - 1) OBVIOUS
    <2>2. f[j] = h[j] BY <2>1, <1>2
    <2> QED BY <1>0, <2>1, <2>2
  <1> HIDE DEF T
  <1>3. T = Nat
    <2>1. T \in SUBSET Nat BY DEF T
    <2> QED BY <2>1, <1>1, <1>2, Induction
  <1> QED BY <1>3 DEF T

Iterates(f, a, g) == f[0] = a /\ \A n \in Nat : f[n + 1] = g[<<n, f[n]>>]

LEMMA Recursion ==
    ASSUME NEW S, NEW a \in S, NEW g \in [Nat \X S -> S]
    PROVE  \E f \in [Nat -> S] : Iterates(f, a, g)
  <1> DEFINE A(n) == CHOOSE f : f \in Approx(S, a, g, n)
             f    == [n \in Nat |-> A(n)[n]]
  <1>1. \A n \in Nat : A(n) \in Approx(S, a, g, n) BY ApproxExists
  <1> HIDE DEF A
  <1>2. ASSUME NEW n \in Nat PROVE /\ A(n) \in [0..n -> S] /\ A(n)[0] = a
                                   /\ \A i \in 0..(n - 1) : A(n)[i + 1] = g[<<i, A(n)[i]>>]
    BY <1>1 DEF Approx
  <1>3. f \in [Nat -> S]
    <2>1. ASSUME NEW n \in Nat PROVE A(n)[n] \in S
      <3>1. n \in 0..n OBVIOUS
      <3> QED BY <1>2, <3>1
    <2> QED BY <2>1
  <1>4. f[0] = a BY <1>2
  <1>5. ASSUME NEW n \in Nat PROVE f[n + 1] = g[<<n, f[n]>>]
    <2>1. n + 1 \in Nat /\ n \in 0..n /\ n \in 0..((n + 1) - 1) OBVIOUS
    <2>2. A(n)[n] = A(n + 1)[n]
      <3>1. A(n) \in Approx(S, a, g, n) /\ A(n + 1) \in Approx(S, a, g, n + 1) BY <1>1, <2>1
      <3> DEFINE h == A(n)
                 k == A(n + 1)
      <3> HIDE DEF f, h, k
      <3>2. h \in Approx(S, a, g, n) /\ k \in Approx(S, a, g, n + 1) BY <3>1 DEF h, k
      <3>3. h[n] = k[n] BY <3>2, <2>1, ApproxAgree
      <3> QED BY <3>3 DEF h, k
    <2>3. A(n + 1)[n + 1] = g[<<n, A(n + 1)[n]>>] BY <1>2, <2>1
    <2>4. f[n] = A(n)[n] /\ f[n + 1] = A(n + 1)[n + 1] BY <2>1
    <2> QED BY <2>2, <2>3, <2>4
  <1> HIDE DEF f
  <1>6. Iterates(f, a, g) BY <1>4, <1>5 DEF Iterates
  <1> QED BY <1>3, <1>6

\* f is what event_loop::filter_events has kept, event after event.
Kept(f, s, D) ==
    /\ f[0] = <<>>
    /\ \A n \in Nat : f[n + 1] = IF s[n + 1] \in D THEN f[n] ELSE Append(f[n], s[n + 1])

LEMMA FilteredSteps ==
    ASSUME NEW E, NEW s \in Seq(E), NEW D
    PROVE  \E f : Kept(f, s, D) /\ Filtered(s, D) = f[Len(s)]
  <1> DEFINE S == Seq({s[i] : i \in Nat})
             g == [x \in Nat \X S |-> IF s[x[1] + 1] \in D THEN x[2] ELSE Append(x[2], s[x[1] + 1])]
             Is(f) == f = [i \in Nat |-> IF i = 0 THEN <<>>
                                         ELSE IF s[i] \in D THEN f[i - 1]
                                         ELSE Append(f[i - 1], s[i])]
  <1>1. <<>> \in S OBVIOUS
  <1>2. g \in [Nat \X S -> S]
    <2>1. ASSUME NEW n \in Nat, NEW x \in S PROVE Append(x, s[n + 1]) \in S
      <3>1. s[n + 1] \in {s[i] : i \in Nat} OBVIOUS
      <3> QED BY <3>1, SMTT(60)
    <2>2. ASSUME NEW y \in Nat \X S PROVE y[1] \in Nat /\ y[2] \in S OBVIOUS
    <2> HIDE DEF S
    <2> QED BY <2>1, <2>2
  <1> HIDE DEF S
  <1>3. PICK f \in [Nat -> S] : f[0] = <<>> /\ \A n \in Nat : f[n + 1] = g[<<n, f[n]>>]
    <2> DEFINE a == <<>>
    <2>1. a \in S BY <1>1
    <2> HIDE DEF g, a, Is
    <2>2. \E f \in [Nat -> S] : Iterates(f, a, g) BY <2>1, <1>2, Recursion
    <2> QED BY <2>2 DEF a, Iterates
  <1>4. \A n \in Nat : f[n + 1] = IF s[n + 1] \in D THEN f[n] ELSE Append(f[n], s[n + 1])
    <2> TAKE n \in Nat
    <2>1. <<n, f[n]>> \in Nat \X S BY <1>3
    <2> QED BY <1>3, <2>1
  <1>5. Is(f)
    <2> DEFINE h == [i \in Nat |-> IF i = 0 THEN <<>>
                                   ELSE IF s[i] \in D THEN f[i - 1] ELSE Append(f[i - 1], s[i])]
    <2>1. ASSUME NEW i \in Nat PROVE f[i] = h[i]
      <3>1. CASE i = 0 BY <3>1, <1>3
      <3>2. CASE i # 0
        <4>1. i - 1 \in Nat /\ (i - 1) + 1 = i BY <3>2
        <4>2. f[(i - 1) + 1] = IF s[(i - 1) + 1] \in D THEN f[i - 1]
                               ELSE Append(f[i - 1], s[(i - 1) + 1]) BY <1>4, <4>1
        <4> QED BY <4>1, <4>2, <3>2
      <3> QED BY <3>1, <3>2
    <2> QED BY <2>1, <1>3
  <1>6. Is(CHOOSE x : Is(x))
    <2> HIDE DEF Is
    <2> QED BY <1>5
  <1> DEFINE k == CHOOSE x : Is(x)
  <1>7. Filtered(s, D) = k[Len(s)] BY DEF Filtered
  <1>8. Is(k) BY <1>6
  <1> HIDE DEF k
  <1>9. k[0] = <<>> BY <1>8
  <1>10. ASSUME NEW n \in Nat
         PROVE  k[n + 1] = IF s[n + 1] \in D THEN k[n] ELSE Append(k[n], s[n + 1])
    <2>1. n + 1 \in Nat /\ n + 1 # 0 /\ (n + 1) - 1 = n OBVIOUS
    <2>2. k[n + 1] = IF s[n + 1] \in D THEN k[(n + 1) - 1] ELSE Append(k[(n + 1) - 1], s[n + 1])
      BY <1>8, <2>1
    <2> QED BY <2>1, <2>2
  <1>11. Kept(k, s, D) BY <1>9, <1>10 DEF Kept
  <1> QED BY <1>7, <1>11

\* What is left is in the sequence, each event at its own place.
PartOf(t, s, n, p) ==
    /\ p \in [1..Len(t) -> 1..n]
    /\ \A i \in 1..Len(t) : t[i] = s[p[i]]
    /\ \A i, j \in 1..Len(t) : p[i] = p[j] => i = j

LEMMA FilteredIsPart ==
    ASSUME NEW E, NEW s \in Seq(E), NEW D
    PROVE  /\ Filtered(s, D) \in Seq(E)
           /\ \A i \in DOMAIN Filtered(s, D) : Filtered(s, D)[i] \notin D
           /\ \E p : PartOf(Filtered(s, D), s, Len(s), p)
  <1>0. PICK f : Kept(f, s, D) /\ Filtered(s, D) = f[Len(s)] BY FilteredSteps
  <1>1. /\ f[0] = <<>>
        /\ \A n \in Nat : f[n + 1] = IF s[n + 1] \in D THEN f[n] ELSE Append(f[n], s[n + 1])
    BY <1>0 DEF Kept
  <1> DEFINE Good(n) == /\ f[n] \in Seq(E) /\ \A i \in 1..Len(f[n]) : f[n][i] \notin D
                        /\ \E p : PartOf(f[n], s, n, p)
             T == {n \in Nat : n <= Len(s) => Good(n)}
  <1>2. Good(0)
    <2>1. f[0] \in Seq(E) /\ Len(f[0]) = 0 BY <1>1
    <2>2. PartOf(f[0], s, 0, [i \in 1..0 |-> i]) BY <2>1 DEF PartOf
    <2> QED BY <2>1, <2>2
  <1>3. ASSUME NEW n \in Nat, n + 1 <= Len(s), Good(n) PROVE Good(n + 1)
    <2>1. n + 1 \in DOMAIN s /\ s[n + 1] \in E BY <1>3
    <2>2. PICK p : PartOf(f[n], s, n, p) BY <1>3
    <2>3. f[n] \in Seq(E) /\ \A i \in 1..Len(f[n]) : f[n][i] \notin D BY <1>3
    <2>4. CASE s[n + 1] \in D
      <3>1. f[n + 1] = f[n] BY <2>4, <1>1
      <3>2. PartOf(f[n], s, n + 1, p)
        <4>1. p \in [1..Len(f[n]) -> 1..(n + 1)] BY <2>2, <2>3 DEF PartOf
        <4> QED BY <4>1, <2>2 DEF PartOf
      <3> QED BY <3>1, <3>2, <2>3
    <2>5. CASE s[n + 1] \notin D
      <3> DEFINE t == Append(f[n], s[n + 1])
                 m == Len(f[n])
                 r == [i \in 1..(m + 1) |-> IF i = m + 1 THEN n + 1 ELSE p[i]]
      <3>1. f[n + 1] = t BY <2>5, <1>1
      <3>2. /\ t \in Seq(E) /\ Len(t) = m + 1 /\ m \in Nat
            /\ t[m + 1] = s[n + 1] /\ \A i \in 1..m : t[i] = f[n][i]
        BY <2>1, <2>3
      <3> HIDE DEF t
      <3>3. /\ p \in [1..m -> 1..n] /\ \A i \in 1..m : f[n][i] = s[p[i]]
            /\ \A i, j \in 1..m : p[i] = p[j] => i = j
        BY <2>2 DEF PartOf
      <3> HIDE DEF m
      <3>4. \A i \in 1..(m + 1) : i \in 1..m \/ i = m + 1 BY <3>2
      <3>5. /\ \A i \in 1..m : r[i] = p[i] /\ r[i] \in 1..n /\ r[i] \in 1..(n + 1) /\ r[i] # n + 1
            /\ r[m + 1] = n + 1 /\ n + 1 \in 1..(n + 1)
        BY <3>2, <3>3
      <3>6. r \in [1..(m + 1) -> 1..(n + 1)] BY <3>4, <3>5
      <3> HIDE DEF r
      <3>7. \A i \in 1..(m + 1) : t[i] = s[r[i]] BY <3>2, <3>3, <3>4, <3>5
      <3>8. \A i, j \in 1..(m + 1) : r[i] = r[j] => i = j BY <3>3, <3>4, <3>5
      <3>9. PartOf(t, s, n + 1, r) BY <3>2, <3>6, <3>7, <3>8 DEF PartOf
      <3>10. \A i \in 1..Len(t) : t[i] \notin D BY <2>3, <2>5, <3>2, <3>4 DEF m
      <3> QED BY <3>1, <3>2, <3>9, <3>10
    <2> QED BY <2>4, <2>5
  <1> HIDE DEF Good
  <1>4. T = Nat
    <2>1. T \in SUBSET Nat /\ 0 \in T BY <1>2
    <2>2. ASSUME NEW n \in T PROVE n + 1 \in T
      <3>1. n + 1 <= Len(s) => Good(n)
        BY <2>2
      <3> QED BY <3>1, <1>3, <2>2
    <2> HIDE DEF T
    <2> QED BY <2>1, <2>2, Induction
  <1>5. Good(Len(s)) BY <1>4
  <1> DEFINE t == Filtered(s, D)
  <1>6. t = f[Len(s)] BY <1>0
  <1> HIDE DEF t
  <1>7. t \in Seq(E) /\ \A i \in 1..Len(t) : t[i] \notin D BY <1>5, <1>6 DEF Good
  <1>8. \E p : PartOf(t, s, Len(s), p) BY <1>5, <1>6 DEF Good
  <1>9. DOMAIN t = 1..Len(t) BY <1>7
  <1> QED BY <1>7, <1>8, <1>9 DEF t

-----------------------------------------------------------------------------
\* The queue of the client's loop.

In(e, s)   == \E i \in DOMAIN s : s[i] = e
Once(e, s) == \A i, j \in DOMAIN s : s[i] = e /\ s[j] = e => i = j

\* t holds no event that s does not, and none more often.
Sub(t, s) == \A e : (In(e, t) => In(e, s)) /\ (Once(e, s) => Once(e, t))

LEMMA SubItself == ASSUME NEW s PROVE Sub(s, s)
  BY DEF Sub

LEMMA SubOfSub ==
    ASSUME NEW s, NEW t, NEW u, Sub(t, s), Sub(u, t)
    PROVE  Sub(u, s)
  BY DEF Sub

LEMMA TailIsSub ==
    ASSUME NEW E, NEW s \in Seq(E), s # <<>>
    PROVE  /\ Tail(s) \in Seq(E) /\ Head(s) \in E /\ In(Head(s), s) /\ Sub(Tail(s), s)
           /\ Once(Head(s), s) => ~In(Head(s), Tail(s))
  <1>1. /\ Tail(s) \in Seq(E) /\ Head(s) \in E /\ Len(Tail(s)) = Len(s) - 1
        /\ \A i \in 1..(Len(s) - 1) : Tail(s)[i] = s[i + 1]
        /\ s[1] = Head(s) /\ 1 \in DOMAIN s /\ DOMAIN s = 1..Len(s) /\ Len(s) \in Nat
        /\ DOMAIN Tail(s) = 1..(Len(s) - 1)
    OBVIOUS
  <1> DEFINE t == Tail(s)
  <1> HIDE DEF t
  <1>2. \A i \in DOMAIN t : i + 1 \in DOMAIN s /\ t[i] = s[i + 1] /\ i \in Nat /\ i + 1 # 1
    BY <1>1 DEF t
  <1>3. ASSUME NEW e, In(e, t) PROVE In(e, s) BY <1>2, <1>3 DEF In
  <1>4. ASSUME NEW e, Once(e, s) PROVE Once(e, t)
    <2> SUFFICES ASSUME NEW i \in DOMAIN t, NEW j \in DOMAIN t, t[i] = e, t[j] = e PROVE i = j
      BY DEF Once
    <2>1. i + 1 = j + 1 BY <1>2, <1>4 DEF Once
    <2> QED BY <2>1, <1>2
  <1>5. ASSUME Once(Head(s), s), In(Head(s), t) PROVE FALSE
    <2>1. PICK i \in DOMAIN t : t[i] = Head(s) BY <1>5 DEF In
    <2>2. i + 1 = 1 BY <2>1, <1>1, <1>2, <1>5 DEF Once
    <2> QED BY <2>2, <1>2
  <1>6. In(Head(s), s) BY <1>1 DEF In
  <1>7. Sub(t, s) BY <1>3, <1>4 DEF Sub
  <1> QED BY <1>1, <1>5, <1>6, <1>7 DEF t

LEMMA Appended ==
    ASSUME NEW E, NEW s \in Seq(E), NEW d \in E
    PROVE  /\ Append(s, d) \in Seq(E) /\ s \o <<d>> = Append(s, d)
           /\ \A e : In(e, Append(s, d)) <=> In(e, s) \/ e = d
           /\ \A e : Once(e, s) /\ (e # d \/ ~In(e, s)) => Once(e, Append(s, d))
  <1> DEFINE t == Append(s, d)
             n == Len(s)
  <1>1. /\ t \in Seq(E) /\ s \o <<d>> = t /\ n \in Nat
        /\ DOMAIN s = 1..n /\ DOMAIN t = 1..(n + 1) /\ t[n + 1] = d
        /\ \A i \in 1..n : t[i] = s[i]
    OBVIOUS
  <1> HIDE DEF t, n
  <1>2. \A i \in DOMAIN t : i = n + 1 \/ i \in DOMAIN s BY <1>1
  <1>3. n + 1 \in DOMAIN t /\ n + 1 \notin DOMAIN s /\ \A i \in DOMAIN s : i \in DOMAIN t
    BY <1>1
  <1>4. ASSUME NEW e PROVE In(e, t) <=> In(e, s) \/ e = d BY <1>1, <1>2, <1>3 DEF In
  <1>5. ASSUME NEW e, Once(e, s), e # d \/ ~In(e, s) PROVE Once(e, t)
    <2> SUFFICES ASSUME NEW i \in DOMAIN t, NEW j \in DOMAIN t, t[i] = e, t[j] = e PROVE i = j
      BY DEF Once
    <2>1. CASE e # d
      <3>1. i \in DOMAIN s /\ j \in DOMAIN s BY <2>1, <1>1, <1>2
      <3> QED BY <3>1, <1>1, <1>5 DEF Once
    <2>2. CASE ~In(e, s)
      <3>1. i \notin DOMAIN s /\ j \notin DOMAIN s BY <2>2, <1>1 DEF In
      <3> QED BY <3>1, <1>2
    <2> QED BY <2>1, <2>2, <1>5
  <1> QED BY <1>1, <1>4, <1>5 DEF t

LEMMA FilteredIsSub ==
    ASSUME NEW E, NEW s \in Seq(E), NEW D
    PROVE  /\ Filtered(s, D) \in Seq(E) /\ Sub(Filtered(s, D), s)
           /\ \A e \in D : ~In(e, Filtered(s, D))
  <1> DEFINE t == Filtered(s, D)
  <1>1. t \in Seq(E) /\ (\A i \in DOMAIN t : t[i] \notin D) /\ \E p : PartOf(t, s, Len(s), p)
    BY FilteredIsPart
  <1> HIDE DEF t
  <1>2. PICK p : PartOf(t, s, Len(s), p) BY <1>1
  <1>3. DOMAIN t = 1..Len(t) /\ DOMAIN s = 1..Len(s) BY <1>1
  <1>4. /\ \A i \in DOMAIN t : p[i] \in DOMAIN s /\ t[i] = s[p[i]]
        /\ \A i, j \in DOMAIN t : p[i] = p[j] => i = j
    BY <1>2, <1>3 DEF PartOf
  <1>5. ASSUME NEW e PROVE (In(e, t) => In(e, s)) /\ (Once(e, s) => Once(e, t))
    BY <1>4 DEF In, Once
  <1>6. Sub(t, s) BY <1>5 DEF Sub
  <1>7. \A e \in D : ~In(e, t) BY <1>1 DEF In
  <1> QED BY <1>1, <1>6, <1>7 DEF t

-----------------------------------------------------------------------------
\* Requests in their order.

Leads(s, t) == Len(s) <= Len(t) /\ \A i \in 1..Len(s) : t[i] = s[i]

LEMMA LeadsAppend ==
    ASSUME NEW S, NEW a \in Seq(S), NEW s \in Seq(S), NEW x \in S, Leads(a, s)
    PROVE  Leads(a, Append(s, x))
  BY DEF Leads

LEMMA LeadsConcat ==
    ASSUME NEW S, NEW a \in Seq(S), NEW b \in Seq(S)
    PROVE  Leads(a, a \o b)
  BY DEF Leads

LEMMA LeadsTail ==
    ASSUME NEW S, NEW m \in S, NEW a \in Seq(S), NEW s \in Seq(S), Leads(<<m>> \o a, s)
    PROVE  s # <<>> /\ Head(s) = m /\ Tail(s) \in Seq(S) /\ Leads(<<>> \o a, Tail(s))
  <1> DEFINE t == <<m>> \o a
  <1>1. /\ <<m>> \in Seq(S) /\ t \in Seq(S) /\ Len(t) = Len(a) + 1 /\ t[1] = m
        /\ \A i \in 1..Len(a) : t[i + 1] = a[i]
    OBVIOUS
  <1> HIDE DEF t
  <1>2. Len(s) >= 1 /\ 1 \in 1..Len(t) /\ s[1] = m BY <1>1 DEF Leads, t
  <1>3. /\ s # <<>> /\ Head(s) = m /\ Tail(s) \in Seq(S) /\ Len(Tail(s)) = Len(s) - 1
        /\ \A i \in 1..(Len(s) - 1) : Tail(s)[i] = s[i + 1]
    BY <1>2
  <1>4. <<>> \o a = a OBVIOUS
  <1>5. Len(t) <= Len(s) /\ \A i \in 1..Len(t) : s[i] = t[i] BY DEF Leads, t
  <1>6. ASSUME NEW i \in 1..Len(a) PROVE Tail(s)[i] = a[i]
    <2>1. i + 1 \in 1..Len(t) /\ i \in 1..(Len(s) - 1) BY <1>1, <1>5
    <2> QED BY <2>1, <1>1, <1>3, <1>5
  <1>7. Len(a) <= Len(Tail(s)) BY <1>1, <1>3, <1>5
  <1> QED BY <1>3, <1>4, <1>6, <1>7 DEF Leads

\* Responses that have come, requests in the socket pair, and one that waits for room.
Opt(r) == IF r = None THEN <<>> ELSE <<r>>
Line(a, b, r) == (a \o b) \o Opt(r)

LEMMA Moved ==
    ASSUME NEW S, NEW a \in Seq(S), NEW b \in Seq(S), NEW x \in S, None \notin S
    PROVE  /\ Append(Line(a, b, None), x) = Line(a, Append(b, x), None)
           /\ Append(Line(a, b, None), x) = Line(a, b, x)
           /\ Line(a, b, x) = Line(a, Append(b, x), None)
  <1>1. /\ a \o b \in Seq(S) /\ Append(b, x) \in Seq(S) /\ a \o Append(b, x) \in Seq(S)
        /\ (a \o b) \o <<>> = a \o b /\ (a \o Append(b, x)) \o <<>> = a \o Append(b, x)
        /\ <<x>> \in Seq(S)
    OBVIOUS
  <1>2. Append(a \o b, x) = (a \o b) \o <<x>> BY <1>1, AppendIsConcat
  <1>3. (a \o b) \o <<x>> = a \o (b \o <<x>>) BY <1>1, ConcatAssociative
  <1>4. Append(b, x) = b \o <<x>> BY <1>1, AppendIsConcat
  <1>5. x # None OBVIOUS
  <1> QED BY <1>1, <1>2, <1>3, <1>4, <1>5 DEF Line, Opt

LEMMA TailOfConcat ==
    ASSUME NEW S, NEW m \in S, NEW a \in Seq(S), NEW b \in Seq(S), NEW c \in Seq(S)
    PROVE  Tail(((<<m>> \o a) \o b) \o c) = ((<<>> \o a) \o b) \o c
  <1> DEFINE d == (a \o b) \o c
  <1>1. <<m>> \in Seq(S) /\ a \o b \in Seq(S) /\ d \in Seq(S) /\ <<>> \o a = a OBVIOUS
  <1>2. (<<m>> \o a) \o b = <<m>> \o (a \o b) BY <1>1, ConcatAssociative
  <1>3. (<<m>> \o (a \o b)) \o c = <<m>> \o d BY <1>1, ConcatAssociative
  <1> HIDE DEF d
  <1>4. Tail(<<m>> \o d) = d
    <2> DEFINE t == <<m>> \o d
    <2>1. /\ t \in Seq(S) /\ Len(t) = Len(d) + 1 /\ \A i \in 1..Len(d) : t[i + 1] = d[i]
      BY <1>1
    <2> HIDE DEF t
    <2>2. Tail(t) \in Seq(S) /\ Len(Tail(t)) = Len(d) /\ \A i \in 1..Len(d) : Tail(t)[i] = t[i + 1]
      BY <1>1, <2>1
    <2>3. Tail(t) = d BY <1>1, <2>1, <2>2, SeqEqual
    <2> QED BY <2>3 DEF t
  <1> QED BY <1>1, <1>2, <1>3, <1>4 DEF d

LEMMA HeadMoves ==
    ASSUME NEW S, NEW s \in Seq(S), s # <<>>
    PROVE  /\ Head(s) \in S /\ Tail(s) \in Seq(S) /\ <<>> \o s = <<Head(s)>> \o Tail(s)
           /\ \A a \in Seq(S) : a \o s = Append(a, Head(s)) \o Tail(s)
  <1> DEFINE h == Head(s)
             t == Tail(s)
  <1>1. /\ h \in S /\ t \in Seq(S) /\ <<h>> \in Seq(S) /\ Len(t) = Len(s) - 1 /\ s[1] = h
        /\ \A i \in 1..Len(t) : t[i] = s[i + 1]
    OBVIOUS
  <1> HIDE DEF h, t
  <1>2. s = <<h>> \o t
    <2> DEFINE u == <<h>> \o t
    <2>1. u \in Seq(S) /\ Len(u) = Len(s) BY <1>1
    <2>2. ASSUME NEW i \in 1..Len(s) PROVE s[i] = u[i]
      <3>1. CASE i = 1 BY <3>1, <1>1
      <3>2. CASE i # 1
        <4>1. i - 1 \in 1..Len(t) /\ (i - 1) + 1 = i BY <3>2, <1>1
        <4>2. u[i] = t[i - 1] BY <1>1, <3>2
        <4> QED BY <1>1, <4>1, <4>2
      <3> QED BY <3>1, <3>2
    <2> HIDE DEF u
    <2>3. s = u BY <2>1, <2>2, SeqEqual
    <2> QED BY <2>3 DEF u
  <1>3. ASSUME NEW a \in Seq(S) PROVE a \o s = Append(a, h) \o t
    <2>1. a \o (<<h>> \o t) = (a \o <<h>>) \o t BY <1>1, ConcatAssociative, SMTT(60)
    <2>2. Append(a, h) = a \o <<h>> BY <1>1, AppendIsConcat
    <2> QED BY <1>2, <2>1, <2>2
  <1> QED BY <1>1, <1>2, <1>3 DEF h, t

-----------------------------------------------------------------------------
\* A caller, with its channel and its process.

CallerType ==
    [sendQ : Seq(Requests), recvQ : Seq(Requests), timer : Requests \cup {None},
     open : BOOLEAN, out : Requests \cup {None}, msg : Requests \cup {None},
     must : SUBSET {"send", "recv"}, wait : BOOLEAN, armR : BOOLEAN, armW : BOOLEAN,
     asked : Seq(Requests), said : Seq(Requests), state : {"runs", "hangs", "dead"}]

\* The responses on their way are for the oldest requests, in their order; while
\* the process is there, the requests on their way to it are all the others.
Spoken(z) == Opt(z.msg) \o z.said
InOrder(z) ==
    z.open =>
        /\ Leads(Spoken(z), z.recvQ)
        /\ z.state # "dead" => z.recvQ = Line(Spoken(z), z.asked, z.out)

Timed(z) == z.timer = IF z.recvQ = <<>> THEN None ELSE Head(z.recvQ)

ReadOf(k)  == Event(k, "read")
ReadyOf(k) == Event(k, "can_recv")

\* A message is read when the one before has been taken: the socket is asked for
\* one event at a time, and none while there is a message.
ReadsOnce(z, s, k) ==
    /\ Once(ReadOf(k), s) /\ Once(ReadyOf(k), s)
    /\ z.open /\ z.armR => ~In(ReadOf(k), s) /\ z.msg = None
    /\ In(ReadOf(k), s) => z.open /\ z.msg = None
    /\ In(ReadyOf(k), s) /\ z.open => z.msg # None
    /\ ~z.open => ~z.armR

CallerGood(z, s, k) == InOrder(z) /\ Timed(z) /\ ReadsOnce(z, s, k)

EventsTo(n) == [to : 1..n, what : EventKinds]

CallersGood ==
    /\ caller \in Seq(CallerType) /\ Len(caller) <= MaxCallers
    /\ q \in Seq(EventsTo(Len(caller)))
    /\ \A k \in Made : CallerGood(caller[k], q, k)

ThreadsGood ==
    /\ pc \in [Requests -> {"new", "waits", "got", "called", "done"}]
    /\ holds \in [Requests -> 0..Len(caller)]
    /\ signalled \in BOOLEAN
    /\ available \in Seq(Made)
    /\ lost \subseteq Requests /\ gone \subseteq Requests

Holding(r) == pc[r] \in {"got", "called"}

\* A caller is with one thread or available, and there are not too many.
PoolGood ==
    /\ \A r \in Requests : Holding(r) => holds[r] \in Made
    /\ \A r, s \in Requests : Holding(r) /\ Holding(s) /\ holds[r] = holds[s] => r = s
    /\ \A r \in Requests : Holding(r) => ~In(holds[r], available)
    /\ \A k : Once(k, available)
    /\ Cardinality(InUse) + Len(available) <= PoolSize

AnswersGood ==
    /\ answer \in [Requests -> Requests \cup {None, Default}]
    /\ AnswerIsOwn

ImpersonatorInv == CallersGood /\ ThreadsGood /\ PoolGood /\ AnswersGood

\* What follows from the bounds.
LEMMA RequestsAreNumbers ==
    /\ Requests = 1..MaxRequests /\ Requests \subseteq Int
    /\ None \notin Requests /\ Default \notin Requests /\ None # Default
    /\ PoolSize \in Nat /\ MaxCallers \in Nat /\ MaxRequests \in Nat
  BY SizesAssumption DEF Requests, None, Default

-----------------------------------------------------------------------------
\* What the operators of a channel do to a caller.

LEMMA SpokenTyped ==
    ASSUME NEW z \in CallerType, None \notin Requests
    PROVE  /\ Opt(z.msg) \in Seq(Requests) /\ Opt(z.out) \in Seq(Requests)
           /\ Spoken(z) \in Seq(Requests) /\ z.said \in Seq(Requests)
           /\ z.asked \in Seq(Requests) /\ z.recvQ \in Seq(Requests)
  BY DEF CallerType, Opt, Spoken

\* caller::on_error leaves nothing that waits.
Cleared(z) == [Reset(z) EXCEPT !.sendQ = <<>>, !.recvQ = <<>>, !.timer = None]

LEMMA ResetTyped ==
    ASSUME NEW z \in CallerType
    PROVE  Reset(z) \in CallerType /\ Cleared(z) \in CallerType
  <1> DEFINE e == <<>>
             w == [z EXCEPT !.open = FALSE, !.armR = FALSE, !.armW = FALSE, !.state = "dead",
                            !.asked = e, !.said = e]
             v == [w EXCEPT !.sendQ = e, !.recvQ = e, !.timer = None]
  <1>1. e \in Seq(Requests) OBVIOUS
  <1>2. Reset(z) = w /\ Cleared(z) = v BY DEF Reset, Cleared
  <1> HIDE DEF e
  <1>3. w \in CallerType BY <1>1 DEF CallerType
  <1> HIDE DEF w
  <1>4. v \in CallerType BY <1>1, <1>3 DEF CallerType
  <1> QED BY <1>2, <1>3, <1>4

LEMMA ClearedIsClosed ==
    ASSUME NEW z \in CallerType
    PROVE  /\ Cleared(z) \in CallerType /\ ~Cleared(z).open /\ ~Cleared(z).armR
           /\ InOrder(Cleared(z)) /\ Timed(Cleared(z))
  <1> DEFINE w == Cleared(z)
  <1>1. w \in CallerType BY ResetTyped
  <1>0. w.open = FALSE /\ w.armR = FALSE /\ w.recvQ = <<>> /\ w.timer = None
    BY DEF CallerType, Cleared, Reset
  <1> HIDE DEF w
  <1>2. InOrder(w) /\ Timed(w) BY <1>0 DEF InOrder, Timed
  <1> QED BY <1>0, <1>1, <1>2 DEF w

\* A turn of on_can_send's loop: what it leaves for the next one.
Turns == [z : CallerType, err : {"ok", "again", "fail"}]
SameReads(w, z) == w.open = z.open /\ w.msg = z.msg /\ w.armR = z.armR
TurnGood(l, z) == l.err # "fail" => InOrder(l.z) /\ Timed(l.z) /\ SameReads(l.z, z)

LEMMA WriteTyped ==
    ASSUME NEW z \in CallerType, z.out \in Requests
    PROVE  /\ OnWrite(z) \in Turns /\ OnWrite(z).err # "again"
           /\ OnWrite(z).err = "fail" <=> z.state = "dead"
           /\ OnWrite(z).z.sendQ = z.sendQ /\ OnWrite(z).z.recvQ = z.recvQ
           /\ OnWrite(z).z.timer = z.timer
           /\ OnWrite(z).err = "fail" => ~OnWrite(z).z.open /\ ~OnWrite(z).z.armR
           /\ OnWrite(z).err # "fail" =>
                /\ SameReads(OnWrite(z).z, z)
                /\ OnWrite(z).z.said = z.said /\ OnWrite(z).z.state = z.state
                /\ \/ OnWrite(z).z.asked = Append(z.asked, z.out) /\ OnWrite(z).z.out = None
                   \/ OnWrite(z).z.asked = z.asked /\ OnWrite(z).z.out = z.out
  <1>0. \A y : Outcome(y, "ok").z = y /\ Outcome(y, "ok").err = "ok" /\ Outcome(y, "fail").z = y
                /\ Outcome(y, "fail").err = "fail"
                /\ (y \in CallerType => Outcome(y, "ok") \in Turns /\ Outcome(y, "fail") \in Turns)
    BY DEF Outcome, Turns
  <1>1. CASE z.state = "dead"
    <2>1. OnWrite(z) = Outcome(Reset(z), "fail") BY <1>1 DEF OnWrite
    <2>2. Reset(z).sendQ = z.sendQ /\ Reset(z).recvQ = z.recvQ /\ Reset(z).timer = z.timer
          /\ Reset(z).open = FALSE /\ Reset(z).armR = FALSE
      BY DEF Reset, CallerType
    <2> QED BY <2>1, <2>2, <1>0, <1>1, ResetTyped
  <1>2. CASE z.state # "dead" /\ Len(z.asked) < PairRoom
    <2> DEFINE a == Append(z.asked, z.out)
               w == [z EXCEPT !.asked = a, !.out = None]
    <2>1. OnWrite(z) = Outcome(w, "ok") BY <1>2 DEF OnWrite
    <2>2. a \in Seq(Requests) BY DEF CallerType
    <2> HIDE DEF a
    <2>3. w \in CallerType BY <2>2 DEF CallerType
    <2>4. /\ w.sendQ = z.sendQ /\ w.recvQ = z.recvQ /\ w.timer = z.timer /\ w.said = z.said
          /\ w.state = z.state /\ w.open = z.open /\ w.msg = z.msg /\ w.armR = z.armR
          /\ w.asked = a /\ w.out = None
      BY DEF CallerType
    <2> HIDE DEF w
    <2> QED BY <2>1, <2>3, <2>4, <1>0, <1>2 DEF SameReads, a
  <1>3. CASE z.state # "dead" /\ ~(Len(z.asked) < PairRoom)
    <2> DEFINE w == [z EXCEPT !.armW = TRUE]
    <2>1. OnWrite(z) = Outcome(w, "ok") BY <1>3 DEF OnWrite
    <2>2. w \in CallerType BY DEF CallerType
    <2>3. /\ w.sendQ = z.sendQ /\ w.recvQ = z.recvQ /\ w.timer = z.timer /\ w.said = z.said
          /\ w.state = z.state /\ w.open = z.open /\ w.msg = z.msg /\ w.armR = z.armR
          /\ w.asked = z.asked /\ w.out = z.out
      BY DEF CallerType
    <2> HIDE DEF w
    <2> QED BY <2>1, <2>2, <2>3, <1>0, <1>3 DEF SameReads
  <1> QED BY <1>1, <1>2, <1>3

LEMMA WriteInOrder ==
    ASSUME NEW z \in CallerType, z.out \in Requests, None \notin Requests, InOrder(z),
           OnWrite(z).err # "fail"
    PROVE  InOrder(OnWrite(z).z)
  <1> DEFINE w == OnWrite(z).z
  <1>1. /\ w \in CallerType /\ w.recvQ = z.recvQ /\ SameReads(w, z) /\ z.state # "dead"
        /\ w.said = z.said
        /\ \/ w.asked = Append(z.asked, z.out) /\ w.out = None
           \/ w.asked = z.asked /\ w.out = z.out
    BY WriteTyped DEF Turns
  <1> HIDE DEF w
  <1>2. Spoken(w) = Spoken(z) BY <1>1 DEF Spoken, SameReads
  <1>4. /\ Spoken(z) \in Seq(Requests) /\ z.asked \in Seq(Requests) BY SpokenTyped
  <1>5. Line(Spoken(z), z.asked, z.out) = Line(Spoken(z), Append(z.asked, z.out), None)
    BY <1>4, Moved
  <1> SUFFICES ASSUME w.open PROVE Leads(Spoken(w), w.recvQ) /\ w.recvQ = Line(Spoken(w), w.asked, w.out)
    BY DEF InOrder, w
  <1>6. /\ Leads(Spoken(z), z.recvQ) /\ z.recvQ = Line(Spoken(z), z.asked, z.out)
    BY <1>1 DEF InOrder, SameReads
  <1>7. CASE w.asked = Append(z.asked, z.out) /\ w.out = None
    BY <1>1, <1>2, <1>5, <1>6, <1>7
  <1>8. CASE w.asked = z.asked /\ w.out = z.out
    BY <1>1, <1>2, <1>6, <1>8
  <1> QED BY <1>1, <1>7, <1>8

\* The request that channel::send has taken joins those that wait.
Sent(z, r) ==
    [z EXCEPT !.sendQ = Tail(@), !.recvQ = Append(@, r), !.timer = IF @ = None THEN r ELSE @]

LEMMA SentTyped ==
    ASSUME NEW z \in CallerType, NEW r \in Requests, z.sendQ # <<>>, None \notin Requests
    PROVE  /\ Sent(z, r) \in CallerType /\ SameReads(Sent(z, r), z)
           /\ Timed(z) => Timed(Sent(z, r))
           /\ Spoken(Sent(z, r)) = Spoken(z) /\ Sent(z, r).recvQ = Append(z.recvQ, r)
           /\ Sent(z, r).asked = z.asked /\ Sent(z, r).out = z.out /\ Sent(z, r).state = z.state
  <1> DEFINE w == Sent(z, r)
  <1>1. /\ w.recvQ = Append(z.recvQ, r) /\ w.timer = (IF z.timer = None THEN r ELSE z.timer)
        /\ w.asked = z.asked /\ w.out = z.out /\ w.state = z.state
        /\ w.open = z.open /\ w.msg = z.msg /\ w.armR = z.armR /\ w.said = z.said
    BY DEF Sent, CallerType
  <1>2. w \in CallerType
    <2>1. Tail(z.sendQ) \in Seq(Requests) /\ Append(z.recvQ, r) \in Seq(Requests)
      BY DEF CallerType
    <2> QED BY <2>1 DEF Sent, CallerType
  <1> HIDE DEF w
  <1>3. ASSUME Timed(z) PROVE Timed(w)
    <2>1. z.recvQ \in Seq(Requests) /\ w.recvQ # <<>>
          /\ Head(w.recvQ) = IF z.recvQ = <<>> THEN r ELSE Head(z.recvQ)
      BY <1>1, HeadTailAppend, AppendProperties DEF CallerType
    <2>2. z.recvQ # <<>> => Head(z.recvQ) \in Requests BY DEF CallerType
    <2> QED BY <1>1, <1>3, <2>1, <2>2 DEF Timed
  <1> QED BY <1>1, <1>2, <1>3 DEF Spoken, SameReads, w

LEMMA SendGood ==
    ASSUME NEW z \in CallerType, NEW r \in Requests, z.sendQ # <<>>, None \notin Requests,
           InOrder(z), Timed(z), z.open, z.out = None
    PROVE  LET t == OnWrite([z EXCEPT !.out = r])
           IN  /\ t \in Turns /\ t.err # "again" /\ Sent(t.z, r) \in CallerType
               /\ t.err # "fail" => /\ InOrder(Sent(t.z, r)) /\ Timed(Sent(t.z, r))
                                    /\ SameReads(Sent(t.z, r), z)
  <1> DEFINE u == [z EXCEPT !.out = r]
             t == OnWrite(u)
             w == t.z
             s == Sent(w, r)
  <1>1. /\ u \in CallerType /\ u.out = r /\ u.sendQ = z.sendQ /\ u.recvQ = z.recvQ
        /\ u.timer = z.timer /\ u.asked = z.asked /\ u.said = z.said /\ u.state = z.state
        /\ u.open = z.open /\ u.msg = z.msg /\ u.armR = z.armR
    BY DEF CallerType
  <1> HIDE DEF u
  <1>2. /\ t \in Turns /\ t.err # "again" /\ w.sendQ = z.sendQ /\ w.recvQ = z.recvQ /\ w.timer = z.timer
        /\ (t.err = "fail" <=> u.state = "dead")
        /\ t.err # "fail" =>
                /\ SameReads(w, u) /\ w.said = u.said /\ w.state = u.state
                /\ \/ w.asked = Append(u.asked, r) /\ w.out = None
                   \/ w.asked = u.asked /\ w.out = r
    BY <1>1, WriteTyped
  <1> HIDE DEF t
  <1>3. w \in CallerType BY <1>2 DEF Turns
  <1> HIDE DEF w
  <1>4. /\ s \in CallerType /\ SameReads(s, w) /\ (Timed(w) => Timed(s))
        /\ Spoken(s) = Spoken(w) /\ s.recvQ = Append(w.recvQ, r)
        /\ s.asked = w.asked /\ s.out = w.out /\ s.state = w.state
    BY <1>2, <1>3, SentTyped
  <1> HIDE DEF s
  <1>5. ASSUME t.err # "fail" PROVE InOrder(s) /\ Timed(s) /\ SameReads(s, z)
    <2>1. Timed(s) BY <1>2, <1>4 DEF Timed
    <2>2. SameReads(s, z) BY <1>1, <1>2, <1>4, <1>5 DEF SameReads
    <2>3. Spoken(s) = Spoken(z) BY <1>1, <1>2, <1>4, <1>5 DEF Spoken, SameReads
    <2>4. Spoken(z) \in Seq(Requests) /\ z.asked \in Seq(Requests) /\ z.recvQ \in Seq(Requests)
      BY SpokenTyped
    <2>5. Leads(Spoken(z), z.recvQ) /\ z.recvQ = Line(Spoken(z), z.asked, None)
      BY <1>1, <1>2, <1>5 DEF InOrder
    <2>6. Leads(Spoken(z), Append(z.recvQ, r)) BY <2>4, <2>5, LeadsAppend
    <2>7. /\ Append(z.recvQ, r) = Line(Spoken(z), Append(z.asked, r), None)
          /\ Append(z.recvQ, r) = Line(Spoken(z), z.asked, r)
      BY <2>4, <2>5, Moved, SMTT(60)
    <2>9. s.recvQ = Line(Spoken(s), s.asked, s.out)
      <3>1. CASE w.asked = Append(u.asked, r) /\ w.out = None
        BY <3>1, <1>1, <1>2, <1>4, <2>3, <2>7
      <3>2. CASE w.asked = u.asked /\ w.out = r
        BY <3>2, <1>1, <1>2, <1>4, <2>3, <2>7
      <3> QED BY <3>1, <3>2, <1>2, <1>5
    <2> QED BY <2>1, <2>2, <2>3, <2>6, <2>9, <1>2, <1>4 DEF InOrder
  <1> QED BY <1>2, <1>4, <1>5 DEF s, w, t, u

LEMMA RetFields ==
    /\ \A y, e : Outcome(y, e).z = y /\ Outcome(y, e).err = e
    /\ \A y \in CallerType : \A e \in {"ok", "again", "fail"} : Outcome(y, e) \in Turns
  BY DEF Outcome, Turns

LEMMA SendTyped ==
    ASSUME NEW z \in CallerType, NEW r \in Requests, z.sendQ # <<>>, None \notin Requests,
           InOrder(z), Timed(z)
    PROVE  LET t == ChannelSend(z, r)
           IN  \/ /\ t \in Turns /\ t.err = "again"
                  /\ InOrder(t.z) /\ Timed(t.z) /\ SameReads(t.z, z)
               \/ /\ t \in Turns /\ t.err # "again" /\ Sent(t.z, r) \in CallerType
                  /\ t.err # "fail" => /\ InOrder(Sent(t.z, r)) /\ Timed(Sent(t.z, r))
                                       /\ SameReads(Sent(t.z, r), z)
  <1>1. CASE ~z.open
    <2>1. ChannelSend(z, r) = Outcome(z, "fail") BY <1>1 DEF ChannelSend
    <2>2. Sent(z, r) \in CallerType BY SentTyped
    <2> QED BY <2>1, <2>2, RetFields
  <1>2. CASE z.open /\ z.out # None
    <2> DEFINE w == [z EXCEPT !.must = @ \cup {"send"}]
    <2>1. ChannelSend(z, r) = Outcome(w, "again") BY <1>2 DEF ChannelSend
    <2>2. w \in CallerType BY DEF CallerType
    <2>3. /\ w.recvQ = z.recvQ /\ w.timer = z.timer /\ w.said = z.said /\ w.asked = z.asked
          /\ w.state = z.state /\ w.open = z.open /\ w.msg = z.msg /\ w.armR = z.armR /\ w.out = z.out
      BY DEF CallerType
    <2> HIDE DEF w
    <2>4. InOrder(w) /\ Timed(w) /\ SameReads(w, z)
      BY <2>3 DEF InOrder, Timed, SameReads, Spoken
    <2> QED BY <2>1, <2>2, <2>4, RetFields
  <1>3. CASE z.open /\ z.out = None
    <2>1. ChannelSend(z, r) = OnWrite([z EXCEPT !.out = r]) BY <1>3 DEF ChannelSend
    <2> QED BY <2>1, <1>3, SendGood
  <1> QED BY <1>1, <1>2, <1>3

\* on_can_send's loop keeps the order of the requests whenever it does not fail.
LEMMA SendNextGood ==
    ASSUME NEW l \in Turns, NEW z \in CallerType, TurnGood(l, z), None \notin Requests
    PROVE  SendNext(l) \in Turns /\ TurnGood(SendNext(l), z)
  <1> DEFINE y == l.z
             r == Head(y.sendQ)
             t == ChannelSend(y, r)
  <1>1. y \in CallerType /\ y.sendQ \in Seq(Requests) BY DEF Turns, CallerType
  <1>2. CASE l.err # "ok" \/ y.sendQ = <<>>
    <2>1. SendNext(l) = l BY <1>2 DEF SendNext
    <2> QED BY <2>1
  <1>3. CASE l.err = "ok" /\ y.sendQ # <<>> /\ r \in gone
    <2> DEFINE s == Tail(y.sendQ)
               w == [y EXCEPT !.sendQ = s]
    <2>1. SendNext(l) = Outcome(w, "ok") BY <1>3 DEF SendNext
    <2>2. s \in Seq(Requests) BY <1>1, <1>3
    <2> HIDE DEF s, y
    <2>3. w \in CallerType BY <1>1, <2>2 DEF CallerType
    <2>4. /\ w.recvQ = y.recvQ /\ w.timer = y.timer /\ w.said = y.said /\ w.asked = y.asked
          /\ w.state = y.state /\ w.open = y.open /\ w.msg = y.msg /\ w.armR = y.armR /\ w.out = y.out
      BY <1>1 DEF CallerType
    <2> HIDE DEF w
    <2>5. InOrder(y) /\ Timed(y) /\ SameReads(y, z) BY <1>3 DEF TurnGood, y
    <2>6. InOrder(w) /\ Timed(w) /\ SameReads(w, z)
      BY <2>4, <2>5 DEF InOrder, Timed, SameReads, Spoken
    <2> QED BY <2>1, <2>3, <2>6, RetFields DEF TurnGood
  <1>4. CASE l.err = "ok" /\ y.sendQ # <<>> /\ r \notin gone
    <2>1. SendNext(l) = IF t.err = "again" THEN t ELSE Outcome(Sent(t.z, r), t.err)
      BY <1>4 DEF SendNext, Sent
    <2>2. r \in Requests BY <1>1, <1>4
    <2>3. InOrder(y) /\ Timed(y) /\ SameReads(y, z) BY <1>4 DEF TurnGood
    <2> HIDE DEF y, r
    <2>4. \/ /\ t \in Turns /\ t.err = "again"
             /\ InOrder(t.z) /\ Timed(t.z) /\ SameReads(t.z, y)
          \/ /\ t \in Turns /\ t.err # "again" /\ Sent(t.z, r) \in CallerType
             /\ t.err # "fail" => /\ InOrder(Sent(t.z, r)) /\ Timed(Sent(t.z, r))
                                  /\ SameReads(Sent(t.z, r), y)
      BY <1>1, <1>4, <2>2, <2>3, SendTyped
    <2> HIDE DEF t
    <2>5. CASE t.err = "again"
      <3>1. SendNext(l) = t BY <2>1, <2>5
      <3> QED BY <3>1, <2>3, <2>4, <2>5 DEF TurnGood, SameReads
    <2>6. CASE t.err # "again"
      <3>1. SendNext(l) = Outcome(Sent(t.z, r), t.err) BY <2>1, <2>6
      <3>2. t.err \in {"ok", "again", "fail"} BY <2>4 DEF Turns
      <3>3. /\ Outcome(Sent(t.z, r), t.err) \in Turns /\ Outcome(Sent(t.z, r), t.err).err = t.err
            /\ Outcome(Sent(t.z, r), t.err).z = Sent(t.z, r)
        BY <3>2, <2>4, <2>6, RetFields
      <3> QED BY <3>1, <3>3, <2>3, <2>4, <2>6 DEF TurnGood, SameReads
    <2> QED BY <2>5, <2>6
  <1> QED BY <1>2, <1>3, <1>4 DEF y, r

LEMMA CanSendEnds ==
    ASSUME NEW z \in CallerType, NEW k, NEW rest, InOrder(z), Timed(z), None \notin Requests,
           OnCanSend(k, z, rest)
    PROVE  \E end \in Turns :
             /\ TurnGood(end, z)
             /\ end.err = "fail" => OnError(k, end.z, rest)
             /\ end.err # "fail" => /\ caller' = [caller EXCEPT ![k] = end.z]
                                    /\ q' = rest /\ answer' = answer
  <1> DEFINE S == {l \in Turns : TurnGood(l, z)}
             a == Outcome(z, "ok")
             g == [x \in Nat \X S |-> SendNext(x[2])]
             Is(f) == f = [i \in Nat |-> IF i = 0 THEN a ELSE SendNext(f[i - 1])]
             loop == CHOOSE f : Is(f)
  <1>1. a \in S
    <2>1. a \in Turns /\ a.z = z BY RetFields
    <2> HIDE DEF a
    <2>2. TurnGood(a, z) BY <2>1 DEF TurnGood, SameReads
    <2> QED BY <2>1, <2>2
  <1>2. /\ loop[Len(z.sendQ)].err = "fail" => OnError(k, loop[Len(z.sendQ)].z, rest)
        /\ loop[Len(z.sendQ)].err # "fail" =>
             /\ caller' = [caller EXCEPT ![k] = loop[Len(z.sendQ)].z]
             /\ q' = rest /\ answer' = answer
    BY DEF OnCanSend
  <1> HIDE DEF a
  <1>3. \A l \in S : SendNext(l) \in S BY SendNextGood
  <1>4. g \in [Nat \X S -> S] BY <1>3
  <1> HIDE DEF S
  <1>5. \E f \in [Nat -> S] : Iterates(f, a, g)
    <2> HIDE DEF g
    <2> QED BY <1>1, <1>4, Recursion
  <1>6. PICK f \in [Nat -> S] : Iterates(f, a, g) BY <1>5
  <1>7. f[0] = a /\ \A n \in Nat : f[n + 1] = SendNext(f[n])
    <2>1. ASSUME NEW n \in Nat PROVE f[n + 1] = SendNext(f[n])
      <3>1. <<n, f[n]>> \in Nat \X S /\ f[n + 1] = g[<<n, f[n]>>] BY <1>6 DEF Iterates
      <3> QED BY <3>1
    <2> QED BY <2>1, <1>6 DEF Iterates
  <1>8. Is(f)
    <2> DEFINE h == [i \in Nat |-> IF i = 0 THEN a ELSE SendNext(f[i - 1])]
    <2>1. ASSUME NEW i \in Nat PROVE f[i] = h[i]
      <3>1. CASE i = 0 BY <3>1, <1>7
      <3>2. CASE i # 0
        <4>1. i - 1 \in Nat /\ (i - 1) + 1 = i BY <3>2
        <4>2. f[(i - 1) + 1] = SendNext(f[i - 1]) BY <1>7, <4>1
        <4> QED BY <4>1, <4>2, <3>2
      <3> QED BY <3>1, <3>2
    <2> QED BY <2>1
  <1>9. Is(loop)
    <2> HIDE DEF Is
    <2> QED BY <1>8
  <1>10. loop[0] = a /\ \A n \in Nat : loop[n + 1] = SendNext(loop[n])
    <2> HIDE DEF loop
    <2>1. loop[0] = a BY <1>9
    <2>2. ASSUME NEW n \in Nat PROVE loop[n + 1] = SendNext(loop[n])
      <3>1. n + 1 \in Nat /\ n + 1 # 0 /\ (n + 1) - 1 = n OBVIOUS
      <3>2. loop[n + 1] = SendNext(loop[(n + 1) - 1]) BY <1>9, <3>1
      <3> QED BY <3>1, <3>2
    <2> QED BY <2>1, <2>2
  <1> HIDE DEF loop, Is, g
  <1> DEFINE T == {n \in Nat : loop[n] \in S}
  <1>11. T = Nat
    <2>1. T \in SUBSET Nat /\ 0 \in T BY <1>1, <1>10
    <2>2. ASSUME NEW n \in T PROVE n + 1 \in T BY <2>2, <1>3, <1>10
    <2> HIDE DEF T
    <2> QED BY <2>1, <2>2, Induction
  <1>12. Len(z.sendQ) \in Nat BY DEF CallerType
  <1>13. loop[Len(z.sendQ)] \in S BY <1>11, <1>12
  <1> QED BY <1>2, <1>13 DEF S

-----------------------------------------------------------------------------
\* A step that changes one caller.

LEMMA EventFields ==
    /\ \A j, k, v, w : Event(j, v) = Event(k, w) <=> j = k /\ v = w
    /\ \A k, w : Event(k, w).to = k /\ Event(k, w).what = w
    /\ \A n : \A k \in 1..n : \A w \in EventKinds : Event(k, w) \in EventsTo(n)
  BY DEF Event, EventsTo

\* Nothing new is sent to caller j.
FewerFor(j, t, s) ==
    \A w : /\ In(Event(j, w), t) => In(Event(j, w), s)
           /\ Once(Event(j, w), s) => Once(Event(j, w), t)

LEMMA FewerForOthers ==
    ASSUME NEW E, NEW t \in Seq(E), NEW s, Sub(t, s), NEW j, NEW k, j # k, NEW w, Event(k, w) \in E
    PROVE  FewerFor(j, t, s) /\ FewerFor(j, Append(t, Event(k, w)), s)
  <1>1. FewerFor(j, t, s) BY DEF FewerFor, Sub
  <1>2. /\ \A e : In(e, Append(t, Event(k, w))) <=> In(e, t) \/ e = Event(k, w)
        /\ \A e : Once(e, t) /\ (e # Event(k, w) \/ ~In(e, t)) => Once(e, Append(t, Event(k, w)))
    BY Appended
  <1>3. \A v : Event(j, v) # Event(k, w) BY EventFields
  <1>4. FewerFor(j, Append(t, Event(k, w)), s) BY <1>1, <1>2, <1>3 DEF FewerFor
  <1> QED BY <1>1, <1>4

LEMMA ReadsOnceKept ==
    ASSUME NEW z, NEW s, NEW t, NEW j, ReadsOnce(z, s, j), FewerFor(j, t, s)
    PROVE  ReadsOnce(z, t, j)
  BY DEF ReadsOnce, FewerFor, ReadOf, ReadyOf

LEMMA CallerChanged ==
    ASSUME CallersGood, NEW k \in Made, NEW z \in CallerType,
           NEW t \in Seq(EventsTo(Len(caller))),
           caller' = [caller EXCEPT ![k] = z], q' = t, CallerGood(z, t, k),
           \A j \in Made : j # k => FewerFor(j, t, q)
    PROVE  CallersGood' /\ Len(caller') = Len(caller)
  <1>1. caller \in Seq(CallerType) /\ k \in DOMAIN caller BY DEF CallersGood, Made
  <1>2. /\ caller' \in Seq(CallerType) /\ Len(caller') = Len(caller) /\ caller'[k] = z
        /\ \A j \in Made : j # k => caller'[j] = caller[j]
    BY <1>1 DEF Made
  <1>3. \A j \in Made : CallerGood(caller'[j], q', j)
    <2> TAKE j \in Made
    <2>1. CASE j = k BY <2>1, <1>2
    <2>2. CASE j # k
      <3>1. CallerGood(caller[j], q, j) BY DEF CallersGood
      <3> QED BY <3>1, <2>2, <1>2, ReadsOnceKept DEF CallerGood
    <2> QED BY <2>1, <2>2
  <1>4. Made' = Made BY <1>2 DEF Made
  <1> QED BY <1>2, <1>3, <1>4 DEF CallersGood

\* What a handler starts from: rest is the queue without the event it handles.
Handles(k, rest) ==
    /\ CallersGood /\ k \in Made /\ None \notin Requests
    /\ rest \in Seq(EventsTo(Len(caller))) /\ Sub(rest, q)

LEMMA HandlesOne ==
    ASSUME NEW k, NEW rest, Handles(k, rest)
    PROVE  /\ caller[k] \in CallerType /\ InOrder(caller[k]) /\ Timed(caller[k])
           /\ ReadsOnce(caller[k], q, k) /\ ReadsOnce(caller[k], rest, k)
  <1>1. caller[k] \in CallerType /\ CallerGood(caller[k], q, k)
    BY DEF Handles, CallersGood, Made
  <1>2. ReadsOnce(caller[k], rest, k)
    BY <1>1 DEF Handles, CallerGood, ReadsOnce, Sub, ReadOf, ReadyOf
  <1> QED BY <1>1, <1>2 DEF CallerGood

\* A handler that leaves the rest of the queue, or adds an event of its caller to it.
LEMMA HandlerLeaves ==
    ASSUME NEW k, NEW rest, Handles(k, rest), NEW z \in CallerType, CallerGood(z, rest, k),
           caller' = [caller EXCEPT ![k] = z], q' = rest
    PROVE  CallersGood' /\ Len(caller') = Len(caller)
  <1>1. \A j \in Made : j # k => FewerFor(j, rest, q) BY DEF Handles, FewerFor, Sub
  <1> QED BY <1>1, CallerChanged DEF Handles

LEMMA HandlerSends ==
    ASSUME NEW k, NEW rest, Handles(k, rest), NEW z \in CallerType, NEW w \in EventKinds,
           InOrder(z), Timed(z), ReadsOnce(z, Append(rest, Event(k, w)), k),
           caller' = [caller EXCEPT ![k] = z], q' = Append(rest, Event(k, w))
    PROVE  CallersGood' /\ Len(caller') = Len(caller)
  <1>1. Event(k, w) \in EventsTo(Len(caller)) BY EventFields DEF Handles, Made
  <1>2. Append(rest, Event(k, w)) \in Seq(EventsTo(Len(caller))) BY <1>1 DEF Handles
  <1>3. \A j \in Made : j # k => FewerFor(j, Append(rest, Event(k, w)), q)
    BY <1>1, FewerForOthers DEF Handles
  <1> DEFINE t == Append(rest, Event(k, w))
  <1>4. CallerGood(z, t, k) BY DEF CallerGood
  <1> HIDE DEF t
  <1>5. t \in Seq(EventsTo(Len(caller))) /\ q' = t /\ \A j \in Made : j # k => FewerFor(j, t, q)
    BY <1>2, <1>3 DEF t
  <1> QED BY <1>4, <1>5, CallerChanged DEF Handles

\* Events other than those of reading do not matter to it.
LEMMA OtherEvents ==
    ASSUME NEW k, NEW rest, Handles(k, rest), NEW z, ReadsOnce(z, rest, k),
           NEW w \in {"can_send", "error", "write"}
    PROVE  ReadsOnce(z, Append(rest, Event(k, w)), k)
  <1> DEFINE t == Append(rest, Event(k, w))
  <1>1. Event(k, w) \in EventsTo(Len(caller))
    BY EventFields DEF Handles, Made, EventKinds
  <1>2. /\ \A e : In(e, t) <=> In(e, rest) \/ e = Event(k, w)
        /\ \A e : Once(e, rest) /\ (e # Event(k, w) \/ ~In(e, rest)) => Once(e, t)
    BY <1>1, Appended DEF Handles
  <1> HIDE DEF t
  <1>3. ReadOf(k) # Event(k, w) /\ ReadyOf(k) # Event(k, w)
    BY EventFields DEF ReadOf, ReadyOf
  <1>4. ReadsOnce(z, t, k) BY <1>2, <1>3 DEF ReadsOnce
  <1> QED BY <1>4 DEF t

\* The queue from which filter_events has taken the socket's events.
LEMMA SocketEventsGone ==
    ASSUME NEW k, NEW rest, Handles(k, rest)
    PROVE  /\ Handles(k, Unsent(rest, k, SocketEvents))
           /\ ~In(ReadOf(k), Unsent(rest, k, SocketEvents))
  <1> DEFINE D == [to : {k}, what : SocketEvents]
             t == Filtered(rest, D)
  <1>1. t = Unsent(rest, k, SocketEvents) BY DEF Unsent
  <1>2. t \in Seq(EventsTo(Len(caller))) /\ Sub(t, rest) /\ \A e \in D : ~In(e, t)
    <2> HIDE DEF D
    <2> QED BY FilteredIsSub DEF Handles
  <1>3. ReadOf(k) \in D BY DEF ReadOf, Event, SocketEvents
  <1> HIDE DEF t
  <1>4. Sub(t, q) BY <1>2, SubOfSub DEF Handles
  <1>5. Handles(k, t) BY <1>2, <1>4 DEF Handles
  <1> QED BY <1>1, <1>2, <1>3, <1>5

LEMMA ClosedReads ==
    ASSUME NEW k, NEW rest, Handles(k, rest), NEW z, ~z.open, ~z.armR, ~In(ReadOf(k), rest)
    PROVE  ReadsOnce(z, rest, k)
  <1>1. ReadsOnce(caller[k], rest, k) BY HandlesOne
  <1> QED BY <1>1 DEF ReadsOnce

LEMMA OnErrorGood ==
    ASSUME NEW k, NEW rest, Handles(k, rest), NEW z \in CallerType, OnError(k, z, rest)
    PROVE  CallersGood' /\ Len(caller') = Len(caller)
  <1> DEFINE t == Unsent(rest, k, SocketEvents)
  <1>1. caller' = [caller EXCEPT ![k] = Cleared(z)] /\ q' = t BY DEF OnError, Cleared
  <1>2. Handles(k, t) /\ ~In(ReadOf(k), t) BY SocketEventsGone
  <1> HIDE DEF t
  <1>3. /\ Cleared(z) \in CallerType /\ ~Cleared(z).open /\ ~Cleared(z).armR
        /\ InOrder(Cleared(z)) /\ Timed(Cleared(z))
    BY ClearedIsClosed
  <1>4. CallerGood(Cleared(z), t, k) BY <1>2, <1>3, ClosedReads DEF CallerGood
  <1> QED BY <1>1, <1>2, <1>3, <1>4, HandlerLeaves

\* A receiver is executed with the default, or with what is for its request.
LEMMA AnsweredGood ==
    ASSUME AnswersGood, NEW rs, NEW v, Answered(rs, v),
           v = Default \/ (v \in Requests /\ rs = {v})
    PROVE  AnswersGood'
  <1>1. answer' = [r \in Requests |->
                     IF r \in rs \ gone /\ answer[r] = None THEN v ELSE answer[r]]
    BY DEF Answered
  <1>2. /\ answer \in [Requests -> Requests \cup {None, Default}]
        /\ \A r \in Requests : answer[r] \in {None, Default, r}
    BY DEF AnswersGood, AnswerIsOwn
  <1>3. answer' \in [Requests -> Requests \cup {None, Default}] BY <1>1, <1>2
  <1>4. \A r \in Requests : answer'[r] \in {None, Default, r} BY <1>1, <1>2
  <1> QED BY <1>3, <1>4 DEF AnswersGood, AnswerIsOwn

LEMMA AnswersUnchanged ==
    ASSUME AnswersGood, answer' = answer PROVE AnswersGood'
  BY DEF AnswersGood, AnswerIsOwn

LEMMA OnErrorAnswers ==
    ASSUME NEW k, NEW z, NEW rest, OnError(k, z, rest), AnswersGood
    PROVE  AnswersGood'
  BY AnsweredGood DEF OnError

-----------------------------------------------------------------------------
\* The handlers of the client's loop.

LEMMA OnCanSendGood ==
    ASSUME NEW k, NEW rest, Handles(k, rest), AnswersGood, OnCanSend(k, caller[k], rest)
    PROVE  CallersGood' /\ Len(caller') = Len(caller) /\ AnswersGood'
  <1> DEFINE z == caller[k]
  <1>1. z \in CallerType /\ InOrder(z) /\ Timed(z) /\ ReadsOnce(z, rest, k) /\ None \notin Requests
    BY HandlesOne DEF Handles
  <1>2. OnCanSend(k, z, rest) OBVIOUS
  <1> HIDE DEF z
  <1>3. PICK end \in Turns :
             /\ TurnGood(end, z)
             /\ end.err = "fail" => OnError(k, end.z, rest)
             /\ end.err # "fail" => /\ caller' = [caller EXCEPT ![k] = end.z]
                                    /\ q' = rest /\ answer' = answer
    BY <1>1, <1>2, CanSendEnds
  <1>4. end.z \in CallerType BY DEF Turns
  <1>5. CASE end.err = "fail"
    BY <1>3, <1>4, <1>5, OnErrorGood, OnErrorAnswers
  <1>6. CASE end.err # "fail"
    <2>1. InOrder(end.z) /\ Timed(end.z) /\ SameReads(end.z, z) BY <1>3, <1>6 DEF TurnGood
    <2>2. ReadsOnce(end.z, rest, k) BY <2>1, <1>1 DEF ReadsOnce, SameReads
    <2>3. CallerGood(end.z, rest, k) BY <2>1, <2>2 DEF CallerGood
    <2> QED BY <1>3, <1>4, <1>6, <2>3, HandlerLeaves, AnswersUnchanged
  <1> QED BY <1>5, <1>6

\* The oldest request leaves, and with it the response it has got.
Served(z) == [Received(z) EXCEPT !.recvQ = Tail(@), !.timer = NextDeadline(z)]

LEMMA ServedGood ==
    ASSUME NEW z \in CallerType, InOrder(z), Timed(z), z.open, z.msg # None,
           None \notin Requests
    PROVE  /\ Head(z.recvQ) = z.msg /\ z.msg \in Requests
           /\ Served(z) \in CallerType /\ InOrder(Served(z)) /\ Timed(Served(z))
           /\ Served(z).open /\ Served(z).msg = None /\ Served(z).armR = z.armR
  <1> DEFINE w == Served(z)
             m == z.msg
             s == Tail(z.recvQ)
             d == NextDeadline(z)
  <1>1. /\ m \in Requests /\ z.recvQ \in Seq(Requests) /\ z.said \in Seq(Requests)
        /\ z.asked \in Seq(Requests) /\ Opt(z.out) \in Seq(Requests)
    BY SpokenTyped DEF CallerType
  <1>2. Spoken(z) = <<m>> \o z.said BY DEF Spoken, Opt
  <1>3. Leads(<<m>> \o z.said, z.recvQ) BY <1>2 DEF InOrder
  <1>4. z.recvQ # <<>> /\ Head(z.recvQ) = m /\ s \in Seq(Requests) /\ Leads(<<>> \o z.said, s)
    BY <1>1, <1>3, LeadsTail
  <1>5. d = IF s = <<>> THEN None ELSE Head(s)
    <2>1. /\ Len(s) = Len(z.recvQ) - 1 /\ Len(z.recvQ) \in Nat
          /\ \A i \in 1..Len(s) : s[i] = z.recvQ[i + 1]
      BY <1>1, <1>4
    <2> HIDE DEF s
    <2>2. CASE Len(z.recvQ) > 1
      <3>1. s # <<>> /\ Head(s) = s[1] /\ 1 \in 1..Len(s) BY <2>1, <2>2, <1>1, <1>4
      <3> QED BY <3>1, <2>1, <2>2 DEF NextDeadline
    <2>3. CASE ~(Len(z.recvQ) > 1)
      <3>1. s \in Seq(Requests) /\ Len(s) \in Nat /\ Len(z.recvQ) >= 1 BY <1>1, <1>4
      <3>2. Len(s) = 0
        <4> DEFINE a == Len(z.recvQ)
                   b == Len(s)
        <4>1. a \in Nat /\ b \in Nat /\ b = a - 1 /\ a >= 1 /\ ~(a > 1) BY <2>1, <2>3, <3>1
        <4> HIDE DEF a, b
        <4>2. b = 0 BY <4>1
        <4> QED BY <4>2 DEF b
      <3>3. s = <<>> BY <3>1, <3>2
      <3> QED BY <3>3, <2>3 DEF NextDeadline
    <2> QED BY <2>2, <2>3
  <1>6. d \in Requests \cup {None} BY <1>4, <1>5
  <1>7. w = [z EXCEPT !.msg = None, !.must = z.must \cup {"recv"}, !.wait = TRUE,
                      !.recvQ = s, !.timer = d]
    BY DEF Served, Received, CallerType
  <1> HIDE DEF s, d
  <1>8. w \in CallerType
    <2> DEFINE v == [z EXCEPT !.msg = None, !.must = z.must \cup {"recv"}, !.wait = TRUE,
                              !.recvQ = s, !.timer = d]
    <2>1. v \in CallerType BY <1>4, <1>6 DEF CallerType
    <2> QED BY <1>7, <2>1
  <1>9. /\ w.recvQ = s /\ w.timer = d /\ w.msg = None /\ w.open = z.open /\ w.armR = z.armR
        /\ w.said = z.said /\ w.asked = z.asked /\ w.out = z.out /\ w.state = z.state
    BY <1>7, ZenonT(60) DEF CallerType
  <1> HIDE DEF w
  <1>10. Timed(w) BY <1>5, <1>9 DEF Timed
  <1>11. Spoken(w) = <<>> \o z.said BY <1>9 DEF Spoken, Opt
  <1>12. ASSUME z.state # "dead" PROVE s = Line(Spoken(w), z.asked, z.out)
    <2>1. z.recvQ = ((<<m>> \o z.said) \o z.asked) \o Opt(z.out)
      BY <1>2, <1>12 DEF InOrder, Line
    <2>2. Tail(((<<m>> \o z.said) \o z.asked) \o Opt(z.out)) = ((<<>> \o z.said) \o z.asked) \o Opt(z.out)
      <3> DEFINE a == z.said
                 b == z.asked
                 o == Opt(z.out)
      <3>1. /\ a \in Seq(Requests) /\ b \in Seq(Requests) /\ o \in Seq(Requests)
            /\ m \in Requests
        BY <1>1
      <3> HIDE DEF m, a, b, o
      <3>2. Tail(((<<m>> \o a) \o b) \o o) = ((<<>> \o a) \o b) \o o
        BY <3>1, TailOfConcat, SMTT(60)
      <3> QED BY <3>2 DEF a, b, o
    <2> QED BY <2>1, <2>2, <1>11 DEF Line, s
  <1>13. InOrder(w) BY <1>4, <1>9, <1>11, <1>12 DEF InOrder
  <1> QED BY <1>1, <1>4, <1>8, <1>9, <1>10, <1>13 DEF w

LEMMA OnCanRecvGood ==
    ASSUME NEW k, NEW rest, Handles(k, rest), AnswersGood, In(ReadyOf(k), q), ~In(ReadyOf(k), rest),
           OnCanRecv(k, caller[k], rest)
    PROVE  CallersGood' /\ Len(caller') = Len(caller) /\ AnswersGood'
  <1> DEFINE z == caller[k]
  <1>1. /\ z \in CallerType /\ InOrder(z) /\ Timed(z) /\ ReadsOnce(z, rest, k) /\ ReadsOnce(z, q, k)
        /\ None \notin Requests /\ Sub(rest, q)
    BY HandlesOne DEF Handles
  <1>2. OnCanRecv(k, z, rest) OBVIOUS
  <1> HIDE DEF z
  <1>3. CASE ~z.open \/ (z.msg # None /\ z.recvQ = <<>>)
    <2>1. OnError(k, z, rest) BY <1>2, <1>3 DEF OnCanRecv
    <2> QED BY <2>1, <1>1, OnErrorGood, OnErrorAnswers
  <1>4. CASE z.open /\ ~(z.msg # None /\ z.recvQ = <<>>)
    <2>1. z.msg # None BY <1>1, <1>4 DEF ReadsOnce
    <2>2. /\ caller' = [caller EXCEPT ![k] = Served(z)]
          /\ q' = (IF z.wait THEN rest ELSE Append(rest, Event(k, "read")))
          /\ Answered({Head(z.recvQ)}, z.msg)
      BY <1>2, <1>4, <2>1 DEF OnCanRecv, Served
    <2>3. /\ Head(z.recvQ) = z.msg /\ z.msg \in Requests
          /\ Served(z) \in CallerType /\ InOrder(Served(z)) /\ Timed(Served(z))
          /\ Served(z).open /\ Served(z).msg = None /\ Served(z).armR = z.armR
      BY <1>1, <1>4, <2>1, ServedGood
    <2>4. AnswersGood' BY <2>2, <2>3, AnsweredGood
    <2> DEFINE w == Served(z)
               t == Append(rest, ReadOf(k))
    <2> HIDE DEF w
    <2>5. ~z.armR /\ ~In(ReadOf(k), rest) /\ Once(ReadOf(k), rest) /\ Once(ReadyOf(k), rest)
      BY <1>1, <1>4, <2>1 DEF ReadsOnce, Sub
    <2>6. CASE z.wait
      <3>1. ReadsOnce(w, rest, k) BY <2>3, <2>5 DEF ReadsOnce, w
      <3>2. CallerGood(w, rest, k) BY <2>3, <3>1 DEF CallerGood, w
      <3> QED BY <2>2, <2>3, <2>4, <2>6, <3>2, HandlerLeaves DEF w
    <2>7. CASE ~z.wait
      <3>1. ReadOf(k) \in EventsTo(Len(caller)) /\ ReadOf(k) # ReadyOf(k)
        BY EventFields DEF Handles, ReadOf, ReadyOf, Made, EventKinds
      <3>2. /\ \A e : In(e, t) <=> In(e, rest) \/ e = ReadOf(k)
            /\ \A e : Once(e, rest) /\ (e # ReadOf(k) \/ ~In(e, rest)) => Once(e, t)
        BY <3>1, Appended DEF Handles
      <3> HIDE DEF t
      <3>3. ReadsOnce(w, t, k) BY <2>3, <2>5, <3>1, <3>2 DEF ReadsOnce, w
      <3>4. q' = t /\ t = Append(rest, Event(k, "read")) BY <2>2, <2>7 DEF t, ReadOf
      <3>5. "read" \in EventKinds BY DEF EventKinds
      <3> QED BY <2>2, <2>3, <2>4, <3>3, <3>4, <3>5, HandlerSends DEF w
    <2> QED BY <2>6, <2>7
  <1> QED BY <1>3, <1>4

\* channel::operator() tells the caller of a failure, and of what is ready.
LEMMA NotifyFailed ==
    ASSUME NEW k, NEW rest, Handles(k, rest), NEW t, NEW op, NEW ready, t.err = "fail",
           Notify(k, t, op, ready, rest),
           t.z \in CallerType, InOrder(t.z), Timed(t.z), ~t.z.open, ~t.z.armR
    PROVE  CallersGood' /\ Len(caller') = Len(caller)
  <1> DEFINE s == Unsent(rest, k, SocketEvents)
             w == t.z
  <1>1. caller' = [caller EXCEPT ![k] = w] /\ q' = Append(s, Event(k, "error"))
    BY DEF Notify
  <1>2. Handles(k, s) /\ ~In(ReadOf(k), s) BY SocketEventsGone
  <1>3. w \in CallerType /\ InOrder(w) /\ Timed(w) /\ ~w.open /\ ~w.armR OBVIOUS
  <1> HIDE DEF s, w
  <1>4. ReadsOnce(w, s, k) BY <1>2, <1>3, ClosedReads
  <1>5. ReadsOnce(w, Append(s, Event(k, "error")), k) BY <1>2, <1>4, OtherEvents
  <1>6. "error" \in EventKinds BY DEF EventKinds
  <1> QED BY <1>1, <1>2, <1>3, <1>5, <1>6, HandlerSends

\* Taking an operation off must_send_ready_ops_ changes nothing else.
Notified(z, op) == [z EXCEPT !.must = @ \ {op}]

LEMMA ToldSame ==
    ASSUME NEW z \in CallerType, NEW op
    PROVE  /\ Notified(z, op) \in CallerType /\ SameReads(Notified(z, op), z)
           /\ InOrder(z) => InOrder(Notified(z, op))
           /\ Timed(z) => Timed(Notified(z, op))
  <1> DEFINE w == Notified(z, op)
  <1>1. /\ w \in CallerType /\ w.recvQ = z.recvQ /\ w.timer = z.timer /\ w.said = z.said
        /\ w.asked = z.asked /\ w.state = z.state /\ w.open = z.open /\ w.msg = z.msg
        /\ w.armR = z.armR /\ w.out = z.out
    BY DEF CallerType, Notified
  <1> HIDE DEF w
  <1>2. /\ SameReads(w, z) /\ (InOrder(z) => InOrder(w)) /\ (Timed(z) => Timed(w))
    BY <1>1 DEF InOrder, Timed, SameReads, Spoken
  <1> QED BY <1>1, <1>2 DEF w

LEMMA OnChannelWriteGood ==
    ASSUME NEW k, NEW rest, Handles(k, rest), AnswersGood, OnChannelWrite(k, caller[k], rest)
    PROVE  CallersGood' /\ Len(caller') = Len(caller) /\ AnswersGood'
  <1> DEFINE z == caller[k]
             t == IF z.out = None THEN Outcome(z, "ok") ELSE OnWrite(z)
             ready == t.z.out = None /\ "send" \in z.must
  <1>1. /\ z \in CallerType /\ InOrder(z) /\ Timed(z) /\ ReadsOnce(z, rest, k)
        /\ None \notin Requests /\ z.out \in Requests \cup {None}
    BY HandlesOne DEF Handles, CallerType
  <1>2. Notify(k, t, "send", ready, rest) BY DEF OnChannelWrite
  <1> HIDE DEF z
  <1>3. /\ t.z \in CallerType /\ InOrder(t.z) /\ Timed(t.z)
        /\ t.err # "fail" => SameReads(t.z, z) /\ t.err = "ok"
        /\ t.err = "fail" => ~t.z.open /\ ~t.z.armR
    <2>1. CASE z.out = None
      <3>1. t = Outcome(z, "ok") BY <2>1
      <3> QED BY <3>1, <1>1, RetFields DEF SameReads
    <2>2. CASE z.out # None
      <3>1. t = OnWrite(z) /\ z.out \in Requests BY <2>2, <1>1
      <3> HIDE DEF t
      <3>2. /\ t \in Turns /\ t.err # "again" /\ t.z.recvQ = z.recvQ /\ t.z.timer = z.timer
            /\ t.err # "fail" => SameReads(t.z, z)
            /\ t.err = "fail" => ~t.z.open /\ ~t.z.armR
        BY <3>1, <1>1, WriteTyped
      <3>3. t.z \in CallerType /\ (t.err # "fail" => t.err = "ok") BY <3>2 DEF Turns
      <3>4. Timed(t.z) BY <3>2, <1>1 DEF Timed
      <3>5. InOrder(t.z)
        <4>1. CASE t.err = "fail" BY <4>1, <3>2 DEF InOrder
        <4>2. CASE t.err # "fail" BY <4>2, <3>1, <1>1, WriteInOrder
        <4> QED BY <4>1, <4>2
      <3> QED BY <3>2, <3>3, <3>4, <3>5
    <2> QED BY <2>1, <2>2
  <1>4. answer' = answer BY <1>2 DEF Notify
  <1> HIDE DEF t, ready
  <1>5. CASE t.err = "fail" BY <1>2, <1>3, <1>4, <1>5, NotifyFailed, AnswersUnchanged
  <1>6. CASE t.err # "fail" /\ ready
    <2> DEFINE w == Notified(t.z, "send")
    <2>1. /\ caller' = [caller EXCEPT ![k] = w]
          /\ q' = Append(rest, Event(k, "can_send"))
      BY <1>2, <1>3, <1>6 DEF Notify, Notified
    <2>2. w \in CallerType /\ SameReads(w, t.z) /\ InOrder(w) /\ Timed(w) BY <1>3, ToldSame
    <2> HIDE DEF w
    <2>3. ReadsOnce(w, rest, k) BY <2>2, <1>1, <1>3, <1>6 DEF ReadsOnce, SameReads
    <2>4. ReadsOnce(w, Append(rest, Event(k, "can_send")), k) BY <2>3, OtherEvents
    <2>5. "can_send" \in EventKinds BY DEF EventKinds
    <2> QED BY <2>1, <2>2, <2>4, <2>5, <1>4, HandlerSends, AnswersUnchanged
  <1>7. CASE t.err # "fail" /\ ~ready
    <2> DEFINE w == t.z
    <2>1. caller' = [caller EXCEPT ![k] = w] /\ q' = rest BY <1>2, <1>7 DEF Notify
    <2>2. w \in CallerType /\ SameReads(w, z) /\ InOrder(w) /\ Timed(w) BY <1>3, <1>7
    <2> HIDE DEF w
    <2>3. CallerGood(w, rest, k) BY <2>2, <1>1 DEF CallerGood, ReadsOnce, SameReads
    <2> QED BY <2>1, <2>2, <2>3, <1>4, HandlerLeaves, AnswersUnchanged
  <1> QED BY <1>5, <1>6, <1>7

\* channel::on_read: a message, the end of the process, or another event to wait for.
LEMMA OnReadGood ==
    ASSUME NEW z \in CallerType, InOrder(z), Timed(z), z.open, ~z.armR, z.msg = None,
           None \notin Requests
    PROVE  LET t == OnRead(z)
           IN  /\ t \in Turns /\ InOrder(t.z) /\ Timed(t.z)
               /\ \/ t.err = "fail" /\ ~t.z.open /\ ~t.z.armR /\ t.z.msg = None
                  \/ t.err = "ok" /\ t.z.open /\ ~t.z.armR /\ t.z.msg \in Requests
                  \/ t.err = "ok" /\ t.z.open /\ t.z.msg = None
  <1> DEFINE u == [z EXCEPT !.wait = FALSE]
  <1>1. z.said \in Seq(Requests) /\ z.recvQ \in Seq(Requests) /\ z.asked \in Seq(Requests)
    BY DEF CallerType
  <1>2. /\ u \in CallerType /\ u.recvQ = z.recvQ /\ u.timer = z.timer /\ u.said = z.said
        /\ u.asked = z.asked /\ u.state = z.state /\ u.open = z.open /\ u.msg = z.msg
        /\ u.armR = z.armR /\ u.out = z.out
    BY DEF CallerType
  <1>3. CASE z.said # <<>>
    <2> DEFINE h == Head(z.said)
               s == Tail(z.said)
               w == [z EXCEPT !.wait = FALSE, !.msg = h, !.said = s]
    <2>1. OnRead(z) = Outcome(w, "ok") BY <1>3 DEF OnRead
    <2>2. h \in Requests /\ s \in Seq(Requests) /\ <<>> \o z.said = <<h>> \o s
      BY <1>1, <1>3, HeadMoves
    <2> HIDE DEF h, s
    <2>3. /\ w \in CallerType /\ w.recvQ = z.recvQ /\ w.timer = z.timer /\ w.said = s
          /\ w.asked = z.asked /\ w.state = z.state /\ w.open = z.open /\ w.msg = h
          /\ w.armR = z.armR /\ w.out = z.out
      BY <2>2 DEF CallerType
    <2> HIDE DEF w
    <2>4. Spoken(w) = Spoken(z) BY <2>2, <2>3 DEF Spoken, Opt
    <2>5. InOrder(w) /\ Timed(w) BY <2>3, <2>4 DEF InOrder, Timed
    <2>6. OnRead(z).z = w /\ OnRead(z).err = "ok" /\ OnRead(z) \in Turns
      BY <2>1, <2>3, RetFields
    <2> QED BY <2>2, <2>3, <2>5, <2>6
  <1>4. CASE z.said = <<>> /\ z.state = "dead"
    <2>1. OnRead(z) = Outcome(Reset(u), "fail") BY <1>4 DEF OnRead
    <2> HIDE DEF u
    <2> DEFINE w == Reset(u)
    <2>2. w \in CallerType BY <1>2, ResetTyped
    <2>3. /\ w.open = FALSE /\ w.armR = FALSE /\ w.msg = u.msg /\ w.recvQ = u.recvQ /\ w.timer = u.timer
      BY <1>2 DEF Reset, CallerType
    <2> HIDE DEF w
    <2>4. InOrder(w) /\ Timed(w) BY <1>2, <2>3 DEF InOrder, Timed
    <2> QED BY <1>2, <2>1, <2>2, <2>3, <2>4, RetFields DEF w
  <1>5. CASE z.said = <<>> /\ z.state # "dead"
    <2> DEFINE w == [z EXCEPT !.wait = TRUE, !.armR = TRUE]
    <2>1. OnRead(z) = Outcome(w, "ok") BY <1>5 DEF OnRead
    <2>2. /\ w \in CallerType /\ w.recvQ = z.recvQ /\ w.timer = z.timer /\ w.said = z.said
          /\ w.asked = z.asked /\ w.state = z.state /\ w.open = z.open /\ w.msg = z.msg
          /\ w.out = z.out
      BY DEF CallerType
    <2> HIDE DEF w
    <2>3. InOrder(w) /\ Timed(w) BY <2>2 DEF InOrder, Timed, Spoken
    <2>4. OnRead(z).z = w /\ OnRead(z).err = "ok" /\ OnRead(z) \in Turns
      BY <2>1, <2>2, RetFields
    <2> QED BY <2>2, <2>3, <2>4
  <1> QED BY <1>3, <1>4, <1>5

LEMMA OnChannelReadGood ==
    ASSUME NEW k, NEW rest, Handles(k, rest), AnswersGood, In(ReadOf(k), q), ~In(ReadOf(k), rest),
           OnChannelRead(k, caller[k], rest)
    PROVE  CallersGood' /\ Len(caller') = Len(caller) /\ AnswersGood'
  <1> DEFINE z == caller[k]
             t == OnRead(z)
             ready == t.z.msg # None /\ "recv" \in t.z.must
  <1>1. /\ z \in CallerType /\ InOrder(z) /\ Timed(z) /\ ReadsOnce(z, rest, k) /\ ReadsOnce(z, q, k)
        /\ None \notin Requests /\ Sub(rest, q)
    BY HandlesOne DEF Handles
  <1>2. Notify(k, t, "recv", ready, rest) BY DEF OnChannelRead
  <1> HIDE DEF z
  <1>3. z.open /\ z.msg = None BY <1>1 DEF ReadsOnce
  <1>4. ~z.armR /\ ~In(ReadyOf(k), rest) BY <1>1, <1>3 DEF ReadsOnce, Sub
  <1>5. /\ t \in Turns /\ InOrder(t.z) /\ Timed(t.z)
        /\ \/ t.err = "fail" /\ ~t.z.open /\ ~t.z.armR /\ t.z.msg = None
           \/ t.err = "ok" /\ t.z.open /\ ~t.z.armR /\ t.z.msg \in Requests
           \/ t.err = "ok" /\ t.z.open /\ t.z.msg = None
    BY <1>1, <1>3, <1>4, OnReadGood
  <1>6. answer' = answer BY <1>2 DEF Notify
  <1>7. t.z \in CallerType BY <1>5 DEF Turns
  <1>8. ready => t.z.msg # None OBVIOUS
  <1> HIDE DEF t, ready
  <1>9. CASE t.err = "fail" BY <1>2, <1>5, <1>6, <1>7, <1>9, NotifyFailed, AnswersUnchanged
  <1>10. CASE t.err = "ok" /\ ready
    <2> DEFINE w == Notified(t.z, "recv")
               s == Append(rest, ReadyOf(k))
    <2>1. caller' = [caller EXCEPT ![k] = w] /\ q' = Append(rest, Event(k, "can_recv"))
      BY <1>2, <1>10 DEF Notify, Notified
    <2>2. w \in CallerType /\ SameReads(w, t.z) /\ InOrder(w) /\ Timed(w) BY <1>5, <1>7, ToldSame
    <2> HIDE DEF w
    <2>3. ReadyOf(k) \in EventsTo(Len(caller)) /\ ReadOf(k) # ReadyOf(k)
      BY EventFields DEF Handles, ReadOf, ReadyOf, Made, EventKinds
    <2>4. /\ \A e : In(e, s) <=> In(e, rest) \/ e = ReadyOf(k)
          /\ \A e : Once(e, rest) /\ (e # ReadyOf(k) \/ ~In(e, rest)) => Once(e, s)
      BY <2>3, Appended DEF Handles
    <2>5. w.open /\ ~w.armR /\ w.msg # None
      BY <2>2, <1>1, <1>5, <1>8, <1>10 DEF SameReads
    <2> HIDE DEF s
    <2>6. ReadsOnce(w, s, k) BY <1>1, <1>4, <2>3, <2>4, <2>5 DEF ReadsOnce
    <2>7. s = Append(rest, Event(k, "can_recv")) BY DEF s, ReadyOf
    <2>8. "can_recv" \in EventKinds BY DEF EventKinds
    <2> QED BY <2>1, <2>2, <2>6, <2>7, <2>8, <1>6, HandlerSends, AnswersUnchanged
  <1>11. CASE t.err = "ok" /\ ~ready
    <2> DEFINE w == t.z
    <2>1. caller' = [caller EXCEPT ![k] = w] /\ q' = rest BY <1>2, <1>11 DEF Notify
    <2>2. /\ w \in CallerType /\ InOrder(w) /\ Timed(w) /\ w.open
          /\ ~w.armR \/ w.msg = None
      BY <1>5, <1>7, <1>11
    <2> HIDE DEF w
    <2>3. ReadsOnce(w, rest, k) BY <1>1, <1>4, <2>2 DEF ReadsOnce
    <2>4. CallerGood(w, rest, k) BY <2>2, <2>3 DEF CallerGood
    <2> QED BY <2>1, <2>2, <2>4, <1>6, HandlerLeaves, AnswersUnchanged
  <1> QED BY <1>5, <1>9, <1>10, <1>11

LEMMA HandleEventGood ==
    ASSUME ImpersonatorInv, None \notin Requests, TakeEvent
    PROVE  CallersGood' /\ Len(caller') = Len(caller) /\ AnswersGood'
  <1> DEFINE E == EventsTo(Len(caller))
             e == Head(q)
             k == e.to
             rest == Tail(q)
  <1>1. /\ CallersGood /\ AnswersGood /\ q \in Seq(E) /\ q # <<>>
    BY DEF ImpersonatorInv, CallersGood, TakeEvent
  <1> HIDE DEF E
  <1>2. /\ rest \in Seq(E) /\ e \in E /\ In(e, q) /\ Sub(rest, q)
        /\ Once(e, q) => ~In(e, rest)
    BY <1>1, TailIsSub
  <1>3. \/ e.what = "can_send" /\ OnCanSend(k, caller[k], rest)
        \/ e.what = "can_recv" /\ OnCanRecv(k, caller[k], rest)
        \/ e.what = "error"    /\ OnError(k, caller[k], rest)
        \/ e.what = "write"    /\ OnChannelWrite(k, caller[k], rest)
        \/ e.what = "read"     /\ OnChannelRead(k, caller[k], rest)
    BY DEF TakeEvent
  <1> HIDE DEF rest, e
  <1>4. k \in Made /\ e = Event(k, e.what) BY <1>2 DEF E, EventsTo, Made, Event
  <1> HIDE DEF k
  <1>5. Handles(k, rest) BY <1>1, <1>2, <1>4 DEF Handles, E
  <1>6. ReadsOnce(caller[k], q, k) BY <1>5, HandlesOne
  <1>7. CASE e.what = "can_send" /\ OnCanSend(k, caller[k], rest)
    BY <1>1, <1>5, <1>7, OnCanSendGood
  <1>8. CASE e.what = "can_recv" /\ OnCanRecv(k, caller[k], rest)
    <2>1. In(ReadyOf(k), q) /\ ~In(ReadyOf(k), rest)
      BY <1>2, <1>4, <1>6, <1>8 DEF ReadsOnce, ReadyOf
    <2> QED BY <1>1, <1>5, <1>8, <2>1, OnCanRecvGood
  <1>9. CASE e.what = "error" /\ OnError(k, caller[k], rest)
    <2>1. caller[k] \in CallerType BY <1>5, HandlesOne
    <2> QED BY <1>1, <1>5, <1>9, <2>1, OnErrorGood, OnErrorAnswers
  <1>10. CASE e.what = "write" /\ OnChannelWrite(k, caller[k], rest)
    BY <1>1, <1>5, <1>10, OnChannelWriteGood
  <1>11. CASE e.what = "read" /\ OnChannelRead(k, caller[k], rest)
    <2>1. In(ReadOf(k), q) /\ ~In(ReadOf(k), rest)
      BY <1>2, <1>4, <1>6, <1>11 DEF ReadsOnce, ReadOf
    <2> QED BY <1>1, <1>5, <1>11, <2>1, OnChannelReadGood
  <1> QED BY <1>3, <1>7, <1>8, <1>9, <1>10, <1>11

-----------------------------------------------------------------------------
\* The socket, the process and the deadline.

LEMMA TimeOutGood ==
    ASSUME ImpersonatorInv, None \notin Requests, NEW k \in Made, TimeOut(k)
    PROVE  CallersGood' /\ Len(caller') = Len(caller) /\ AnswersGood'
  <1>1. CallersGood /\ AnswersGood /\ q \in Seq(EventsTo(Len(caller)))
    BY DEF ImpersonatorInv, CallersGood
  <1>2. Handles(k, q) BY <1>1, SubItself DEF Handles
  <1>3. caller[k] \in CallerType BY <1>2, HandlesOne
  <1>4. OnError(k, caller[k], q) BY DEF TimeOut
  <1> QED BY <1>1, <1>2, <1>3, <1>4, OnErrorGood, OnErrorAnswers

LEMMA SocketReadsGood ==
    ASSUME ImpersonatorInv, None \notin Requests, NEW k \in Made, SocketReads(k)
    PROVE  CallersGood' /\ Len(caller') = Len(caller)
  <1> DEFINE z == caller[k]
             w == [z EXCEPT !.armR = FALSE]
             t == Append(q, ReadOf(k))
  <1>1. Handles(k, q) BY SubItself DEF Handles, ImpersonatorInv, CallersGood
  <1>2. z \in CallerType /\ InOrder(z) /\ Timed(z) /\ ReadsOnce(z, q, k) BY <1>1, HandlesOne
  <1>3. z.armR /\ caller' = [caller EXCEPT ![k] = w] /\ q' = q \o <<ReadOf(k)>>
    BY DEF SocketReads, SetCaller, ReadOf
  <1> HIDE DEF z
  <1>4. /\ w \in CallerType /\ w.recvQ = z.recvQ /\ w.timer = z.timer /\ w.said = z.said
        /\ w.asked = z.asked /\ w.state = z.state /\ w.open = z.open /\ w.msg = z.msg
        /\ w.out = z.out /\ w.armR = FALSE
    BY <1>2 DEF CallerType
  <1> HIDE DEF w
  <1>5. InOrder(w) /\ Timed(w) BY <1>2, <1>4 DEF InOrder, Timed, Spoken
  <1>6. ReadOf(k) \in EventsTo(Len(caller)) /\ ReadOf(k) # ReadyOf(k)
    BY EventFields DEF ReadOf, ReadyOf, Made, EventKinds
  <1>7. /\ q \o <<ReadOf(k)>> = t
        /\ \A e : In(e, t) <=> In(e, q) \/ e = ReadOf(k)
        /\ \A e : Once(e, q) /\ (e # ReadOf(k) \/ ~In(e, q)) => Once(e, t)
    BY <1>1, <1>6, Appended DEF Handles
  <1> HIDE DEF t
  <1>8. ReadsOnce(w, t, k) BY <1>2, <1>3, <1>4, <1>6, <1>7 DEF ReadsOnce
  <1>9. t = Append(q, Event(k, "read")) /\ "read" \in EventKinds
    BY DEF t, ReadOf, EventKinds
  <1> QED BY <1>1, <1>3, <1>4, <1>5, <1>7, <1>8, <1>9, HandlerSends

LEMMA SocketWritesGood ==
    ASSUME ImpersonatorInv, None \notin Requests, NEW k \in Made, SocketWrites(k)
    PROVE  CallersGood' /\ Len(caller') = Len(caller)
  <1> DEFINE z == caller[k]
             w == [z EXCEPT !.armW = FALSE]
  <1>1. Handles(k, q) BY SubItself DEF Handles, ImpersonatorInv, CallersGood
  <1>2. z \in CallerType /\ InOrder(z) /\ Timed(z) /\ ReadsOnce(z, q, k) BY <1>1, HandlesOne
  <1>3. caller' = [caller EXCEPT ![k] = w] /\ q' = q \o <<Event(k, "write")>>
    BY DEF SocketWrites, SetCaller
  <1> HIDE DEF z
  <1>4. /\ w \in CallerType /\ w.recvQ = z.recvQ /\ w.timer = z.timer /\ w.said = z.said
        /\ w.asked = z.asked /\ w.state = z.state /\ w.open = z.open /\ w.msg = z.msg
        /\ w.out = z.out /\ w.armR = z.armR
    BY <1>2 DEF CallerType
  <1> HIDE DEF w
  <1>5. InOrder(w) /\ Timed(w) /\ ReadsOnce(w, q, k)
    BY <1>2, <1>4 DEF InOrder, Timed, Spoken, ReadsOnce
  <1>6. "write" \in EventKinds BY DEF EventKinds
  <1>7. Event(k, "write") \in EventsTo(Len(caller)) BY <1>6, EventFields DEF Made
  <1>8. q' = Append(q, Event(k, "write")) BY <1>1, <1>3, <1>7, Appended DEF Handles
  <1>9. ReadsOnce(w, Append(q, Event(k, "write")), k) BY <1>1, <1>5, OtherEvents
  <1> QED BY <1>1, <1>3, <1>4, <1>5, <1>6, <1>8, <1>9, HandlerSends

\* The process changes what is in the socket pair and the state it is in itself.
LEMMA ProcessGood ==
    ASSUME ImpersonatorInv, None \notin Requests, NEW k \in Made, NEW w \in CallerType,
           SetCaller(k, w, <<>>), InOrder(w), Timed(w), SameReads(w, caller[k])
    PROVE  CallersGood' /\ Len(caller') = Len(caller)
  <1>1. Handles(k, q) BY SubItself DEF Handles, ImpersonatorInv, CallersGood
  <1>2. ReadsOnce(caller[k], q, k) BY <1>1, HandlesOne
  <1>3. caller' = [caller EXCEPT ![k] = w] /\ q' = q \o <<>> BY DEF SetCaller
  <1>4. q' = q BY <1>1, <1>3 DEF Handles
  <1>5. CallerGood(w, q, k) BY <1>2 DEF CallerGood, ReadsOnce, SameReads
  <1> QED BY <1>1, <1>3, <1>4, <1>5, HandlerLeaves

LEMMA ServeGood ==
    ASSUME ImpersonatorInv, None \notin Requests, NEW k \in Made, Serve(k)
    PROVE  CallersGood' /\ Len(caller') = Len(caller)
  <1> DEFINE z == caller[k]
             h == Head(z.asked)
             a == Tail(z.asked)
             s == Append(z.said, h)
             w == [z EXCEPT !.asked = a, !.said = s]
  <1>1. Handles(k, q) BY SubItself DEF Handles, ImpersonatorInv, CallersGood
  <1>2. z \in CallerType /\ InOrder(z) /\ Timed(z) BY <1>1, HandlesOne
  <1>3. z.open /\ z.state = "runs" /\ z.asked # <<>> /\ SetCaller(k, w, <<>>) BY DEF Serve
  <1>4. /\ Opt(z.msg) \in Seq(Requests) /\ Spoken(z) \in Seq(Requests)
        /\ z.said \in Seq(Requests) /\ z.asked \in Seq(Requests)
    BY <1>2, SpokenTyped
  <1>5. /\ h \in Requests /\ a \in Seq(Requests) /\ s \in Seq(Requests)
        /\ Spoken(z) \o z.asked = Append(Spoken(z), h) \o a
    <2> DEFINE p == Spoken(z)
               y == z.asked
    <2>1. p \in Seq(Requests) /\ y \in Seq(Requests) /\ y # <<>> BY <1>3, <1>4
    <2> HIDE DEF p, y
    <2>2. /\ Head(y) \in Requests /\ Tail(y) \in Seq(Requests)
          /\ p \o y = Append(p, Head(y)) \o Tail(y)
      BY <2>1, HeadMoves, SMTT(60)
    <2>3. s \in Seq(Requests) BY <1>4, <2>2 DEF y
    <2> QED BY <2>2, <2>3 DEF p, y
  <1>6. Opt(z.msg) \o s = Append(Spoken(z), h)
    <2>1. <<h>> \in Seq(Requests) BY <1>5
    <2>2. s = z.said \o <<h>> BY <1>4, <1>5, AppendIsConcat
    <2>3. Append(Spoken(z), h) = Spoken(z) \o <<h>> BY <1>4, <1>5, AppendIsConcat
    <2> DEFINE o == Opt(z.msg)
               v == z.said
               x == <<h>>
    <2>4. o \in Seq(Requests) /\ v \in Seq(Requests) /\ x \in Seq(Requests) BY <1>4, <2>1
    <2> HIDE DEF o, v, x
    <2>5. (o \o v) \o x = o \o (v \o x) BY <2>4, ConcatAssociative
    <2> QED BY <2>2, <2>3, <2>5 DEF Spoken, o, v, x
  <1>7. SameReads(z, caller[k]) BY DEF SameReads
  <1> HIDE DEF z, h, a, s
  <1>8. /\ w \in CallerType /\ w.recvQ = z.recvQ /\ w.timer = z.timer /\ w.said = s
        /\ w.asked = a /\ w.state = z.state /\ w.open = z.open /\ w.msg = z.msg
        /\ w.out = z.out /\ w.armR = z.armR
    BY <1>2, <1>5 DEF CallerType
  <1> HIDE DEF w
  <1>9. Spoken(w) = Append(Spoken(z), h) BY <1>6, <1>8 DEF Spoken
  <1>10. z.recvQ = Line(Spoken(w), a, z.out)
    BY <1>2, <1>3, <1>5, <1>9 DEF InOrder, Line
  <1>11. Leads(Spoken(w), z.recvQ)
    <2> DEFINE p == Spoken(w)
               o == Opt(z.out)
    <2>1. p \in Seq(Requests) /\ o \in Seq(Requests)
      BY <1>2, <1>8, SpokenTyped DEF Handles
    <2> HIDE DEF p, o
    <2>2. (p \o a) \o o = p \o (a \o o) /\ a \o o \in Seq(Requests)
      BY <2>1, <1>5, ConcatAssociative, SMTT(60)
    <2>3. Leads(p, p \o (a \o o)) BY <2>1, <2>2, LeadsConcat
    <2> QED BY <2>2, <2>3, <1>10 DEF Line, p, o
  <1>12. InOrder(w) /\ Timed(w) BY <1>2, <1>8, <1>10, <1>11 DEF InOrder, Timed
  <1>13. SameReads(w, caller[k]) BY <1>7, <1>8 DEF SameReads
  <1> QED BY <1>3, <1>8, <1>12, <1>13, ProcessGood

LEMMA HangGood ==
    ASSUME ImpersonatorInv, None \notin Requests, NEW k \in Made, Hang(k)
    PROVE  CallersGood' /\ Len(caller') = Len(caller)
  <1> DEFINE z == caller[k]
             w == [z EXCEPT !.state = "hangs"]
  <1>1. Handles(k, q) BY SubItself DEF Handles, ImpersonatorInv, CallersGood
  <1>2. z \in CallerType /\ InOrder(z) /\ Timed(z) BY <1>1, HandlesOne
  <1>3. z.state = "runs" /\ SetCaller(k, w, <<>>) BY DEF Hang
  <1>4. SameReads(z, caller[k]) BY DEF SameReads
  <1> HIDE DEF z
  <1>5. /\ w \in CallerType /\ w.recvQ = z.recvQ /\ w.timer = z.timer /\ w.said = z.said
        /\ w.asked = z.asked /\ w.open = z.open /\ w.msg = z.msg
        /\ w.out = z.out /\ w.armR = z.armR
    BY <1>2 DEF CallerType
  <1> HIDE DEF w
  <1>6. InOrder(w) /\ Timed(w) BY <1>2, <1>3, <1>5 DEF InOrder, Timed, Spoken
  <1>7. SameReads(w, caller[k]) BY <1>4, <1>5 DEF SameReads
  <1> QED BY <1>3, <1>5, <1>6, <1>7, ProcessGood

LEMMA DieGood ==
    ASSUME ImpersonatorInv, None \notin Requests, NEW k \in Made, Die(k)
    PROVE  CallersGood' /\ Len(caller') = Len(caller)
  <1> DEFINE z == caller[k]
             e == <<>>
  <1>1. Handles(k, q) BY SubItself DEF Handles, ImpersonatorInv, CallersGood
  <1>2. z \in CallerType /\ InOrder(z) /\ Timed(z) BY <1>1, HandlesOne
  <1>3. PICK s \in {z.said, e} :
          z.open /\ SetCaller(k, [z EXCEPT !.state = "dead", !.asked = e, !.said = s], <<>>)
    BY DEF Die
  <1>4. SameReads(z, caller[k]) BY DEF SameReads
  <1> DEFINE w == [z EXCEPT !.state = "dead", !.asked = e, !.said = s]
  <1>5. e \in Seq(Requests) /\ s \in Seq(Requests)
    <2>1. e \in Seq(Requests) /\ z.said \in Seq(Requests) BY <1>2 DEF CallerType
    <2> HIDE DEF e, z
    <2> QED BY <2>1, <1>3
  <1> HIDE DEF z, e
  <1>6. /\ w \in CallerType /\ w.recvQ = z.recvQ /\ w.timer = z.timer /\ w.said = s
        /\ w.open = z.open /\ w.msg = z.msg /\ w.armR = z.armR /\ w.state = "dead"
    BY <1>2, <1>5 DEF CallerType
  <1>7. SetCaller(k, w, <<>>) BY <1>3
  <1> HIDE DEF w
  <1>8. Leads(Spoken(w), z.recvQ)
    <2>1. Leads(Spoken(z), z.recvQ) BY <1>2, <1>3 DEF InOrder
    <2>2. CASE s = z.said BY <2>1, <2>2, <1>6 DEF Spoken
    <2>3. CASE s = e
      <3>1. Spoken(w) = Opt(z.msg) \o e BY <2>3, <1>6 DEF Spoken
      <3>2. Leads(Opt(z.msg), Opt(z.msg) \o z.said) /\ Opt(z.msg) \in Seq(Requests)
        BY <1>2, SpokenTyped, LeadsConcat DEF Handles
      <3>3. Opt(z.msg) \o e = Opt(z.msg) BY <3>2 DEF e
      <3>4. Leads(Opt(z.msg), z.recvQ)
        <4> DEFINE o == Opt(z.msg)
                   p == Spoken(z)
        <4>1. /\ Leads(o, p) /\ Leads(p, z.recvQ) /\ o \in Seq(Requests) /\ p \in Seq(Requests)
              /\ z.recvQ \in Seq(Requests)
          BY <1>1, <1>2, <2>1, <3>2, SpokenTyped DEF Spoken, Handles
        <4> HIDE DEF o, p
        <4>2. Leads(o, z.recvQ) BY <4>1, SMTT(60) DEF Leads
        <4> QED BY <4>2 DEF o
      <3> QED BY <3>1, <3>3, <3>4
    <2> QED BY <2>2, <2>3
  <1>9. InOrder(w) /\ Timed(w) BY <1>2, <1>6, <1>8 DEF InOrder, Timed
  <1>10. SameReads(w, caller[k]) BY <1>4, <1>6 DEF SameReads
  <1> QED BY <1>6, <1>7, <1>9, <1>10, ProcessGood

-----------------------------------------------------------------------------
\* The threads of the sessions.

LEMMA CallGood ==
    ASSUME ImpersonatorInv, None \notin Requests, NEW r \in Requests, Call(r)
    PROVE  CallersGood' /\ Len(caller') = Len(caller) /\ AnswersGood'
  <1> DEFINE k == holds[r]
             s == Append(caller[k].sendQ, r)
             z == [caller[k] EXCEPT !.sendQ = s]
  <1>1. k \in Made /\ AnswersGood
    BY DEF ImpersonatorInv, PoolGood, Holding, Call
  <1>2. Handles(k, q) BY <1>1, SubItself DEF Handles, ImpersonatorInv, CallersGood
  <1>3. /\ caller[k] \in CallerType /\ InOrder(caller[k]) /\ Timed(caller[k])
        /\ ReadsOnce(caller[k], q, k)
    BY <1>2, HandlesOne
  <1>4. \/ /\ ~z.open
           /\ OnError(k, z, q)
        \/ /\ z.open
           /\ caller' = [caller EXCEPT ![k] = z]
           /\ q' = IF Len(z.sendQ) = 1 THEN Append(q, Event(k, "can_send")) ELSE q
           /\ answer' = answer
    BY DEF Call
  <1>5. s \in Seq(Requests) BY <1>3 DEF CallerType
  <1> HIDE DEF s, k
  <1>6. /\ z \in CallerType /\ z.recvQ = caller[k].recvQ /\ z.timer = caller[k].timer
        /\ z.said = caller[k].said /\ z.asked = caller[k].asked /\ z.state = caller[k].state
        /\ z.open = caller[k].open /\ z.msg = caller[k].msg /\ z.armR = caller[k].armR
        /\ z.out = caller[k].out
    BY <1>3, <1>5 DEF CallerType
  <1> HIDE DEF z
  <1>7. InOrder(z) /\ Timed(z) /\ ReadsOnce(z, q, k)
    BY <1>3, <1>6 DEF InOrder, Timed, Spoken, ReadsOnce
  <1>8. CASE OnError(k, z, q) BY <1>1, <1>2, <1>6, <1>8, OnErrorGood, OnErrorAnswers
  <1>9. CASE /\ caller' = [caller EXCEPT ![k] = z] /\ answer' = answer
             /\ q' = Append(q, Event(k, "can_send"))
    <2>1. "can_send" \in EventKinds BY DEF EventKinds
    <2>2. ReadsOnce(z, Append(q, Event(k, "can_send")), k) BY <1>2, <1>7, OtherEvents
    <2> QED BY <1>1, <1>2, <1>6, <1>7, <1>9, <2>1, <2>2, HandlerSends, AnswersUnchanged
  <1>10. CASE /\ caller' = [caller EXCEPT ![k] = z] /\ answer' = answer /\ q' = q
    BY <1>1, <1>2, <1>6, <1>7, <1>10, HandlerLeaves, AnswersUnchanged DEF CallerGood
  <1> QED BY <1>4, <1>8, <1>9, <1>10

\* get_caller looks from the first caller that lives, or past the last.
LEMMA LiveFromInRange ==
    ASSUME NEW s \in Seq(Nat)
    PROVE  LiveFrom(s) \in 1..(Len(s) + 1)
  <1> DEFINE live == {i \in DOMAIN s : caller[s[i]].open}
  <1>1. live \in SUBSET Nat /\ live \subseteq 1..Len(s) OBVIOUS
  <1>2. LiveFrom(s) = IF live = {} THEN Len(s) + 1
                        ELSE CHOOSE i \in live : \A j \in live : i <= j
    BY DEF LiveFrom
  <1> HIDE DEF live
  <1>3. CASE live = {} BY <1>2, <1>3
  <1>4. CASE live # {}
    <2>1. \E i \in live : \A j \in live : i <= j BY <1>1, <1>4, Least
    <2> DEFINE m == CHOOSE i \in live : \A j \in live : i <= j
    <2>2. m \in live BY <2>1
    <2>3. LiveFrom(s) = m BY <1>2, <1>4
    <2> HIDE DEF m
    <2>4. m \in 1..Len(s) /\ Len(s) \in Nat BY <1>1, <2>2
    <2> QED BY <2>3, <2>4
  <1> QED BY <1>3, <1>4

LEMMA SubSeqIsSub ==
    ASSUME NEW E, NEW s \in Seq(E), NEW i \in 1..(Len(s) + 1)
    PROVE  /\ SubSeq(s, i, Len(s)) \in Seq(E) /\ Len(SubSeq(s, i, Len(s))) <= Len(s)
           /\ Sub(SubSeq(s, i, Len(s)), s)
  <1> DEFINE t == SubSeq(s, i, Len(s))
  <1>1. /\ t \in Seq(E) /\ Len(t) = (Len(s) - i) + 1 /\ DOMAIN t = 1..Len(t)
        /\ \A j \in 1..Len(t) : t[j] = s[(i + j) - 1]
    OBVIOUS
  <1> HIDE DEF t
  <1>2. \A j \in DOMAIN t : (i + j) - 1 \in DOMAIN s /\ t[j] = s[(i + j) - 1] /\ j \in Nat
    BY <1>1
  <1>3. ASSUME NEW e PROVE In(e, t) => In(e, s) BY <1>2 DEF In
  <1>4. ASSUME NEW e, Once(e, s) PROVE Once(e, t)
    <2> SUFFICES ASSUME NEW j \in DOMAIN t, NEW k \in DOMAIN t, t[j] = e, t[k] = e PROVE j = k
      BY DEF Once
    <2>1. (i + j) - 1 = (i + k) - 1 BY <1>2, <1>4 DEF Once
    <2> QED BY <2>1, <1>2
  <1>5. Sub(t, s) BY <1>3, <1>4 DEF Sub
  <1> QED BY <1>1, <1>5 DEF t

\* Callers in use are finitely many.
LEMMA InUseFinite == IsFiniteSet(InUse) /\ Cardinality(InUse) \in Nat
  <1>1. IsFiniteSet(Requests) BY RequestsAreNumbers, FS_Interval
  <1> DEFINE R == {s \in Requests : pc[s] \in {"got", "called"}}
  <1>2. IsFiniteSet(R) BY <1>1, FS_Subset
  <1>3. InUse = {holds[r] : r \in R} BY DEF InUse
  <1> HIDE DEF R
  <1>4. IsFiniteSet({holds[r] : r \in R})
    <2> DEFINE T == {holds[r] : r \in R}
               f == [r \in R |-> holds[r]]
    <2>1. f \in Surjection(R, T) BY DEF Surjection
    <2> HIDE DEF f, T
    <2>2. IsFiniteSet(T) BY <1>2, <2>1, FS_Surjection
    <2> QED BY <2>2 DEF T
  <1> QED BY <1>3, <1>4, FS_CardinalityType

\* A thread takes a caller that nobody holds and that is not available any more.
LEMMA TakenGood ==
    ASSUME ThreadsGood, PoolGood, NEW r \in Requests, ~Holding(r),
           NEW h \in Made', Made \subseteq Made', h \notin InUse,
           pc' = [pc EXCEPT ![r] = "got"], holds' = [holds EXCEPT ![r] = h],
           available' \in Seq(Made'), Sub(available', available), ~In(h, available'),
           (Cardinality(InUse) + 1) + Len(available') <= PoolSize
    PROVE  PoolGood'
  <1>1. /\ pc'[r] = "got" /\ holds'[r] = h
        /\ \A s \in Requests : s # r => pc'[s] = pc[s] /\ holds'[s] = holds[s]
    BY DEF ThreadsGood
  <1>2. /\ Holding(r)'
        /\ \A s \in Requests : s # r => (Holding(s)' <=> Holding(s))
    BY <1>1 DEF Holding
  <1>3. InUse = {holds[s] : s \in {x \in Requests : Holding(x)}}
        /\ InUse' = {holds'[s] : s \in {x \in Requests : Holding(x)'}}
    BY DEF InUse, Holding
  <1>4. InUse' = InUse \cup {h} BY <1>1, <1>2, <1>3
  <1>5. Cardinality(InUse') = Cardinality(InUse) + 1
    BY <1>4, InUseFinite, FS_AddElement
  <1>6. \A s \in Requests : Holding(s) => holds[s] # h BY <1>3
  <1>7. \A s \in Requests : Holding(s)' => holds'[s] \in Made'
    BY <1>1, <1>2 DEF PoolGood
  <1>8. \A s, u \in Requests : Holding(s)' /\ Holding(u)' /\ holds'[s] = holds'[u] => s = u
    BY <1>1, <1>2, <1>6 DEF PoolGood
  <1>9. \A s \in Requests : Holding(s)' => ~In(holds'[s], available')
    BY <1>1, <1>2 DEF PoolGood, Sub
  <1>10. \A k : Once(k, available') BY DEF PoolGood, Sub
  <1> QED BY <1>5, <1>7, <1>8, <1>9, <1>10 DEF PoolGood

LEMMA ReleaseGood ==
    ASSUME ThreadsGood, PoolGood, NEW r \in Requests, Release(r)
    PROVE  ThreadsGood' /\ PoolGood'
  <1> DEFINE h == holds[r]
  <1>1. /\ Holding(r) /\ h \in Made /\ Made' = Made /\ available \in Seq(Made)
        /\ ~In(h, available)
    BY DEF Release, Holding, PoolGood, ThreadsGood, Made
  <1>2. /\ pc'[r] = "done" /\ holds' = holds /\ caller' = caller
        /\ \A s \in Requests : s # r => pc'[s] = pc[s]
        /\ available' = Append(available, h)
    BY DEF Release, ThreadsGood
  <1>3. /\ ~Holding(r)'
        /\ \A s \in Requests : s # r => (Holding(s)' <=> Holding(s))
    BY <1>2 DEF Holding
  <1>4. InUse = {holds[s] : s \in {x \in Requests : Holding(x)}}
        /\ InUse' = {holds'[s] : s \in {x \in Requests : Holding(x)'}}
    BY DEF InUse, Holding
  <1>5. \A s \in Requests : Holding(s) /\ s # r => holds[s] # h BY <1>1 DEF PoolGood
  <1>6. InUse' = InUse \ {h} /\ h \in InUse
    BY <1>1, <1>2, <1>3, <1>4, <1>5
  <1>7. Cardinality(InUse') = Cardinality(InUse) - 1
    BY <1>6, InUseFinite, FS_RemoveElement
  <1>8. /\ available' \in Seq(Made) /\ Len(available') = Len(available) + 1
        /\ \A e : In(e, available') <=> In(e, available) \/ e = h
        /\ \A e : Once(e, available) /\ (e # h \/ ~In(e, available)) => Once(e, available')
    BY <1>1, <1>2, Appended
  <1>9. \A k : Once(k, available') BY <1>1, <1>8 DEF PoolGood
  <1>10. Cardinality(InUse') + Len(available') <= PoolSize
    BY <1>1, <1>7, <1>8, InUseFinite, RequestsAreNumbers DEF PoolGood
  <1>11. \A s \in Requests : Holding(s)' => holds'[s] \in Made'
    BY <1>1, <1>2, <1>3 DEF PoolGood
  <1>12. \A s, u \in Requests : Holding(s)' /\ Holding(u)' /\ holds'[s] = holds'[u] => s = u
    BY <1>2, <1>3 DEF PoolGood
  <1>13. \A s \in Requests : Holding(s)' => ~In(holds'[s], available')
    BY <1>2, <1>3, <1>5, <1>8 DEF PoolGood
  <1>14. PoolGood' BY <1>9, <1>10, <1>11, <1>12, <1>13 DEF PoolGood
  <1>15. ThreadsGood' BY <1>1, <1>2, <1>8 DEF ThreadsGood, Release
  <1> QED BY <1>14, <1>15

LEMMA ThreadsStay ==
    ASSUME ThreadsGood, PoolGood, Len(caller') = Len(caller),
           pc' = pc \/ (\E r \in Requests : pc[r] = "got" /\ pc' = [pc EXCEPT ![r] = "called"])
                    \/ (\E r \in Requests : pc[r] = "new" /\ pc' = [pc EXCEPT ![r] = "waits"]),
           holds' = holds, available' = available, signalled' \in BOOLEAN, lost' = lost,
           gone' \subseteq Requests
    PROVE  ThreadsGood' /\ PoolGood'
  <1>1. Made' = Made BY DEF Made
  <1>2. pc' \in [Requests -> {"new", "waits", "got", "called", "done"}] BY DEF ThreadsGood
  <1>3. \A s \in Requests : Holding(s)' <=> Holding(s) BY DEF Holding, ThreadsGood
  <1>4. InUse' = InUse
    <2>1. InUse = {holds[s] : s \in {x \in Requests : Holding(x)}}
          /\ InUse' = {holds'[s] : s \in {x \in Requests : Holding(x)'}}
      BY DEF InUse, Holding
    <2> QED BY <2>1, <1>3
  <1>5. ThreadsGood' BY <1>1, <1>2 DEF ThreadsGood
  <1>6. PoolGood' BY <1>1, <1>3, <1>4 DEF PoolGood
  <1> QED BY <1>5, <1>6

-----------------------------------------------------------------------------
\* get_caller: dead callers go, and the thread gets one that is there or a new one.

LEMMA NewCallerGood ==
    /\ NewCaller \in CallerType /\ InOrder(NewCaller) /\ Timed(NewCaller)
    /\ NewCaller.open /\ NewCaller.msg = None
    /\ Erased \in CallerType /\ InOrder(Erased) /\ Timed(Erased)
    /\ ~Erased.open /\ ~Erased.armR
  <1> DEFINE e == <<>>
             n == NewCaller
             d == Erased
  <1>1. e \in Seq(Requests) OBVIOUS
  <1>2. n = [sendQ |-> e, recvQ |-> e, timer |-> None, open |-> TRUE, out |-> None,
             msg |-> None, must |-> {"send", "recv"}, wait |-> FALSE, armR |-> TRUE,
             armW |-> TRUE, asked |-> e, said |-> e, state |-> "runs"]
    BY DEF NewCaller
  <1>3. d = [sendQ |-> e, recvQ |-> e, timer |-> None, open |-> FALSE, out |-> None,
             msg |-> None, must |-> {}, wait |-> FALSE, armR |-> FALSE,
             armW |-> FALSE, asked |-> e, said |-> e, state |-> "dead"]
    BY DEF Erased
  <1>4. e = <<>> OBVIOUS
  <1> HIDE DEF e, n, d
  <1>5. n \in CallerType /\ d \in CallerType BY <1>1, <1>2, <1>3 DEF CallerType
  <1>6. /\ n.recvQ = e /\ n.timer = None /\ n.open = TRUE /\ n.out = None /\ n.msg = None
        /\ n.asked = e /\ n.said = e
        /\ d.recvQ = e /\ d.timer = None /\ d.open = FALSE /\ d.armR = FALSE
    BY <1>2, <1>3
  <1>7. Timed(n) /\ Timed(d) /\ InOrder(d) BY <1>4, <1>6 DEF Timed, InOrder
  <1>8. Spoken(n) = e \o e /\ Line(Spoken(n), n.asked, n.out) = ((e \o e) \o e) \o e
    BY <1>4, <1>6 DEF Spoken, Line, Opt
  <1>9. e \o e = e BY <1>1, <1>4
  <1>10. InOrder(n) BY <1>4, <1>6, <1>8, <1>9 DEF InOrder, Leads
  <1> QED BY <1>5, <1>6, <1>7, <1>10 DEF n, d

LEMMA ErasedGood ==
    ASSUME CallersGood, NEW ks, Erase(ks)
    PROVE  /\ Without(ks) \in Seq(CallerType) /\ Len(Without(ks)) = Len(caller)
           /\ q' \in Seq(EventsTo(Len(caller))) /\ Sub(q', q)
           /\ \A k \in Made : CallerGood(Without(ks)[k], q', k)
  <1> DEFINE c1 == Without(ks)
             D == [to : ks, what : EventKinds]
             n == Len(caller)
  <1>1. caller \in Seq(CallerType) /\ n \in Nat /\ Made = 1..n BY DEF CallersGood, Made
  <1>2. \A k \in Made : caller[k] \in CallerType BY <1>1
  <1>3. c1 = [k \in Made |-> IF k \in ks THEN Erased ELSE caller[k]] BY DEF Without
  <1>4. c1 \in [1..n -> CallerType]
    <2> HIDE DEF c1, n
    <2>1. \A k \in Made : (IF k \in ks THEN Erased ELSE caller[k]) \in CallerType
      BY <1>2, NewCallerGood
    <2> QED BY <2>1, <1>1, <1>3
  <1>5. c1 \in Seq(CallerType) /\ Len(c1) = n
    <2> HIDE DEF c1, n
    <2> QED BY <1>1, <1>4
  <1> HIDE DEF c1
  <1>6. q' = Filtered(q, D) /\ q \in Seq(EventsTo(n)) BY DEF Erase, CallersGood
  <1> HIDE DEF D
  <1>7. q' \in Seq(EventsTo(n)) /\ Sub(q', q) /\ \A e \in D : ~In(e, q')
    BY <1>6, FilteredIsSub
  <1>8. ASSUME NEW k \in Made PROVE CallerGood(c1[k], q', k)
    <2>1. CallerGood(caller[k], q, k) BY DEF CallersGood
    <2>2. Once(ReadOf(k), q') /\ Once(ReadyOf(k), q')
      BY <1>7, <2>1 DEF CallerGood, ReadsOnce, Sub
    <2>3. CASE k \in ks
      <3>1. c1[k] = Erased BY <2>3, <1>3
      <3>2. ReadOf(k) \in D /\ ReadyOf(k) \in D
        BY <2>3 DEF D, ReadOf, ReadyOf, Event, EventKinds
      <3> QED BY <3>1, <3>2, <1>7, <2>2, NewCallerGood DEF CallerGood, ReadsOnce
    <2>4. CASE k \notin ks
      <3>1. c1[k] = caller[k] BY <2>4, <1>3
      <3>2. FewerFor(k, q', q) BY <1>7 DEF FewerFor, Sub
      <3> QED BY <3>1, <3>2, <2>1, ReadsOnceKept DEF CallerGood
    <2> QED BY <2>3, <2>4
  <1> QED BY <1>5, <1>7, <1>8 DEF c1, n

LEMMA GetCallerGood ==
    ASSUME ImpersonatorInv, NEW r \in Requests, ~Holding(r), ~MustWait,
           GetCaller(r), pc' = [pc EXCEPT ![r] = "got"], signalled' \in BOOLEAN,
           gone' = gone
    PROVE  CallersGood' /\ ThreadsGood' /\ PoolGood'
  <1> DEFINE i == LiveFrom(available)
             rest == SubSeq(available, i, Len(available))
             dead == {available[j] : j \in 1..(i - 1)}
             n == Len(caller)
             c1 == Without(dead)
  <1>0. /\ None \notin Requests /\ MaxCallers \in Nat /\ PoolSize \in Nat
        /\ Cardinality(InUse) \in Nat
    BY RequestsAreNumbers, InUseFinite
  <1>1. /\ CallersGood /\ ThreadsGood /\ PoolGood /\ available \in Seq(Made)
        /\ Made = 1..n /\ n \in Nat /\ caller \in Seq(CallerType) /\ n <= MaxCallers
    BY DEF ImpersonatorInv, CallersGood, ThreadsGood, Made
  <1>2. i \in 1..(Len(available) + 1)
    <2>1. available \in Seq(Nat) BY <1>1
    <2> QED BY <2>1, LiveFromInRange
  <1>3. /\ Erase(dead)
        /\ \/ /\ rest # <<>>
              /\ holds' = [holds EXCEPT ![r] = Head(rest)]
              /\ available' = Tail(rest)
              /\ caller' = c1
           \/ /\ rest = <<>> /\ n < MaxCallers
              /\ caller' = Append(c1, NewCaller)
              /\ holds' = [holds EXCEPT ![r] = n + 1]
              /\ available' = <<>>
    BY DEF GetCaller
  <1> HIDE DEF i
  <1>4. rest \in Seq(Made) /\ Len(rest) <= Len(available) /\ Sub(rest, available)
    BY <1>1, <1>2, SubSeqIsSub
  <1>5. dead \subseteq Made BY <1>1, <1>2
  <1> HIDE DEF rest, dead
  <1>6. /\ c1 \in Seq(CallerType) /\ Len(c1) = n
        /\ q' \in Seq(EventsTo(n)) /\ Sub(q', q)
        /\ \A k \in Made : CallerGood(c1[k], q', k)
    BY <1>1, <1>3, ErasedGood
  <1>7. lost' \subseteq Requests
    <2>1. \A k \in Made : Pending(k) \subseteq Requests
      <3> TAKE k \in Made
      <3>1. caller[k] \in CallerType BY <1>1
      <3>2. caller[k].sendQ \in Seq(Requests) /\ caller[k].recvQ \in Seq(Requests)
        BY <3>1 DEF CallerType
      <3> QED BY <3>2 DEF Pending, Range
    <2>2. lost' = lost \cup {x \in UNION {Pending(k) : k \in dead} : answer[x] = None}
      BY <1>3 DEF Erase
    <2> QED BY <1>1, <1>5, <2>1, <2>2 DEF ThreadsGood
  <1> HIDE DEF c1, n
  <1>8. pc' \in [Requests -> {"new", "waits", "got", "called", "done"}]
        /\ gone' \subseteq Requests
    BY <1>1 DEF ThreadsGood
  <1>9. Len(available) \in Nat /\ Len(rest) \in Nat BY <1>1, <1>4
  <1>10. CASE /\ rest # <<>>
              /\ holds' = [holds EXCEPT ![r] = Head(rest)]
              /\ available' = Tail(rest)
              /\ caller' = c1
    <2> DEFINE h == Head(rest)
    <2>1. Made' = Made /\ Len(caller') = n BY <1>1, <1>6, <1>10 DEF Made
    <2>2. CallersGood' BY <1>1, <1>6, <1>10, <2>1 DEF CallersGood
    <2>3. /\ Tail(rest) \in Seq(Made) /\ h \in Made /\ In(h, rest) /\ Sub(Tail(rest), rest)
          /\ Once(h, rest) => ~In(h, Tail(rest))
      BY <1>4, <1>10, TailIsSub
    <2>4. Len(Tail(rest)) = Len(rest) - 1 BY <1>4, <1>10
    <2> HIDE DEF h
    <2>5. ThreadsGood'
      <3>1. holds' \in [Requests -> 0..n] BY <1>1, <1>10, <2>3 DEF ThreadsGood, h, n
      <3> QED BY <1>7, <1>8, <1>10, <2>1, <2>3, <3>1 DEF ThreadsGood
    <2>6. In(h, available) /\ Sub(available', available) /\ ~In(h, available')
      BY <1>1, <1>4, <1>10, <2>3, SubOfSub DEF Sub, PoolGood
    <2>7. h \notin InUse BY <1>1, <2>6 DEF PoolGood, InUse, Holding
    <2>8. (Cardinality(InUse) + 1) + Len(available') <= PoolSize
      BY <1>0, <1>1, <1>4, <1>9, <1>10, <2>4 DEF PoolGood
    <2>9. holds' = [holds EXCEPT ![r] = h] /\ h \in Made' /\ available' \in Seq(Made')
      BY <1>10, <2>1, <2>3 DEF h
    <2>10. PoolGood' BY <1>1, <2>1, <2>6, <2>7, <2>8, <2>9, TakenGood
    <2> QED BY <2>2, <2>5, <2>10
  <1>11. CASE /\ rest = <<>> /\ n < MaxCallers
              /\ caller' = Append(c1, NewCaller)
              /\ holds' = [holds EXCEPT ![r] = n + 1]
              /\ available' = <<>>
    <2> DEFINE h == n + 1
    <2>1. /\ caller' \in Seq(CallerType) /\ Len(caller') = n + 1 /\ caller'[n + 1] = NewCaller
          /\ \A k \in 1..n : caller'[k] = c1[k]
      BY <1>1, <1>6, <1>11, NewCallerGood
    <2>2. /\ Made' = 1..(n + 1) /\ h \in Made' /\ Made \subseteq Made' /\ h \notin Made
          /\ \A k \in Made' : k \in Made \/ k = h
      BY <1>1, <2>1 DEF Made
    <2>3. q' \in Seq(EventsTo(n + 1))
      <3>1. EventsTo(n) \subseteq EventsTo(n + 1) BY <1>1 DEF EventsTo
      <3> QED BY <3>1, <1>6
    <2>4. \A e : In(e, q') => e \in EventsTo(n) BY <1>6 DEF In
    <2>5. ~In(ReadOf(h), q') /\ ~In(ReadyOf(h), q')
      BY <1>1, <2>2, <2>4 DEF EventsTo, ReadOf, ReadyOf, Event
    <2>6. ReadsOnce(NewCaller, q', h)
      BY <2>5, NewCallerGood DEF ReadsOnce, Once, In
    <2>7. ASSUME NEW k \in Made' PROVE CallerGood(caller'[k], q', k)
      <3>1. CASE k \in Made BY <3>1, <1>1, <1>6, <2>1
      <3>2. CASE k = h BY <3>2, <2>1, <2>6, NewCallerGood DEF CallerGood
      <3> QED BY <3>1, <3>2, <2>2
    <2>8. CallersGood'
      <3>1. Len(caller') <= MaxCallers BY <1>0, <1>1, <1>11, <2>1
      <3>2. q' \in Seq(EventsTo(Len(caller'))) BY <2>1, <2>3
      <3> QED BY <2>1, <2>7, <3>1, <3>2 DEF CallersGood
    <2>9. available' \in Seq(Made') /\ Len(available') = 0 /\ ~In(h, available')
          /\ Sub(available', available)
      BY <1>11 DEF In, Once, Sub
    <2>10. ThreadsGood'
      <3>1. holds' \in [Requests -> 0..(n + 1)]
        BY <1>1, <1>11 DEF ThreadsGood, n
      <3> QED BY <1>7, <1>8, <2>1, <2>9, <3>1 DEF ThreadsGood
    <2>11. h \notin InUse BY <1>1, <2>2 DEF PoolGood, InUse, Holding
    <2>12. (Cardinality(InUse) + 1) + Len(available') <= PoolSize
      <3>1. CASE available = <<>>
        <4>1. Len(available) = 0 BY <3>1
        <4>2. Cardinality(InUse) # PoolSize BY <3>1 DEF MustWait
        <4> QED BY <4>1, <4>2, <1>0, <1>1, <2>9 DEF PoolGood
      <3>2. CASE available # <<>>
        <4>1. Len(available) >= 1 BY <3>2, <1>1
        <4> QED BY <4>1, <1>0, <1>1, <1>9, <2>9 DEF PoolGood
      <3> QED BY <3>1, <3>2
    <2>13. holds' = [holds EXCEPT ![r] = h] BY <1>11
    <2> HIDE DEF h
    <2>14. PoolGood' BY <1>1, <2>2, <2>9, <2>11, <2>12, <2>13, TakenGood
    <2> QED BY <2>8, <2>10, <2>14
  <1> QED BY <1>3, <1>10, <1>11

LEMMA ThreadGood ==
    ASSUME ImpersonatorInv, NEW r \in Requests, Thread(r)
    PROVE  ImpersonatorInv'
  <1>0. /\ CallersGood /\ ThreadsGood /\ PoolGood /\ AnswersGood /\ None \notin Requests
    BY RequestsAreNumbers DEF ImpersonatorInv
  <1>1. CASE Get(r) \/ Woken(r)
    <2>1. /\ answer' = answer /\ gone' = gone /\ signalled' \in BOOLEAN /\ ~Holding(r)
      BY <1>0, <1>1 DEF Get, Woken, ThreadsGood, Holding
    <2>2. AnswersGood' BY <1>0, <2>1, AnswersUnchanged
    <2>3. CASE ~MustWait /\ GetCaller(r) /\ pc' = [pc EXCEPT ![r] = "got"]
      BY <1>0, <2>1, <2>2, <2>3, GetCallerGood DEF ImpersonatorInv
    <2>4. CASE /\ pc' = pc \/ (pc[r] = "new" /\ pc' = [pc EXCEPT ![r] = "waits"])
               /\ UNCHANGED <<holds, available, caller, q, lost>>
      <3>1. ThreadsGood' /\ PoolGood' BY <1>0, <2>1, <2>4, ThreadsStay DEF ThreadsGood
      <3>2. CallersGood' BY <1>0, <2>4 DEF CallersGood, Made
      <3> QED BY <2>2, <3>1, <3>2 DEF ImpersonatorInv
    <2> QED BY <1>1, <2>3, <2>4 DEF Get, Woken
  <1>2. CASE Call(r)
    <2>1. CallersGood' /\ Len(caller') = Len(caller) /\ AnswersGood'
      BY <1>0, <1>2, CallGood
    <2>2. /\ pc[r] = "got" /\ pc' = [pc EXCEPT ![r] = "called"]
          /\ UNCHANGED <<holds, available, signalled, lost, gone>>
      BY <1>2 DEF Call
    <2>3. ThreadsGood' /\ PoolGood' BY <1>0, <2>1, <2>2, ThreadsStay DEF ThreadsGood
    <2> QED BY <2>1, <2>3 DEF ImpersonatorInv
  <1>3. CASE Release(r)
    <2>1. ThreadsGood' /\ PoolGood' BY <1>0, <1>3, ReleaseGood
    <2>2. UNCHANGED <<caller, q, answer>> BY <1>3 DEF Release
    <2>3. CallersGood' BY <1>0, <2>2 DEF CallersGood, Made
    <2>4. AnswersGood' BY <1>0, <2>2, AnswersUnchanged
    <2> QED BY <2>1, <2>3, <2>4 DEF ImpersonatorInv
  <1> QED BY <1>1, <1>2, <1>3 DEF Thread

LEMMA ImpersonatorInit ==
    ASSUME IMInit
    PROVE  ImpersonatorInv
  <1>0. PoolSize \in Nat /\ MaxCallers \in Nat BY RequestsAreNumbers
  <1>1. /\ pc = [r \in Requests |-> "new"] /\ holds = [r \in Requests |-> 0]
        /\ available = <<>> /\ signalled = FALSE /\ caller = <<>> /\ q = <<>>
        /\ answer = [r \in Requests |-> None] /\ lost = {} /\ gone = {}
    BY DEF IMInit
  <1>2. Len(caller) = 0 /\ Made = {} BY <1>1 DEF Made
  <1>3. CallersGood BY <1>0, <1>1, <1>2 DEF CallersGood
  <1>4. ThreadsGood
    <2>1. holds \in [Requests -> 0..Len(caller)] /\ available \in Seq(Made) BY <1>1, <1>2
    <2>2. pc \in [Requests -> {"new", "waits", "got", "called", "done"}] BY <1>1
    <2> QED BY <1>1, <2>1, <2>2 DEF ThreadsGood
  <1>5. \A r \in Requests : ~Holding(r) BY <1>1 DEF Holding
  <1>6. InUse = {} BY <1>5 DEF InUse, Holding
  <1>7. Cardinality(InUse) = 0 BY <1>6, FS_EmptySet
  <1>8. Len(available) = 0 /\ \A k : Once(k, available) BY <1>1 DEF Once
  <1>9. PoolGood BY <1>0, <1>5, <1>7, <1>8 DEF PoolGood
  <1>10. AnswersGood BY <1>1 DEF AnswersGood, AnswerIsOwn
  <1> QED BY <1>3, <1>4, <1>9, <1>10 DEF ImpersonatorInv

LEMMA ImpersonatorStep ==
    ASSUME ImpersonatorInv, [IMNext]_IMvars
    PROVE  ImpersonatorInv'
  <1>0. /\ CallersGood /\ ThreadsGood /\ PoolGood /\ AnswersGood /\ None \notin Requests
    BY RequestsAreNumbers DEF ImpersonatorInv
  <1>1. ASSUME CallersGood', AnswersGood', Len(caller') = Len(caller),
               UNCHANGED <<pc, holds, available, signalled, lost, gone>>
        PROVE  ImpersonatorInv'
    <2>1. ThreadsGood' /\ PoolGood' BY <1>0, <1>1, ThreadsStay DEF ThreadsGood
    <2> QED BY <1>1, <2>1 DEF ImpersonatorInv
  <1>2. CASE \E r \in Requests : Thread(r) BY <1>2, ThreadGood
  <1>3. CASE \E r \in Requests : SessionEnds(r)
    <2>1. /\ UNCHANGED <<pc, holds, available, signalled, caller, q, answer, lost>>
          /\ gone' \subseteq Requests
      BY <1>0, <1>3 DEF SessionEnds, ThreadsGood
    <2>2. ThreadsGood' /\ PoolGood' BY <1>0, <2>1, ThreadsStay DEF ThreadsGood
    <2>3. CallersGood' BY <1>0, <2>1 DEF CallersGood, Made
    <2>4. AnswersGood' BY <1>0, <2>1, AnswersUnchanged
    <2> QED BY <2>2, <2>3, <2>4 DEF ImpersonatorInv
  <1>4. CASE TakeEvent
    <2>1. CallersGood' /\ Len(caller') = Len(caller) /\ AnswersGood' BY <1>0, <1>4, HandleEventGood
    <2> QED BY <1>1, <1>4, <2>1 DEF TakeEvent
  <1>5. ASSUME NEW k \in Made, Socket(k) \/ Serve(k) \/ Hang(k) \/ Die(k)
        PROVE  ImpersonatorInv'
    <2>1. CASE TimeOut(k)
      <3>1. CallersGood' /\ Len(caller') = Len(caller) /\ AnswersGood'
        BY <1>0, <2>1, TimeOutGood
      <3> QED BY <1>1, <2>1, <3>1 DEF TimeOut
    <2>2. CASE SocketReads(k) \/ SocketWrites(k) \/ Serve(k) \/ Hang(k) \/ Die(k)
      <3>1. CallersGood' /\ Len(caller') = Len(caller)
        BY <1>0, <2>2, SocketReadsGood, SocketWritesGood, ServeGood, HangGood, DieGood
      <3>2. UNCHANGED <<pc, holds, available, signalled, answer, lost, gone>>
        BY <2>2 DEF SocketReads, SocketWrites, Serve, Hang, Die, SetCaller
      <3>3. AnswersGood' BY <1>0, <3>2, AnswersUnchanged
      <3> QED BY <1>1, <3>1, <3>2, <3>3
    <2> QED BY <1>5, <2>1, <2>2 DEF Socket
  <1>6. CASE UNCHANGED IMvars
    <2>1. UNCHANGED <<pc, holds, available, signalled, caller, q, answer, lost, gone>>
      BY <1>6 DEF IMvars
    <2>2. CallersGood' BY <1>0, <2>1 DEF CallersGood, Made
    <2>3. AnswersGood' BY <1>0, <2>1, AnswersUnchanged
    <2> QED BY <1>1, <2>1, <2>2, <2>3
  <1> QED BY <1>2, <1>3, <1>4, <1>5, <1>6 DEF IMNext

LEMMA ImpersonatorTypes ==
    ASSUME ImpersonatorInv
    PROVE  IMTypeOK
  <1>1. /\ CallersGood /\ ThreadsGood /\ PoolGood /\ AnswersGood
    BY DEF ImpersonatorInv
  <1>2. ASSUME NEW k \in Made
        PROVE  /\ caller[k].timer \in Requests \cup {None}
               /\ Pending(k) \subseteq Requests
               /\ caller[k].state \in {"runs", "hangs", "dead"}
               /\ caller[k].timer = IF caller[k].recvQ = <<>> THEN None ELSE Head(caller[k].recvQ)
    <2>1. caller[k] \in CallerType /\ Timed(caller[k])
      BY <1>1 DEF CallersGood, CallerGood, Made
    <2>2. caller[k].sendQ \in Seq(Requests) /\ caller[k].recvQ \in Seq(Requests)
      BY <2>1 DEF CallerType
    <2> QED BY <2>1, <2>2 DEF CallerType, Timed, Pending, Range
  <1>3. InUse \cap Range(available) = {}
    BY <1>1 DEF PoolGood, InUse, Holding, Range, In
  <1>4. \A r, s \in Requests : {pc[r], pc[s]} \subseteq {"got", "called"} /\ holds[r] = holds[s]
                                  => r = s
    BY <1>1 DEF PoolGood, Holding
  <1>5. OldestIsTimed BY <1>2 DEF OldestIsTimed
  <1>6. /\ \A k \in Made : /\ caller[k].timer \in Requests \cup {None}
                             /\ Pending(k) \subseteq Requests
                             /\ caller[k].state \in {"runs", "hangs", "dead"}
        /\ Len(caller) <= MaxCallers
        /\ pc \in [Requests -> {"new", "waits", "got", "called", "done"}]
        /\ holds \in [Requests -> 0..Len(caller)] /\ signalled \in BOOLEAN
        /\ answer \in [Requests -> Requests \cup {None, Default}]
        /\ lost \subseteq Requests /\ gone \subseteq Requests
        /\ Cardinality(InUse) + Len(available) <= PoolSize
    BY <1>1, <1>2 DEF CallersGood, ThreadsGood, PoolGood, AnswersGood
  <1> QED BY <1>3, <1>4, <1>5, <1>6 DEF IMTypeOK

LEMMA ImpersonatorInvariant == IMSpec => []ImpersonatorInv
  <1>1. IMInit => ImpersonatorInv BY ImpersonatorInit
  <1>2. ImpersonatorInv /\ [IMNext]_IMvars => ImpersonatorInv' BY ImpersonatorStep
  <1> QED BY <1>1, <1>2, PTL DEF IMSpec

(* Whatever processes, time-outs and sessions do, the variables keep their *)
(* types, a caller is with one thread or available, there are never more   *)
(* than the pool's size of them, and each watches over its oldest request. *)
THEOREM CallersAreShared == IMSpec => []IMTypeOK
  <1>1. ImpersonatorInv => IMTypeOK BY ImpersonatorTypes
  <1> QED BY <1>1, ImpersonatorInvariant, PTL

(* A receiver is executed with the response to its own request or with the *)
(* default, though responses carry no number (caller::on_can_recv).        *)
THEOREM ResponsesReachTheirRequests == IMSpec => []AnswerIsOwn
  <1>1. ImpersonatorInv => AnswerIsOwn BY DEF ImpersonatorInv, AnswersGood
  <1> QED BY <1>1, ImpersonatorInvariant, PTL

-----------------------------------------------------------------------------
\* The channel: the types of its state and of the events in its queue, finer
\* than Events.

PipeCodes  == {"ok", "fail", "inval", "nobufs"}
LoopEvents ==
    ({"add"} \X Pipes \X {"ok", "fail", "inval"}) \cup ({"con"} \X Pipes \X {"ok", "fail"})
    \cup {<<"con", "out", "bye">>} \cup ({"pipe"} \X Pipes \X PipeCodes)
    \cup ({"read", "write"} \X {"ok", "fail"}) \cup ({"done"} \X PipeCodes)
    \cup ({"start"} \X Kinds) \cup {<<"shut">>, <<"sock">>}

Bunch == Seq(1..MaxTransfers)

ChannelType ==
    [n : 0..MaxTransfers, kind : Kinds \cup {"none"}, phase : {"idle", "run", "closing"},
     result : {"none"} \cup PipeCodes,
     add : [Pipes -> BOOLEAN], con : [Pipes -> BOOLEAN], buf : [Pipes -> Bunch],
     wa : [Pipes -> BOOLEAN], wc : [Pipes -> BOOLEAN], ae : [Pipes -> PipeCodes],
     ce : [Pipes -> {"ok", "fail", "again", "nodata"}], drain : [Pipes -> BOOLEAN],
     si : BOOLEAN, wr : BOOLEAN, ww : BOOLEAN, low : BOOLEAN, shut : BOOLEAN,
     q : Seq(LoopEvents), left : Int, asked : Bunch, sent : BOOLEAN, stored : Bunch,
     said : Nat, spoilt : BOOLEAN, peer : Nat, rx : Nat, eof : BOOLEAN, wire : Bunch,
     got : Bunch, broken : BOOLEAN, armR : BOOLEAN, armW : BOOLEAN, half : BOOLEAN]

-----------------------------------------------------------------------------
\* The channel's queue.

OnceIn(D, s) == \A i, j \in DOMAIN s : s[i] \in D /\ s[j] \in D => i = j

NoStart(s)   == \A k \in Kinds : ~In(<<"start", k>>, s)
StartLast(s) == \A i \in DOMAIN s : s[i][1] = "start" => i = Len(s)

\* t has no event that s does not have, and none more often.
Fewer(t, s) ==
    /\ t \in Seq(LoopEvents)
    /\ \A e : In(e, t) => In(e, s)
    /\ \A D : OnceIn(D, s) => OnceIn(D, t)

LEMMA PartIsFewer ==
    ASSUME NEW s \in Seq(LoopEvents), NEW t \in Seq(LoopEvents), NEW p, PartOf(t, s, Len(s), p)
    PROVE  Fewer(t, s)
  <1>1. DOMAIN t = 1..Len(t) /\ DOMAIN s = 1..Len(s) OBVIOUS
  <1>2. /\ \A i \in DOMAIN t : p[i] \in DOMAIN s /\ t[i] = s[p[i]]
        /\ \A i, j \in DOMAIN t : p[i] = p[j] => i = j
    BY <1>1 DEF PartOf
  <1>3. ASSUME NEW e, In(e, t) PROVE In(e, s) BY <1>2, <1>3 DEF In
  <1>4. ASSUME NEW D, OnceIn(D, s) PROVE OnceIn(D, t) BY <1>2, <1>4 DEF OnceIn
  <1> QED BY <1>3, <1>4 DEF Fewer

LEMMA FewerOfFewer ==
    ASSUME NEW s, NEW t, NEW u, Fewer(t, s), Fewer(u, t)
    PROVE  Fewer(u, s)
  BY DEF Fewer

LEMMA FewerItself ==
    ASSUME NEW s \in Seq(LoopEvents)
    PROVE  Fewer(s, s)
  BY DEF Fewer

\* What event_loop::filter_events does not drop stays.
LEMMA FilteredKeeps ==
    ASSUME NEW E, NEW s \in Seq(E), NEW D, NEW e, e \notin D, In(e, s)
    PROVE  In(e, Filtered(s, D))
  <1>0. PICK f : Kept(f, s, D) /\ Filtered(s, D) = f[Len(s)] BY FilteredSteps
  <1>1. /\ f[0] = <<>>
        /\ \A n \in Nat : f[n + 1] = IF s[n + 1] \in D THEN f[n] ELSE Append(f[n], s[n + 1])
    BY <1>0 DEF Kept
  <1>2. PICK i \in DOMAIN s : s[i] = e BY DEF In
  <1>3. i \in 1..Len(s) /\ Len(s) \in Nat /\ i \in Nat /\ i - 1 \in Nat /\ (i - 1) + 1 = i BY <1>2
  <1> DEFINE Has(n) == f[n] \in Seq(E) /\ (i <= n => In(e, f[n]))
             T == {n \in Nat : n <= Len(s) => Has(n)}
  <1>4. Has(0) BY <1>1, <1>3
  <1>5. ASSUME NEW n \in Nat, n + 1 <= Len(s), Has(n) PROVE Has(n + 1)
    <2>1. s[n + 1] \in E /\ f[n] \in Seq(E) BY <1>5
    <2>2. CASE s[n + 1] \in D
      <3>1. f[n + 1] = f[n] BY <2>2, <1>1
      <3>2. i # n + 1 BY <2>2, <1>2
      <3> QED BY <3>1, <3>2, <1>3, <1>5
    <2>3. CASE s[n + 1] \notin D
      <3>1. f[n + 1] = Append(f[n], s[n + 1]) BY <2>3, <1>1
      <3> DEFINE t == f[n]
                 d == s[n + 1]
      <3>2. t \in Seq(E) /\ d \in E BY <2>1
      <3> HIDE DEF t, d
      <3>3. Append(t, d) \in Seq(E) /\ \A x : In(x, Append(t, d)) <=> In(x, t) \/ x = d
        BY <3>2, Appended
      <3> QED BY <3>1, <3>3, <1>2, <1>3, <1>5 DEF t, d
    <2> QED BY <2>2, <2>3
  <1> HIDE DEF Has
  <1>6. T = Nat
    <2>1. T \in SUBSET Nat /\ 0 \in T BY <1>4
    <2>2. ASSUME NEW n \in T PROVE n + 1 \in T
      <3>1. n + 1 <= Len(s) => Has(n)
        BY <2>2
      <3> QED BY <3>1, <1>5, <2>2
    <2> HIDE DEF T
    <2> QED BY <2>1, <2>2, Induction
  <1>7. Has(Len(s)) BY <1>6, <1>3
  <1> QED BY <1>0, <1>3, <1>7 DEF Has

LEMMA FilteredIsFewer ==
    ASSUME NEW s \in Seq(LoopEvents), NEW D
    PROVE  /\ Filtered(s, D) \in Seq(LoopEvents) /\ Fewer(Filtered(s, D), s)
           /\ \A e \in D : ~In(e, Filtered(s, D))
           /\ \A e : e \notin D /\ In(e, s) => In(e, Filtered(s, D))
  <1> DEFINE t == Filtered(s, D)
  <1>1. t \in Seq(LoopEvents) /\ (\A i \in DOMAIN t : t[i] \notin D) /\ \E p : PartOf(t, s, Len(s), p)
    BY FilteredIsPart
  <1>2. \A e : e \notin D /\ In(e, s) => In(e, t) BY FilteredKeeps
  <1> HIDE DEF t
  <1>3. Fewer(t, s) BY <1>1, PartIsFewer
  <1>4. \A e \in D : ~In(e, t) BY <1>1 DEF In
  <1> QED BY <1>1, <1>2, <1>3, <1>4 DEF t

LEMMA TailIsFewer ==
    ASSUME NEW s \in Seq(LoopEvents), s # <<>>
    PROVE  /\ Tail(s) \in Seq(LoopEvents) /\ Fewer(Tail(s), s)
           /\ Head(s) \in LoopEvents /\ In(Head(s), s)
           /\ \A e : In(e, s) => e = Head(s) \/ In(e, Tail(s))
           /\ \A D : OnceIn(D, s) /\ Head(s) \in D => \A e \in D : ~In(e, Tail(s))
           /\ StartLast(s) => StartLast(Tail(s))
           /\ StartLast(s) /\ Head(s)[1] = "start" => Tail(s) = <<>>
  <1> DEFINE t == Tail(s)
             h == Head(s)
             n == Len(s)
  <1>0. n \in Nat /\ n >= 1 /\ DOMAIN s = 1..n OBVIOUS
  <1>a. t \in Seq(LoopEvents) /\ Len(t) = n - 1 /\ DOMAIN t = 1..(n - 1) BY <1>0
  <1>b. h = s[1] /\ h \in LoopEvents BY <1>0
  <1>c. \A i \in 1..(n - 1) : t[i] = s[i + 1] BY <1>0
  <1>d. n = 1 => t = <<>> BY <1>a
  <1>1. /\ t \in Seq(LoopEvents) /\ h \in LoopEvents /\ n \in Nat /\ n >= 1
        /\ DOMAIN s = 1..n /\ DOMAIN t = 1..(n - 1) /\ Len(t) = n - 1
        /\ h = s[1] /\ \A i \in 1..(n - 1) : t[i] = s[i + 1]
        /\ n = 1 => t = <<>>
    BY <1>0, <1>a, <1>b, <1>c, <1>d
  <1> HIDE DEF t, h, n
  <1>2. \A i \in DOMAIN t : i + 1 \in DOMAIN s /\ t[i] = s[i + 1] /\ i \in Nat /\ i + 1 # 1
    BY <1>1
  <1>3. \A i \in DOMAIN s : i = 1 \/ (i - 1 \in DOMAIN t /\ s[i] = t[i - 1])
    <2> TAKE i \in DOMAIN s
    <2>1. i \in 1..n /\ (i # 1 => i - 1 \in 1..(n - 1) /\ (i - 1) + 1 = i) BY <1>1
    <2> QED BY <2>1, <1>1
  <1>4. ASSUME NEW e, In(e, t) PROVE In(e, s) BY <1>2, <1>4 DEF In
  <1>5. ASSUME NEW D, OnceIn(D, s) PROVE OnceIn(D, t)
    <2> SUFFICES ASSUME NEW i \in DOMAIN t, NEW j \in DOMAIN t, t[i] \in D, t[j] \in D PROVE i = j
      BY DEF OnceIn
    <2>1. i + 1 = j + 1 BY <1>2, <1>5 DEF OnceIn
    <2> QED BY <2>1, <1>2
  <1>6. ASSUME NEW D, OnceIn(D, s), h \in D, NEW e \in D, In(e, t) PROVE FALSE
    <2>1. PICK i \in DOMAIN t : t[i] = e BY <1>6 DEF In
    <2>2. i + 1 = 1 BY <2>1, <1>1, <1>2, <1>6 DEF OnceIn
    <2> QED BY <2>2, <1>2
  <1>7. In(h, s) BY <1>1 DEF In
  <1>8. \A e : In(e, s) => e = h \/ In(e, t) BY <1>1, <1>3 DEF In
  <1>9. StartLast(s) => StartLast(t)
    <2> SUFFICES ASSUME StartLast(s), NEW i \in DOMAIN t, t[i][1] = "start" PROVE i = Len(t)
      BY DEF StartLast
    <2>1. i + 1 = n BY <1>1, <1>2 DEF StartLast, n
    <2> QED BY <2>1, <1>1, <1>2
  <1>10. ASSUME StartLast(s), h[1] = "start" PROVE t = <<>>
    <2>1. 1 \in DOMAIN s BY <1>1
    <2>2. 1 = n BY <1>1, <1>10, <2>1 DEF StartLast, n
    <2> QED BY <2>2, <1>1
  <1>11. Fewer(t, s) BY <1>1, <1>4, <1>5 DEF Fewer
  <1> QED BY <1>1, <1>6, <1>7, <1>8, <1>9, <1>10, <1>11 DEF t, h

LEMMA AppendedOnce ==
    ASSUME NEW s \in Seq(LoopEvents), NEW d \in LoopEvents
    PROVE  /\ Append(s, d) \in Seq(LoopEvents)
           /\ \A e : In(e, Append(s, d)) <=> In(e, s) \/ e = d
           /\ \A D : OnceIn(D, s) /\ (d \notin D \/ \A e \in D : ~In(e, s)) => OnceIn(D, Append(s, d))
           /\ NoStart(s) => StartLast(Append(s, d))
  <1> DEFINE t == Append(s, d)
             n == Len(s)
  <1>1. /\ t \in Seq(LoopEvents) /\ n \in Nat /\ Len(t) = n + 1
        /\ DOMAIN s = 1..n /\ DOMAIN t = 1..(n + 1) /\ t[n + 1] = d
        /\ \A i \in 1..n : t[i] = s[i]
    OBVIOUS
  <1> HIDE DEF t, n
  <1>2. \A i \in DOMAIN t : i = n + 1 \/ i \in DOMAIN s BY <1>1
  <1>3. n + 1 \in DOMAIN t /\ n + 1 \notin DOMAIN s /\ \A i \in DOMAIN s : i \in DOMAIN t
    BY <1>1
  <1>4. ASSUME NEW e PROVE In(e, t) <=> In(e, s) \/ e = d BY <1>1, <1>2, <1>3 DEF In
  <1>5. ASSUME NEW D, OnceIn(D, s), d \notin D \/ \A e \in D : ~In(e, s) PROVE OnceIn(D, t)
    <2> SUFFICES ASSUME NEW i \in DOMAIN t, NEW j \in DOMAIN t, t[i] \in D, t[j] \in D PROVE i = j
      BY DEF OnceIn
    <2>1. CASE d \notin D
      <3>1. i \in DOMAIN s /\ j \in DOMAIN s BY <2>1, <1>1, <1>2
      <3> QED BY <3>1, <1>1, <1>5 DEF OnceIn
    <2>2. CASE \A e \in D : ~In(e, s)
      <3>1. i \notin DOMAIN s /\ j \notin DOMAIN s BY <2>2, <1>1 DEF In
      <3> QED BY <3>1, <1>2
    <2> QED BY <2>1, <2>2, <1>5
  <1>6. ASSUME NoStart(s), NEW i \in DOMAIN t, t[i][1] = "start" PROVE i = Len(t)
    <2>1. CASE i = n + 1 BY <2>1, <1>1
    <2>2. CASE i \in DOMAIN s
      <3>1. s[i] \in LoopEvents /\ s[i][1] = "start" BY <2>2, <1>1, <1>6
      <3>2. \E k \in Kinds : s[i] = <<"start", k>> BY <3>1 DEF LoopEvents
      <3> QED BY <3>2, <2>2, <1>6 DEF NoStart, In
    <2> QED BY <2>1, <2>2, <1>2
  <1>7. NoStart(s) => StartLast(t) BY <1>6 DEF StartLast
  <1> QED BY <1>1, <1>4, <1>5, <1>7 DEF t

\* StartLast asks nothing of a queue that has no start event.
LEMMA NoStartIsLast ==
    ASSUME NEW s \in Seq(LoopEvents), NoStart(s)
    PROVE  StartLast(s)
  <1> SUFFICES ASSUME NEW i \in DOMAIN s, s[i][1] = "start" PROVE FALSE
    BY DEF StartLast
  <1>1. s[i] \in LoopEvents OBVIOUS
  <1>2. \E k \in Kinds : s[i] = <<"start", k>> BY <1>1 DEF LoopEvents
  <1> QED BY <1>2 DEF NoStart, In

-----------------------------------------------------------------------------
\* The channel's invariant.  InPlace is about the operators: what is attached,
\* and that the events in the queue find it.

Detached(s) == \A p \in Pipes : ~s.add[p] /\ ~s.con[p]

Targets(s) ==
    /\ \A p \in Pipes, x \in Codes : /\ In(<<"add", p, x>>, s.q) => s.add[p]
                                     /\ In(<<"con", p, x>>, s.q) => s.con[p]
    /\ \A x \in Codes :
        /\ In(<<"read", x>>, s.q) \/ In(<<"write", x>>, s.q) => s.si
        /\ In(<<"done", x>>, s.q) => s.phase = "run" /\ ~s.si
    /\ In(<<"sock">>, s.q) => s.phase = "closing"
    /\ \A k \in Kinds : In(<<"start", k>>, s.q) =>
          s.phase = "idle" /\ s.kind # "talk" /\ s.n # MaxTransfers

Attached(s) ==
    /\ ~s.si => Detached(s)
    /\ s.phase # "run" => ~s.si
    /\ s.phase # "idle" => s.n # 0
    /\ s.armR => s.si
    /\ s.armW => s.si \/ s.phase = "closing"

Dones == {"done"} \X Codes

InPlace(s) ==
    /\ s \in ChannelType /\ Len(s.buf["in"]) <= MaxBuffer /\ Len(s.wire) <= SendRoom
    /\ Targets(s) /\ Attached(s)
    /\ OnceIn(Dones, s.q) /\ StartLast(s.q)

\* Accounted is about the bytes: whose they are, and where.

Ours(s) ==
    /\ s.got \in Seq({s.n}) /\ s.wire \in Seq({s.n})
    /\ s.stored \in Seq({s.n}) /\ s.asked \in Seq({s.n})
    /\ \A p \in Pipes : s.buf[p] \in Seq({s.n})
    /\ s.phase = "idle" => s.asked = <<>> /\ (\A p \in Pipes : s.buf[p] = <<>>) /\ ~s.half

\* The events that make the lister go on.
Calls == {"add"} \X {"out"} \X Codes

Asking(s) ==
    /\ s.asked # <<>> => Len(s.asked) = 1 /\ s.kind = "list"
    /\ s.kind = "list" /\ s.add["out"] =>
        /\ OnceIn(Calls, s.q)
        /\ (\E e \in Calls : In(e, s.q)) => s.asked = <<>> /\ s.wa["out"]
        /\ s.asked # <<>> => s.wa["out"]

Shutting(s) ==
    s.shut \/ (s.half /\ s.phase = "run") \/ In(<<"shut">>, s.q) \/ In(<<"con", "out", "bye">>, s.q)

ShutsLate(s) ==
    /\ Shutting(s) => s.kind = "talk" /\ ~s.con["in"]
    /\ In(<<"con", "out", "bye">>, s.q) => s.buf["out"] = <<>>

Ends(s) ==
    /\ s.ce["out"] # "nodata"
    /\ s.kind # "talk" => \A p \in Pipes : s.drain[p] /\ s.ce[p] # "nodata"
    /\ s.kind = "talk" /\ s.con["in"] => s.left >= 1
    /\ s.kind \notin {"store", "talk"} => ~s.con["in"]
    /\ s.kind # "talk" => s.said = 0

Written0(s) == Len(s.got) + Len(s.wire)
Gone(s)     == Written0(s) + Len(s.buf["out"])

Flows(s) ==
    /\ s.kind = "send" /\ s.add["out"] /\ s.con["out"] => s.left >= 0 /\ Gone(s) + s.left = Bytes
    /\ s.kind = "store" /\ s.add["in"] /\ s.con["in"] =>
          /\ ((Len(s.stored) + Len(s.buf["in"])) + s.rx) + s.peer = Bytes
          /\ s.eof => s.peer = 0
    /\ s.kind = "talk" /\ s.con["out"] => Gone(s) = s.said

Listed(s) ==
    s.kind = "list" /\ s.add["out"] /\ s.con["out"] /\ ~In(<<"add", "out", "inval">>, s.q) =>
        s.left >= 0 /\ (Gone(s) + s.left) + Len(s.asked) = Bytes

Settled(s) ==
    /\ s.kind \in {"send", "list"} => ~s.con["out"] /\ Written0(s) = Bytes
    /\ s.kind = "store" => ~s.con["in"] /\ Len(s.stored) = Bytes
    /\ s.kind = "talk" => ~s.con["in"] /\ (s.left # 0 \/ (~s.con["out"] /\ Written0(s) = s.said))

Verdict(s) ==
    /\ s.phase = "run" => s.result = "none"
    /\ s.phase = "run" /\ (\E p \in Pipes : In(<<"pipe", p, "ok">>, s.q)) => Settled(s)
    /\ In(<<"done", "ok">>, s.q) \/ s.result = "ok" => Settled(s)

Accounted(s) == Ours(s) /\ Asking(s) /\ ShutsLate(s) /\ Ends(s) /\ Flows(s) /\ Verdict(s)

\* What fails between an entry that did not come and the end of the pipe.
Nearly(s) == InPlace(s) /\ (LateEntries \/ Accounted(s))
Good(s)   == InPlace(s) /\ (LateEntries \/ (Accounted(s) /\ Listed(s)))

ChannelInv == Good(ch)

-----------------------------------------------------------------------------
\* Steps that leave what the invariant is about as it is.

Same(t, s) ==
    /\ t \in ChannelType
    /\ t.n = s.n /\ t.kind = s.kind /\ t.phase = s.phase /\ t.result = s.result
    /\ t.add = s.add /\ t.con = s.con /\ t.buf = s.buf /\ t.wa = s.wa
    /\ t.ce = s.ce /\ t.drain = s.drain /\ t.si = s.si /\ t.q = s.q
    /\ t.left = s.left /\ t.asked = s.asked /\ t.stored = s.stored /\ t.said = s.said
    /\ t.rx = s.rx /\ t.peer = s.peer /\ t.eof = s.eof /\ t.wire = s.wire /\ t.got = s.got
    /\ (t.armR => s.armR \/ s.si) /\ (t.armW => s.armW \/ s.si)
    /\ (t.half => s.half) /\ (t.shut => s.shut)

LEMMA SameGood ==
    ASSUME NEW s, NEW t, Same(t, s), Good(s)
    PROVE  Good(t)
  <1>1. InPlace(s) => InPlace(t)
    BY DEF Same, InPlace, Targets, Attached, Detached
  <1>2. ASSUME Accounted(s) PROVE Accounted(t)
    <2>1. Ours(t) BY <1>2 DEF Same, Accounted, Ours
    <2>2. Asking(t) BY <1>2 DEF Same, Accounted, Asking
    <2>3. ShutsLate(t) BY <1>2 DEF Same, Accounted, ShutsLate, Shutting
    <2>4. Ends(t) BY <1>2 DEF Same, Accounted, Ends
    <2>5. Flows(t) BY <1>2, ZenonT(60) DEF Same, Accounted, Flows, Gone, Written0
    <2>6. Verdict(t) BY <1>2 DEF Same, Accounted, Verdict, Settled, Written0
    <2> QED BY <2>1, <2>2, <2>3, <2>4, <2>5, <2>6 DEF Accounted
  <1>3. Listed(s) => Listed(t) BY DEF Same, Listed, Gone, Written0
  <1> QED BY <1>1, <1>2, <1>3 DEF Good

\* What may be put into the queue.
Fits(s, e) ==
    /\ e \in LoopEvents /\ NoStart(s.q)
    /\ e[1] = "add" => s.add[e[2]]
    /\ e[1] = "con" => s.con[e[2]]
    /\ e[1] \in {"read", "write"} => s.si
    /\ e[1] = "done" => s.phase = "run" /\ ~s.si /\ \A d \in Dones : ~In(d, s.q)
    /\ e[1] = "sock" => s.phase = "closing"
    /\ e[1] = "start" => s.phase = "idle" /\ s.kind # "talk" /\ s.n # MaxTransfers
    /\ LateEntries \/
        /\ e \in Calls /\ s.kind = "list" =>
              s.asked = <<>> /\ s.wa["out"] /\ \A d \in Calls : ~In(d, s.q)
        /\ e = <<"shut">> \/ e = <<"con", "out", "bye">> => s.kind = "talk" /\ ~s.con["in"]
        /\ e = <<"con", "out", "bye">> => s.buf["out"] = <<>>
        /\ e \in {<<"pipe", p, "ok">> : p \in Pipes} => Settled(s)
        /\ e = <<"done", "ok">> => Settled(s)

\* The event of the entry that did not come makes the listing's account void.
LEMMA EventSentNearly ==
    ASSUME NEW s, Nearly(s), NEW e, Fits(s, e),
           LateEntries \/ Listed(s) \/ e = <<"add", "out", "inval">>
    PROVE  Good(Send(s, e))
  <1> DEFINE t == Send(s, e)
             u == Append(s.q, e)
  <1>1. s \in ChannelType /\ s.q \in Seq(LoopEvents) BY DEF Nearly, InPlace, ChannelType
  <1>2. /\ u \in Seq(LoopEvents)
        /\ \A d : In(d, u) <=> In(d, s.q) \/ d = e
        /\ \A D : OnceIn(D, s.q) /\ (e \notin D \/ \A d \in D : ~In(d, s.q)) => OnceIn(D, u)
        /\ NoStart(s.q) => StartLast(u)
    BY <1>1, AppendedOnce DEF Fits
  <1>3. t = [s EXCEPT !.q = u] BY DEF Send
  <1> HIDE DEF u, t
  <1>4. /\ t \in ChannelType /\ t.q = u
        /\ t.n = s.n /\ t.kind = s.kind /\ t.phase = s.phase /\ t.result = s.result
        /\ t.add = s.add /\ t.con = s.con /\ t.buf = s.buf /\ t.wa = s.wa
        /\ t.ce = s.ce /\ t.drain = s.drain /\ t.si = s.si /\ t.shut = s.shut
        /\ t.left = s.left /\ t.asked = s.asked /\ t.stored = s.stored /\ t.said = s.said
        /\ t.rx = s.rx /\ t.peer = s.peer /\ t.eof = s.eof /\ t.wire = s.wire /\ t.got = s.got
        /\ t.armR = s.armR /\ t.armW = s.armW /\ t.half = s.half
    BY <1>1, <1>2, <1>3, ZenonT(60) DEF ChannelType
  <1>5. InPlace(t)
    <2>0. InPlace(s) BY DEF Nearly
    <2>1. Len(t.buf["in"]) <= MaxBuffer /\ Len(t.wire) <= SendRoom /\ Attached(t)
      BY <1>4, <2>0 DEF InPlace, Attached, Detached
    <2>2. Targets(t) BY <1>2, <1>4, <2>0 DEF InPlace, Targets, Fits
    <2>3. OnceIn(Dones, t.q)
      <3>1. e \in Dones => e[1] = "done" BY DEF Dones
      <3> QED BY <1>2, <1>4, <2>0, <3>1 DEF InPlace, Fits
    <2>4. StartLast(t.q) BY <1>2, <1>4 DEF Fits
    <2> QED BY <1>4, <2>1, <2>2, <2>3, <2>4 DEF InPlace
  <1>6. ASSUME ~LateEntries, Accounted(s) PROVE Accounted(t)
    <2>1. Ours(t) BY <1>4, <1>6 DEF Accounted, Ours
    <2>2. Asking(t) BY <1>2, <1>4, <1>6 DEF Accounted, Asking, Fits
    <2>3. ShutsLate(t) BY <1>2, <1>4, <1>6 DEF Accounted, ShutsLate, Shutting, Fits
    <2>4. Ends(t) BY <1>4, <1>6 DEF Accounted, Ends
    <2>5. Flows(t) BY <1>2, <1>4, <1>6, ZenonT(60) DEF Accounted, Flows, Gone, Written0
    <2>6. Verdict(t) BY <1>2, <1>4, <1>6, ZenonT(60) DEF Accounted, Verdict, Settled, Written0, Fits
    <2> QED BY <2>1, <2>2, <2>3, <2>4, <2>5, <2>6 DEF Accounted
  <1>7. Listed(s) \/ e = <<"add", "out", "inval">> => Listed(t)
    BY <1>2, <1>4 DEF Listed, Gone, Written0
  <1> QED BY <1>5, <1>6, <1>7 DEF Good, Nearly, t

LEMMA EventSent ==
    ASSUME NEW s, Good(s), NEW e, Fits(s, e)
    PROVE  Good(Send(s, e))
  BY EventSentNearly DEF Good, Nearly

-----------------------------------------------------------------------------
\* Steps that take operators off, and their events with them.

Finds(s) ==
    /\ \A p \in Pipes, x \in Codes : /\ In(<<"add", p, x>>, s.q) => s.add[p]
                                     /\ In(<<"con", p, x>>, s.q) => s.con[p]
    /\ \A x \in Codes : In(<<"read", x>>, s.q) \/ In(<<"write", x>>, s.q) => s.si

Off(t, s) ==
    /\ t \in ChannelType /\ Finds(t) /\ Fewer(t.q, s.q)
    /\ t.n = s.n /\ t.kind = s.kind /\ t.phase = s.phase /\ t.result = s.result
    /\ t.left = s.left /\ t.asked = s.asked /\ t.stored = s.stored /\ t.said = s.said
    /\ t.rx = s.rx /\ t.peer = s.peer /\ t.eof = s.eof /\ t.wire = s.wire /\ t.got = s.got
    /\ t.half = s.half /\ t.shut = s.shut
    /\ \A p \in Pipes :
        /\ (t.add[p] => s.add[p]) /\ (t.con[p] => s.con[p])
        /\ t.buf[p] = s.buf[p] \/ (t.buf[p] = <<>> /\ ~t.add[p] /\ ~t.con[p])
        /\ t.drain[p] \/ t.drain[p] = s.drain[p]
        /\ t.ce[p] = s.ce[p] \/ t.ce[p] = "ok"
        /\ t.wa[p] = s.wa[p] \/ ~t.add[p]
    /\ (t.armR => s.armR) /\ (t.armW => s.armW)
    /\ t.si = s.si \/ (~t.si /\ Detached(t) /\ ~t.armR /\ ~t.armW)
    /\ In(<<"add", "out", "inval">>, s.q) /\ t.add["out"] => In(<<"add", "out", "inval">>, t.q)

LEMMA OffItself ==
    ASSUME NEW s \in ChannelType, Finds(s)
    PROVE  Off(s, s)
  <1>1. Fewer(s.q, s.q) BY FewerItself DEF ChannelType
  <1> QED BY <1>1 DEF Off

LEMMA OffTwice ==
    ASSUME NEW s, NEW t, NEW u, Off(t, s), Off(u, t)
    PROVE  Off(u, s)
  <1>1. Fewer(u.q, s.q) BY FewerOfFewer DEF Off
  <1>2. u.si = s.si \/ (~u.si /\ Detached(u) /\ ~u.armR /\ ~u.armW) BY DEF Off, Detached
  <1>3. \A p \in Pipes :
        /\ (u.add[p] => s.add[p]) /\ (u.con[p] => s.con[p])
        /\ u.buf[p] = s.buf[p] \/ (u.buf[p] = <<>> /\ ~u.add[p] /\ ~u.con[p])
        /\ u.drain[p] \/ u.drain[p] = s.drain[p]
        /\ u.ce[p] = s.ce[p] \/ u.ce[p] = "ok"
        /\ u.wa[p] = s.wa[p] \/ ~u.add[p]
    BY DEF Off
  <1>4. In(<<"add", "out", "inval">>, s.q) /\ u.add["out"] => In(<<"add", "out", "inval">>, u.q)
    BY DEF Off, Pipes
  <1>5. (u.armR => s.armR) /\ (u.armW => s.armW) BY DEF Off
  <1> QED BY <1>1, <1>2, <1>3, <1>4, <1>5 DEF Off

LEMMA OffInPlace ==
    ASSUME NEW s, NEW t, InPlace(s), s.phase # "idle", Off(t, s)
    PROVE  InPlace(t)
  <1>1. Len(t.buf["in"]) <= MaxBuffer
    <2>1. t.buf["in"] = s.buf["in"] \/ t.buf["in"] = <<>> BY DEF Off, Pipes
    <2>2. Len(s.buf["in"]) <= MaxBuffer /\ 0 <= MaxBuffer BY BoundsAssumption DEF InPlace
    <2> QED BY <2>1, <2>2
  <1>2. Targets(t)
    <2>1. \A x \in Codes : In(<<"done", x>>, t.q) => t.phase = "run" /\ ~t.si
      BY DEF InPlace, Targets, Off, Fewer, Attached
    <2>2. /\ In(<<"sock">>, t.q) => t.phase = "closing"
          /\ \A k \in Kinds : In(<<"start", k>>, t.q) => t.phase = "idle" /\ t.kind # "talk" /\ t.n # MaxTransfers
      BY DEF InPlace, Targets, Off, Fewer
    <2> QED BY <2>1, <2>2 DEF Off, Finds, Targets
  <1>3. Attached(t) BY DEF InPlace, Attached, Detached, Off
  <1>4. OnceIn(Dones, t.q) BY DEF InPlace, Off, Fewer
  <1>5. StartLast(t.q)
    <2>1. NoStart(t.q) BY DEF InPlace, Targets, NoStart, Off, Fewer
    <2> QED BY <2>1, NoStartIsLast DEF Off, ChannelType
  <1> QED BY <1>1, <1>2, <1>3, <1>4, <1>5 DEF InPlace, Off

LEMMA OffGood ==
    ASSUME NEW s, NEW t, Nearly(s), s.phase # "idle", Off(t, s), Listed(s) \/ ~t.add["out"]
    PROVE  Good(t)
  <1>0. InPlace(s) BY DEF Nearly
  <1>1. InPlace(t) BY <1>0, OffInPlace
  <1>2. ASSUME Accounted(s) PROVE Accounted(t)
    <2>1. Ours(t)
      <3>1. \A p \in Pipes : t.buf[p] \in Seq({t.n})
        <4> SUFFICES ASSUME NEW p \in Pipes PROVE t.buf[p] \in Seq({t.n}) OBVIOUS
        <4>1. s.buf[p] \in Seq({s.n}) /\ t.n = s.n BY <1>2 DEF Accounted, Ours, Off
        <4>2. <<>> \in Seq({s.n}) OBVIOUS
        <4> QED BY <4>1, <4>2 DEF Off
      <3> QED BY <3>1, <1>2 DEF Accounted, Ours, Off
    <2>2. Asking(t) BY <1>2 DEF Accounted, Asking, Off, Fewer, Pipes
    <2>3. ShutsLate(t)
      <3>1. Shutting(t) => Shutting(s) BY DEF Shutting, Off, Fewer
      <3>2. t.con["in"] => s.con["in"] BY DEF Off, Pipes
      <3>3. In(<<"con", "out", "bye">>, t.q) => In(<<"con", "out", "bye">>, s.q)
        BY DEF Off, Fewer
      <3>4. s.buf["out"] = <<>> => t.buf["out"] = <<>> BY DEF Off, Pipes
      <3> QED BY <3>1, <3>2, <3>3, <3>4, <1>2 DEF Accounted, ShutsLate, Off
    <2>4. Ends(t) BY <1>2 DEF Accounted, Ends, Off, Pipes
    <2>5. Flows(t) BY <1>2, ZenonT(60) DEF Accounted, Flows, Gone, Written0, Off, Pipes
    <2>6. Verdict(t) BY <1>2 DEF Accounted, Verdict, Settled, Written0, Off, Fewer, Pipes
    <2> QED BY <2>1, <2>2, <2>3, <2>4, <2>5, <2>6 DEF Accounted
  <1>3. Listed(t) BY DEF Listed, Gone, Written0, Off, Pipes
  <1> QED BY <1>1, <1>2, <1>3 DEF Good, Nearly

LEMMA UnsetAdderOff ==
    ASSUME NEW s \in ChannelType, Finds(s), NEW p \in Pipes
    PROVE  /\ Off(UnsetAdder(s, p), s) /\ ~UnsetAdder(s, p).add[p]
           /\ UnsetAdder(s, p).si = s.si /\ UnsetAdder(s, p).con = s.con
  <1> DEFINE D == {"add"} \X {p} \X Codes
             u == Filtered(s.q, D)
             t == UnsetAdder(s, p)
  <1>0. s.q \in Seq(LoopEvents) BY DEF ChannelType
  <1>1. /\ u \in Seq(LoopEvents) /\ Fewer(u, s.q) /\ (\A e \in D : ~In(e, u))
        /\ \A e : e \notin D /\ In(e, s.q) => In(e, u)
    BY <1>0, FilteredIsFewer
  <1>a. CASE ~s.add[p]
    <2>1. t = [s EXCEPT !.drain[p] = TRUE] BY <1>a DEF UnsetAdder
    <2> HIDE DEF t
    <2>2. /\ t \in ChannelType /\ t.q = s.q
          /\ t.n = s.n /\ t.kind = s.kind /\ t.phase = s.phase /\ t.result = s.result
          /\ t.left = s.left /\ t.asked = s.asked /\ t.stored = s.stored /\ t.said = s.said
          /\ t.rx = s.rx /\ t.peer = s.peer /\ t.eof = s.eof /\ t.wire = s.wire /\ t.got = s.got
          /\ t.half = s.half /\ t.shut = s.shut /\ t.armR = s.armR /\ t.armW = s.armW
          /\ t.add = s.add /\ t.con = s.con /\ t.buf = s.buf /\ t.ce = s.ce /\ t.wa = s.wa
          /\ t.si = s.si
      BY <2>1, ZenonT(60) DEF ChannelType
    <2>3. t.drain[p] /\ \A o \in Pipes : o # p => t.drain[o] = s.drain[o]
      BY <2>1 DEF ChannelType
    <2>4. Finds(t) BY <2>2 DEF Finds
    <2>5. Fewer(t.q, s.q) BY <1>0, <2>2, FewerItself
    <2> QED BY <1>a, <2>2, <2>3, <2>4, <2>5 DEF Off, t
  <1>b. CASE s.add[p]
    <2>1. t = [s EXCEPT !.add[p] = FALSE, !.wa[p] = FALSE, !.ae[p] = "ok", !.q = u, !.drain[p] = TRUE]
      BY <1>b DEF UnsetAdder, DropAdderEvents, Drop
    <2> HIDE DEF u, t
    <2>2. \A x \in Codes : ~In(<<"add", p, x>>, u) BY <1>1
    <2>3. p = "in" /\ In(<<"add", "out", "inval">>, s.q) => In(<<"add", "out", "inval">>, u)
      BY <1>1
    <2>4. t \in ChannelType BY <2>1, <1>1, ZenonT(60) DEF ChannelType, PipeCodes
    <2>5. /\ t.q = u
          /\ t.n = s.n /\ t.kind = s.kind /\ t.phase = s.phase /\ t.result = s.result
          /\ t.left = s.left /\ t.asked = s.asked /\ t.stored = s.stored /\ t.said = s.said
          /\ t.rx = s.rx /\ t.peer = s.peer /\ t.eof = s.eof /\ t.wire = s.wire /\ t.got = s.got
          /\ t.half = s.half /\ t.shut = s.shut /\ t.armR = s.armR /\ t.armW = s.armW
          /\ t.con = s.con /\ t.buf = s.buf /\ t.ce = s.ce /\ t.si = s.si
      BY <2>1 DEF ChannelType
    <2>6. /\ ~t.add[p] /\ t.drain[p]
          /\ \A o \in Pipes : o # p => /\ t.add[o] = s.add[o] /\ t.wa[o] = s.wa[o]
                                        /\ t.drain[o] = s.drain[o]
      BY <2>1 DEF ChannelType
    <2>7. Finds(t) BY <1>1, <2>2, <2>5, <2>6 DEF Finds, Fewer
    <2>8. In(<<"add", "out", "inval">>, s.q) /\ t.add["out"] => In(<<"add", "out", "inval">>, t.q)
      BY <2>3, <2>5, <2>6 DEF Pipes
    <2>9. \A o \in Pipes :
        /\ (t.add[o] => s.add[o]) /\ (t.con[o] => s.con[o])
        /\ t.drain[o] \/ t.drain[o] = s.drain[o]
        /\ t.wa[o] = s.wa[o] \/ ~t.add[o]
      BY <2>5, <2>6
    <2> QED BY <1>1, <2>4, <2>5, <2>6, <2>7, <2>8, <2>9 DEF Off, t
  <1> QED BY <1>a, <1>b

LEMMA UnsetConsumerOff ==
    ASSUME NEW s \in ChannelType, Finds(s), NEW p \in Pipes
    PROVE  /\ Off(UnsetConsumer(s, p), s) /\ ~UnsetConsumer(s, p).con[p]
           /\ UnsetConsumer(s, p).si = s.si /\ UnsetConsumer(s, p).add = s.add
           /\ UnsetConsumer(s, p).buf = s.buf
  <1> DEFINE D == {"con"} \X {p} \X Codes
             u == Filtered(s.q, D)
             t == UnsetConsumer(s, p)
  <1>0. s.q \in Seq(LoopEvents) BY DEF ChannelType
  <1>1. /\ u \in Seq(LoopEvents) /\ Fewer(u, s.q) /\ (\A e \in D : ~In(e, u))
        /\ \A e : e \notin D /\ In(e, s.q) => In(e, u)
    BY <1>0, FilteredIsFewer
  <1>a. CASE ~s.con[p]
    <2>1. t = s BY <1>a DEF UnsetConsumer
    <2> QED BY <2>1, <1>a, OffItself
  <1>b. CASE s.con[p]
    <2>1. t = [s EXCEPT !.con[p] = FALSE, !.wc[p] = FALSE, !.ce[p] = "ok", !.q = u]
      BY <1>b DEF UnsetConsumer, DropConsumerEvents, Drop
    <2> HIDE DEF u, t
    <2>2. \A x \in Codes : ~In(<<"con", p, x>>, u) BY <1>1
    <2>3. In(<<"add", "out", "inval">>, s.q) => In(<<"add", "out", "inval">>, u)
      BY <1>1
    <2>4. /\ t \in ChannelType /\ t.q = u
          /\ t.n = s.n /\ t.kind = s.kind /\ t.phase = s.phase /\ t.result = s.result
          /\ t.left = s.left /\ t.asked = s.asked /\ t.stored = s.stored /\ t.said = s.said
          /\ t.rx = s.rx /\ t.peer = s.peer /\ t.eof = s.eof /\ t.wire = s.wire /\ t.got = s.got
          /\ t.half = s.half /\ t.shut = s.shut /\ t.armR = s.armR /\ t.armW = s.armW
          /\ t.add = s.add /\ t.buf = s.buf /\ t.drain = s.drain /\ t.wa = s.wa /\ t.si = s.si
      BY <2>1, <1>1, ZenonT(60) DEF ChannelType
    <2>5. /\ ~t.con[p] /\ t.ce[p] = "ok"
          /\ \A o \in Pipes : o # p => t.con[o] = s.con[o] /\ t.ce[o] = s.ce[o]
      BY <2>1 DEF ChannelType
    <2>6. Finds(t) BY <1>1, <2>2, <2>4, <2>5 DEF Finds, Fewer
    <2>7. \A o \in Pipes : (t.con[o] => s.con[o]) /\ (t.ce[o] = s.ce[o] \/ t.ce[o] = "ok")
      BY <2>5
    <2> QED BY <1>1, <2>3, <2>4, <2>5, <2>6, <2>7 DEF Off, t
  <1> QED BY <1>a, <1>b

\* A pipe's buffer that nothing fills and nothing reads is emptied.
LEMMA EmptiedOff ==
    ASSUME NEW s \in ChannelType, Finds(s), NEW p \in Pipes, ~s.add[p], ~s.con[p]
    PROVE  Off([s EXCEPT !.buf[p] = <<>>], s)
  <1> DEFINE e == <<>>
             t == [s EXCEPT !.buf[p] = e]
  <1>1. e \in Bunch BY DEF Bunch
  <1>2. e = <<>> OBVIOUS
  <1> HIDE DEF e
  <1>3. t \in ChannelType BY <1>1, ZenonT(60) DEF ChannelType
  <1>4. Fewer(s.q, s.q) BY FewerItself DEF ChannelType
  <1>5. t.buf[p] = e /\ \A o \in Pipes : o # p => t.buf[o] = s.buf[o] BY DEF ChannelType
  <1>6. Finds(t) BY DEF Finds
  <1> QED BY <1>2, <1>3, <1>4, <1>5, <1>6 DEF Off

LEMMA UnsetSocketOff ==
    ASSUME NEW s \in ChannelType, Finds(s), Detached(s)
    PROVE  /\ Off(UnsetSocket(s), s) /\ ~UnsetSocket(s).si
           /\ Detached(UnsetSocket(s)) /\ ~UnsetSocket(s).armR /\ ~UnsetSocket(s).armW
  <1> DEFINE D == {"read", "write"} \X Codes
             u == Filtered(s.q, D)
             t == UnsetSocket(s)
  <1>0. s.q \in Seq(LoopEvents) BY DEF ChannelType
  <1>1. /\ u \in Seq(LoopEvents) /\ Fewer(u, s.q) /\ (\A e \in D : ~In(e, u))
        /\ \A e : e \notin D /\ In(e, s.q) => In(e, u)
    BY <1>0, FilteredIsFewer
  <1>2. t = [s EXCEPT !.si = FALSE, !.armR = FALSE, !.armW = FALSE, !.q = u]
    BY DEF UnsetSocket, Drop
  <1>3. \A x \in Codes : ~In(<<"read", x>>, u) /\ ~In(<<"write", x>>, u) BY <1>1
  <1> HIDE DEF u, t
  <1>7. t \in ChannelType
    <2> DEFINE v == [s EXCEPT !.si = FALSE, !.armR = FALSE]
               w == [v EXCEPT !.armW = FALSE]
    <2>1. v \in ChannelType BY ZenonT(60) DEF ChannelType
    <2> HIDE DEF v
    <2>2. w \in ChannelType BY <2>1, ZenonT(60) DEF ChannelType
    <2>3. t = [w EXCEPT !.q = u] BY <1>2 DEF v
    <2> HIDE DEF w
    <2>4. u \in Seq(LoopEvents) BY <1>1
    <2> QED BY <2>2, <2>3, <2>4, ZenonT(60) DEF ChannelType
  <1>4. /\ t \in ChannelType /\ t.q = u /\ ~t.si /\ ~t.armR /\ ~t.armW
        /\ t.n = s.n /\ t.kind = s.kind /\ t.phase = s.phase /\ t.result = s.result
        /\ t.left = s.left /\ t.asked = s.asked /\ t.stored = s.stored /\ t.said = s.said
        /\ t.rx = s.rx /\ t.peer = s.peer /\ t.eof = s.eof /\ t.wire = s.wire /\ t.got = s.got
        /\ t.half = s.half /\ t.shut = s.shut /\ t.ce = s.ce
        /\ t.con = s.con /\ t.add = s.add /\ t.buf = s.buf /\ t.drain = s.drain /\ t.wa = s.wa
    BY <1>2, <1>7 DEF ChannelType
  <1>5. Finds(t) BY <1>1, <1>3, <1>4 DEF Finds, Fewer
  <1>6. Detached(t) BY <1>4 DEF Detached
  <1> QED BY <1>1, <1>4, <1>5, <1>6 DEF Off, Detached, Pipes, t

-----------------------------------------------------------------------------
\* pipe::clear, channel::done and channel::clear.

LEMMA OffType ==
    ASSUME NEW s, NEW t, Off(t, s)
    PROVE  t \in ChannelType /\ Finds(t)
  BY DEF Off

LEMMA ClearPipeOff ==
    ASSUME NEW s \in ChannelType, Finds(s), NEW p \in Pipes
    PROVE  /\ Off(ClearPipe(s, p), s)
           /\ ~ClearPipe(s, p).add[p] /\ ~ClearPipe(s, p).con[p]
           /\ ClearPipe(s, p).buf[p] = <<>> /\ ClearPipe(s, p).si = s.si
  <1> DEFINE t == UnsetConsumer(s, p)
             u == UnsetAdder(t, p)
             v == [u EXCEPT !.buf[p] = <<>>]
  <1>1. Off(t, s) /\ ~t.con[p] /\ t.si = s.si BY UnsetConsumerOff
  <1> HIDE DEF t
  <1>2. Off(u, t) /\ ~u.add[p] /\ u.si = t.si /\ u.con = t.con BY <1>1, OffType, UnsetAdderOff
  <1> HIDE DEF u
  <1>3. Off(v, u) BY <1>1, <1>2, OffType, EmptiedOff
  <1>4. v.buf[p] = <<>> /\ v.add = u.add /\ v.con = u.con /\ v.si = u.si
    BY <1>2 DEF Off, ChannelType
  <1>5. ClearPipe(s, p) = v BY DEF ClearPipe, t, u
  <1> HIDE DEF v
  <1>6. Off(u, s) BY <1>1, <1>2, OffTwice
  <1>7. Off(v, s) BY <1>3, <1>6, OffTwice
  <1> QED BY <1>1, <1>2, <1>4, <1>5, <1>7

LEMMA DetachOff ==
    ASSUME NEW s \in ChannelType, Finds(s)
    PROVE  Off(Detach(s), s) /\ ~Detach(s).si
  <1> DEFINE t == UnsetAdder(s, "in")
             u == UnsetConsumer(t, "in")
             v == UnsetAdder(u, "out")
             w == UnsetConsumer(v, "out")
             x == UnsetSocket(w)
  <1>0. "in" \in Pipes /\ "out" \in Pipes BY DEF Pipes
  <1>1. Off(t, s) /\ ~t.add["in"] BY <1>0, UnsetAdderOff
  <1> HIDE DEF t
  <1>2. Off(u, t) /\ ~u.con["in"] /\ u.add = t.add BY <1>0, <1>1, OffType, UnsetConsumerOff
  <1> HIDE DEF u
  <1>3. Off(v, u) /\ ~v.add["out"] /\ v.con = u.con BY <1>0, <1>2, OffType, UnsetAdderOff
  <1> HIDE DEF v
  <1>4. Off(w, v) /\ ~w.con["out"] /\ w.add = v.add BY <1>0, <1>3, OffType, UnsetConsumerOff
  <1> HIDE DEF w
  <1>5. Off(u, s) BY <1>1, <1>2, OffTwice
  <1>6. Off(v, s) BY <1>3, <1>5, OffTwice
  <1>7. Off(w, s) BY <1>4, <1>6, OffTwice
  <1>8. Detached(w)
    <2>1. ~v.add["in"] BY <1>0, <1>1, <1>2, <1>3 DEF Off
    <2>2. ~w.con["in"] BY <1>0, <1>2, <1>3, <1>4 DEF Off
    <2> QED BY <2>1, <2>2, <1>3, <1>4 DEF Detached, Pipes
  <1>9. Off(x, w) /\ ~x.si BY <1>4, <1>8, OffType, UnsetSocketOff
  <1> HIDE DEF x
  <1>10. Off(x, s) BY <1>7, <1>9, OffTwice
  <1>11. Detach(s) = x BY DEF Detach, t, u, v, w, x
  <1> QED BY <1>9, <1>10, <1>11

LEMMA ClearChannelOff ==
    ASSUME NEW s \in ChannelType, Finds(s)
    PROVE  /\ Off(ClearChannel(s), s) /\ ~ClearChannel(s).si /\ Detached(ClearChannel(s))
           /\ ~ClearChannel(s).armR /\ ~ClearChannel(s).armW
           /\ \A p \in Pipes : ClearChannel(s).buf[p] = <<>>
  <1> DEFINE t == ClearPipe(s, "out")
             u == ClearPipe(t, "in")
             v == UnsetSocket(u)
  <1>0. "in" \in Pipes /\ "out" \in Pipes BY DEF Pipes
  <1>1. Off(t, s) /\ ~t.add["out"] /\ ~t.con["out"] /\ t.buf["out"] = <<>>
    BY <1>0, ClearPipeOff
  <1> HIDE DEF t
  <1>2. Off(u, t) /\ ~u.add["in"] /\ ~u.con["in"] /\ u.buf["in"] = <<>>
    BY <1>0, <1>1, OffType, ClearPipeOff
  <1> HIDE DEF u
  <1>3. Detached(u) /\ u.buf["out"] = <<>> BY <1>0, <1>1, <1>2 DEF Off, Detached, Pipes
  <1>4. Off(v, u) /\ ~v.si /\ Detached(v) /\ ~v.armR /\ ~v.armW
    BY <1>2, <1>3, OffType, UnsetSocketOff
  <1> HIDE DEF v
  <1>5. Off(u, s) BY <1>1, <1>2, OffTwice
  <1>6. Off(v, s) BY <1>4, <1>5, OffTwice
  <1>7. \A p \in Pipes : v.buf[p] = <<>> BY <1>2, <1>3, <1>4 DEF Off, Pipes
  <1>8. ClearChannel(s) = v BY DEF ClearChannel, t, u, v
  <1> QED BY <1>4, <1>6, <1>7, <1>8

-----------------------------------------------------------------------------
\* Events that are sent.

LEMMA GoodParts ==
    ASSUME NEW s, Good(s)
    PROVE  /\ Nearly(s) /\ InPlace(s) /\ s \in ChannelType /\ Finds(s)
           /\ s.phase # "idle" => NoStart(s.q)
           /\ ~LateEntries => Accounted(s) /\ Listed(s)
  <1>1. InPlace(s) /\ Nearly(s) BY DEF Good, Nearly
  <1>2. Finds(s) BY <1>1 DEF InPlace, Targets, Finds
  <1>3. s.phase # "idle" => NoStart(s.q) BY <1>1 DEF InPlace, Targets, NoStart
  <1> QED BY <1>1, <1>2, <1>3 DEF InPlace, Good

\* t is s with events added.
Queued(t, s) == \E u \in Seq(LoopEvents) : t = [s EXCEPT !.q = u]

LEMMA EventQueued ==
    ASSUME NEW s \in ChannelType, NEW e \in LoopEvents
    PROVE  Queued(Send(s, e), s)
  <1>1. s.q \in Seq(LoopEvents) BY DEF ChannelType
  <1>2. Append(s.q, e) \in Seq(LoopEvents) BY <1>1, AppendedOnce
  <1> QED BY <1>2 DEF Queued, Send

LEMMA NothingQueued ==
    ASSUME NEW s \in ChannelType
    PROVE  Queued(s, s)
  <1>1. s.q \in Seq(LoopEvents) /\ s = [s EXCEPT !.q = s.q] BY DEF ChannelType
  <1> QED BY <1>1 DEF Queued

LEMMA SendAdderGood ==
    ASSUME NEW s, Good(s), s.phase # "idle", NEW p \in Pipes, NEW err \in {"ok", "fail", "inval"},
           LateEntries \/ s.kind # "list" \/ p = "in" \/ ~s.add["out"]
                       \/ (s.asked = <<>> /\ s.wa["out"] /\ \A d \in Calls : ~In(d, s.q))
    PROVE  Good(SendAdder(s, p, err)) /\ Queued(SendAdder(s, p, err), s)
  <1> DEFINE e == <<"add", p, err>>
  <1>0. s \in ChannelType /\ NoStart(s.q) BY GoodParts
  <1>1. CASE ~s.add[p] BY <1>0, <1>1, NothingQueued DEF SendAdder
  <1>2. CASE s.add[p]
    <2>1. e \in LoopEvents BY DEF LoopEvents
    <2>2. e \in Calls => p = "out" BY DEF Calls
    <2>3. Fits(s, e) BY <1>0, <1>2, <2>1, <2>2 DEF Fits
    <2>4. SendAdder(s, p, err) = Send(s, e) BY <1>2 DEF SendAdder
    <2> HIDE DEF e
    <2> QED BY <1>0, <2>1, <2>3, <2>4, EventSent, EventQueued
  <1> QED BY <1>1, <1>2

LEMMA SendConsumerGood ==
    ASSUME NEW s, Good(s), s.phase # "idle", NEW p \in Pipes, NEW err \in {"ok", "fail"}
    PROVE  Good(SendConsumer(s, p, err)) /\ Queued(SendConsumer(s, p, err), s)
  <1> DEFINE e == <<"con", p, err>>
  <1>0. s \in ChannelType /\ NoStart(s.q) BY GoodParts
  <1>1. CASE ~s.con[p] BY <1>0, <1>1, NothingQueued DEF SendConsumer
  <1>2. CASE s.con[p]
    <2>1. e \in LoopEvents BY DEF LoopEvents
    <2>2. e \notin Calls BY DEF Calls
    <2>3. Fits(s, e) BY <1>0, <1>2, <2>1, <2>2 DEF Fits
    <2>4. SendConsumer(s, p, err) = Send(s, e) BY <1>2 DEF SendConsumer
    <2> HIDE DEF e
    <2> QED BY <1>0, <2>1, <2>3, <2>4, EventSent, EventQueued
  <1> QED BY <1>1, <1>2

LEMMA OffNearly ==
    ASSUME NEW s, NEW t, Nearly(s), s.phase # "idle", Off(t, s),
           LateEntries \/ Listed(s) \/ ~t.add["out"]
    PROVE  Good(t)
  <1>1. CASE LateEntries BY <1>1, OffInPlace DEF Good, Nearly
  <1>2. CASE ~LateEntries BY <1>2, OffGood
  <1> QED BY <1>1, <1>2

LEMMA SettledOff ==
    ASSUME NEW s, NEW t, Off(t, s), Settled(s)
    PROVE  Settled(t)
  BY DEF Off, Settled, Written0, Pipes

\* What has to hold for pipe p to end without an error: it is settled once the
\* pipe's consumer is off.
Settles(s, p) ==
    /\ s.kind \in {"send", "list"} => (p = "out" \/ ~s.con["out"]) /\ Written0(s) = Bytes
    /\ s.kind = "store" => (p = "in" \/ ~s.con["in"]) /\ Len(s.stored) = Bytes
    /\ s.kind = "talk" =>
        /\ p = "in" \/ ~s.con["in"]
        /\ s.left # 0 \/ ((p = "out" \/ ~s.con["out"]) /\ Written0(s) = s.said)

LEMMA PipeDoneGood ==
    ASSUME NEW s, Nearly(s), s.phase # "idle", NEW p \in Pipes,
           NEW err \in {"ok", "fail", "inval", "nobufs", "bye"},
           LateEntries \/ Listed(s) \/ p = "out",
           LateEntries \/ err \notin {"ok", "bye"} \/ Settles(s, p)
    PROVE  Good(PipeDone(s, p, err))
  <1> DEFINE t == ClearPipe(s, p)
             c == IF err = "bye" THEN "ok" ELSE err
             e == <<"pipe", p, c>>
  <1>0. s \in ChannelType /\ Finds(s) /\ InPlace(s) BY DEF Nearly, InPlace, Targets, Finds
  <1>1. Off(t, s) /\ ~t.add[p] /\ ~t.con[p] BY <1>0, ClearPipeOff
  <1>2. PipeDone(s, p, err) = Send(t, e) BY DEF PipeDone
  <1> HIDE DEF t
  <1>3. Good(t) BY <1>1, OffNearly
  <1>4. t.phase # "idle" /\ NoStart(t.q) BY <1>1, <1>3, GoodParts DEF Off
  <1>5. c \in PipeCodes BY DEF PipeCodes
  <1>6. LateEntries \/ c # "ok" \/ Settled(t)
    BY <1>1 DEF Settles, Settled, Off, Written0, Pipes
  <1> HIDE DEF c
  <1>7. e \in LoopEvents BY <1>5 DEF LoopEvents
  <1>8. e \notin Calls BY DEF Calls
  <1>9. Fits(t, e) BY <1>4, <1>6, <1>7, <1>8 DEF Fits
  <1> QED BY <1>2, <1>3, <1>9, EventSent

-----------------------------------------------------------------------------
\* The end of a pipe, of the channel and of the transfer.

LEMMA OnPipeDoneGood ==
    ASSUME NEW s, Good(s), s.phase # "idle", NEW p \in Pipes, NEW err \in PipeCodes,
           LateEntries \/ err # "ok" \/ s.phase # "run" \/ Settled(s)
    PROVE  Good(OnPipeDone(s, p, err))
  <1> DEFINE t == ClearPipe(s, Other(p))
             u == Detach(t)
             e == <<"done", err>>
  <1>0. Nearly(s) /\ s \in ChannelType /\ Finds(s) /\ (~LateEntries => Listed(s)) BY GoodParts
  <1>1. Other(p) \in Pipes BY DEF Other, Pipes
  <1>2. Off(t, s) /\ t.si = s.si BY <1>0, <1>1, ClearPipeOff
  <1>3. OnPipeDone(s, p, err) = IF t.si THEN Send(u, e) ELSE t BY DEF OnPipeDone
  <1> HIDE DEF t
  <1>4. Off(u, t) /\ ~u.si BY <1>2, OffType, DetachOff
  <1> HIDE DEF u
  <1>5. Off(u, s) BY <1>2, <1>4, OffTwice
  <1>6. Good(t) BY <1>0, <1>2, OffNearly
  <1>7. Good(u) BY <1>0, <1>5, OffNearly
  <1>8. CASE ~t.si BY <1>3, <1>6, <1>8
  <1>9. CASE t.si
    <2>1. s.phase = "run" BY <1>0, <1>2, <1>9, GoodParts DEF InPlace, Attached
    <2>2. u.phase = "run" BY <1>5, <2>1 DEF Off
    <2>3. \A d \in Dones : ~In(d, u.q)
      <3>1. \A d \in Dones : ~In(d, s.q)
        <4>1. InPlace(s) BY GoodParts
        <4> QED BY <4>1, <1>2, <1>9 DEF InPlace, Targets, Dones
      <3> QED BY <3>1, <1>5 DEF Off, Fewer
    <2>4. NoStart(u.q) BY <1>7, <2>2, GoodParts
    <2>5. LateEntries \/ err # "ok" \/ Settled(u) BY <2>1, <1>5, SettledOff
    <2>6. e \in LoopEvents /\ e \notin Calls BY DEF LoopEvents, Calls
    <2>7. Fits(u, e) BY <1>4, <2>2, <2>3, <2>4, <2>5, <2>6 DEF Fits
    <2> QED BY <1>3, <1>7, <1>9, <2>7, EventSent
  <1> QED BY <1>8, <1>9

LEMMA DroppedOff ==
    ASSUME NEW s \in ChannelType, Finds(s), NEW D, <<"add", "out", "inval">> \notin D
    PROVE  Off(Drop(s, D), s) /\ \A e \in D : ~In(e, Drop(s, D).q)
  <1> DEFINE u == Filtered(s.q, D)
             t == [s EXCEPT !.q = u]
  <1>0. s.q \in Seq(LoopEvents) BY DEF ChannelType
  <1>1. /\ u \in Seq(LoopEvents) /\ Fewer(u, s.q) /\ (\A e \in D : ~In(e, u))
        /\ \A e : e \notin D /\ In(e, s.q) => In(e, u)
    BY <1>0, FilteredIsFewer
  <1>2. Drop(s, D) = t BY DEF Drop
  <1> HIDE DEF u
  <1>3. t \in ChannelType
    <2>1. u \in Seq(LoopEvents) BY <1>1
    <2> QED BY <2>1, ZenonT(60) DEF ChannelType
  <1>4. t.q = u BY DEF ChannelType
  <1>5. Finds(t) BY <1>1 DEF Finds, Fewer
  <1> QED BY <1>1, <1>2, <1>3, <1>4, <1>5 DEF Off

LEMMA StoppedGood ==
    ASSUME NEW s, Good(s), s.phase # "idle", NEW err \in {"none"} \cup PipeCodes,
           LateEntries \/ err # "ok" \/ Settled(s)
    PROVE  Good(Stopped(s, err))
  <1> DEFINE r == [s EXCEPT !.result = err]
             D == ({"done"} \X Codes) \cup {<<"sock">>}
             t == Drop(r, D)
             u == ClearChannel(t)
             a == IF LateEntries THEN u.asked ELSE <<>>
             v == [u EXCEPT !.phase = "idle", !.armW = FALSE, !.half = FALSE, !.asked = a]
  <1>0. s \in ChannelType /\ Finds(s) /\ InPlace(s) /\ NoStart(s.q) /\ (~LateEntries => Accounted(s))
    BY GoodParts
  <1>1. r \in ChannelType /\ Finds(r)
    <2>1. r \in ChannelType BY <1>0, ZenonT(60) DEF ChannelType
    <2> QED BY <2>1, <1>0, ZenonT(60) DEF Finds, ChannelType
  <1>2. /\ r.result = err /\ r.n = s.n /\ r.kind = s.kind /\ r.phase = s.phase
        /\ r.add = s.add /\ r.con = s.con /\ r.buf = s.buf /\ r.wa = s.wa
        /\ r.ce = s.ce /\ r.drain = s.drain /\ r.si = s.si /\ r.q = s.q /\ r.shut = s.shut
        /\ r.left = s.left /\ r.asked = s.asked /\ r.stored = s.stored /\ r.said = s.said
        /\ r.rx = s.rx /\ r.peer = s.peer /\ r.eof = s.eof /\ r.wire = s.wire /\ r.got = s.got
        /\ r.armR = s.armR /\ r.armW = s.armW /\ r.half = s.half
    BY <1>0 DEF ChannelType
  <1>3. <<"add", "out", "inval">> \notin D OBVIOUS
  <1> HIDE DEF r
  <1>4. Off(t, r) /\ \A e \in D : ~In(e, t.q) BY <1>1, <1>3, DroppedOff
  <1> HIDE DEF t
  <1>5. /\ Off(u, t) /\ ~u.si /\ Detached(u) /\ ~u.armR /\ ~u.armW
        /\ \A p \in Pipes : u.buf[p] = <<>>
    BY <1>4, OffType, ClearChannelOff
  <1>6. Stopped(s, err) = v BY DEF Stopped, Close, r, t
  <1> HIDE DEF u
  <1>7. Off(u, r) BY <1>4, <1>5, OffTwice
  <1>8. u \in ChannelType /\ Finds(u) BY <1>7, OffType
  <1>9. a \in Bunch
    <2>1. u.asked \in Bunch BY <1>8 DEF ChannelType
    <2>2. <<>> \in Bunch BY DEF Bunch
    <2> QED BY <2>1, <2>2
  <1>10. ~LateEntries => a = <<>> OBVIOUS
  <1> HIDE DEF a
  <1>11. v \in ChannelType BY <1>8, <1>9, ZenonT(60) DEF ChannelType
  <1>12. /\ v.phase = "idle" /\ ~v.armW /\ ~v.half /\ v.asked = a
         /\ v.n = u.n /\ v.kind = u.kind /\ v.result = u.result
         /\ v.add = u.add /\ v.con = u.con /\ v.buf = u.buf /\ v.wa = u.wa
         /\ v.ce = u.ce /\ v.drain = u.drain /\ v.si = u.si /\ v.q = u.q /\ v.shut = u.shut
         /\ v.left = u.left /\ v.stored = u.stored /\ v.said = u.said
         /\ v.rx = u.rx /\ v.peer = u.peer /\ v.eof = u.eof /\ v.wire = u.wire /\ v.got = u.got
         /\ v.armR = u.armR
    BY <1>8 DEF ChannelType
  <1> HIDE DEF v
  <1>13. InPlace(v)
    <2>1. Len(v.buf["in"]) <= MaxBuffer BY <1>5, <1>12, BoundsAssumption DEF Pipes
    <2>8. Len(v.wire) <= SendRoom BY <1>0, <1>2, <1>7, <1>12 DEF InPlace, Off
    <2>2. NoStart(v.q) BY <1>0, <1>2, <1>7, <1>12 DEF NoStart, Off, Fewer
    <2>3. \A e \in D : ~In(e, v.q) BY <1>4, <1>5, <1>12 DEF Off, Fewer
    <2>4. Targets(v)
      <3>1. \A x \in Codes : ~In(<<"done", x>>, v.q) BY <2>3
      <3>2. ~In(<<"sock">>, v.q) BY <2>3
      <3> QED BY <3>1, <3>2, <2>2, <1>8, <1>12 DEF Targets, Finds, NoStart
    <2>5. Attached(v) BY <1>5, <1>12 DEF Attached, Detached
    <2>6. OnceIn(Dones, v.q) BY <1>0, <1>2, <1>7, <1>12 DEF InPlace, Off, Fewer
    <2>7. StartLast(v.q) BY <2>2, <1>11, NoStartIsLast DEF ChannelType
    <2> QED BY <1>11, <2>1, <2>4, <2>5, <2>6, <2>7, <2>8 DEF InPlace
  <1>14. ASSUME ~LateEntries PROVE Accounted(v) /\ Listed(v)
    <2>0. Accounted(s) BY <1>0, <1>14
    <2>1. Ours(v)
      <3>1. v.got \in Seq({v.n}) /\ v.wire \in Seq({v.n}) /\ v.stored \in Seq({v.n})
        BY <2>0, <1>2, <1>7, <1>12 DEF Accounted, Ours, Off
      <3>2. v.asked = <<>> /\ \A p \in Pipes : v.buf[p] = <<>> BY <1>5, <1>10, <1>12, <1>14
      <3>3. <<>> \in Seq({v.n}) OBVIOUS
      <3> QED BY <3>1, <3>2, <3>3, <1>12 DEF Ours
    <2>2. Asking(v)
      <3>1. ~v.add["out"] /\ v.asked = <<>> BY <1>5, <1>10, <1>12, <1>14 DEF Detached, Pipes
      <3> QED BY <3>1 DEF Asking
    <2>3. ShutsLate(v)
      <3>1. Shutting(v) => Shutting(s) BY <1>2, <1>7, <1>12 DEF Shutting, Off, Fewer
      <3>2. ~v.con["in"] /\ v.buf["out"] = <<>> BY <1>5, <1>12 DEF Detached, Pipes
      <3> QED BY <3>1, <3>2, <2>0, <1>2, <1>7, <1>12 DEF Accounted, ShutsLate, Off
    <2>4. Ends(v) BY <2>0, <1>2, <1>7, <1>12 DEF Accounted, Ends, Off, Pipes
    <2>5. Flows(v) /\ Listed(v) BY <1>5, <1>12 DEF Flows, Listed, Detached, Pipes
    <2>6. Verdict(v)
      <3>1. ~In(<<"done", "ok">>, v.q)
        <4>1. ~In(<<"done", "ok">>, t.q) BY <1>4 DEF Codes
        <4> QED BY <4>1, <1>5, <1>12 DEF Off, Fewer
      <3>2. ASSUME v.result = "ok" PROVE Settled(v)
        <4>1. Settled(s) BY <3>2, <1>14, <1>2, <1>7, <1>12 DEF Off
        <4>2. Settled(r) BY <4>1, <1>2 DEF Settled, Written0
        <4>3. Settled(u) BY <4>2, <1>7, SettledOff
        <4> QED BY <4>3, <1>12 DEF Settled, Written0
      <3> QED BY <3>1, <3>2, <1>12 DEF Verdict
    <2> QED BY <2>1, <2>2, <2>3, <2>4, <2>5, <2>6 DEF Accounted
  <1> QED BY <1>6, <1>13, <1>14 DEF Good

LEMMA DataSocketShutdownGood ==
    ASSUME NEW s, Good(s), s.phase # "idle", NEW err \in {"none"} \cup PipeCodes,
           LateEntries \/ err # "ok" \/ Settled(s),
           ~s.si, \A d \in Dones : ~In(d, s.q)
    PROVE  Good(DataSocketShutdown(s, err))
  <1>0. s \in ChannelType /\ InPlace(s) /\ NoStart(s.q) /\ (~LateEntries => Accounted(s) /\ Listed(s))
    BY GoodParts
  <1>1. CASE ~s.broken /\ Room(s) = 0
    <2> DEFINE r == [s EXCEPT !.half = TRUE, !.armW = TRUE]
               v == [r EXCEPT !.phase = "closing", !.result = err]
    <2>1. DataSocketShutdown(s, err) = v BY <1>1 DEF DataSocketShutdown, Shutdown, Ret
    <2>2. r \in ChannelType BY <1>0, ZenonT(60) DEF ChannelType
    <2>3. v \in ChannelType
      <3> HIDE DEF r
      <3> QED BY <2>2, ZenonT(60) DEF ChannelType
    <2>4. /\ v.phase = "closing" /\ v.result = err
          /\ v.n = s.n /\ v.kind = s.kind
          /\ v.add = s.add /\ v.con = s.con /\ v.buf = s.buf /\ v.wa = s.wa
          /\ v.ce = s.ce /\ v.drain = s.drain /\ v.si = s.si /\ v.q = s.q /\ v.shut = s.shut
          /\ v.left = s.left /\ v.asked = s.asked /\ v.stored = s.stored /\ v.said = s.said
          /\ v.rx = s.rx /\ v.peer = s.peer /\ v.eof = s.eof /\ v.wire = s.wire /\ v.got = s.got
          /\ v.armR = s.armR
      BY <1>0 DEF ChannelType
    <2> HIDE DEF v
    <2>5. InPlace(v)
      <3>1. Targets(v)
        <4>1. \A x \in Codes : ~In(<<"done", x>>, s.q) BY DEF Dones
        <4> QED BY <4>1, <1>0, <2>4 DEF InPlace, Targets, NoStart
      <3>2. Attached(v) BY <1>0, <2>4 DEF InPlace, Attached, Detached
      <3> QED BY <3>1, <3>2, <1>0, <2>3, <2>4 DEF InPlace
    <2>6. ASSUME ~LateEntries PROVE Accounted(v) /\ Listed(v)
      <3>0. Accounted(s) /\ Listed(s) BY <1>0, <2>6
      <3>1. Ours(v) BY <3>0, <2>4 DEF Accounted, Ours
      <3>2. Asking(v) BY <3>0, <2>4 DEF Accounted, Asking
      <3>3. ShutsLate(v) BY <3>0, <2>4 DEF Accounted, ShutsLate, Shutting
      <3>4. Ends(v) BY <3>0, <2>4 DEF Accounted, Ends
      <3>5. Flows(v) /\ Listed(v) BY <3>0, <2>4 DEF Accounted, Flows, Listed, Gone, Written0
      <3>6. Verdict(v) BY <3>0, <2>4, <2>6 DEF Accounted, Verdict, Settled, Written0
      <3> QED BY <3>1, <3>2, <3>3, <3>4, <3>5, <3>6 DEF Accounted
    <2> QED BY <2>1, <2>5, <2>6 DEF Good
  <1>2. CASE ~(~s.broken /\ Room(s) = 0)
    <2> DEFINE r == [s EXCEPT !.half = FALSE]
    <2>1. DataSocketShutdown(s, err) = Stopped(r, err)
      BY <1>2 DEF DataSocketShutdown, Shutdown, Ret
    <2>2. Same(r, s)
      <3>1. r \in ChannelType BY <1>0, ZenonT(60) DEF ChannelType
      <3> QED BY <3>1, ZenonT(60) DEF Same, ChannelType
    <2>3. r.phase # "idle" /\ (Settled(s) => Settled(r)) BY <2>2 DEF Same, Settled, Written0
    <2> HIDE DEF r
    <2>4. Good(r) BY <2>2, SameGood
    <2> QED BY <2>1, <2>3, <2>4, StoppedGood
  <1> QED BY <1>1, <1>2

LEMMA OnChannelDoneGood ==
    ASSUME NEW s, Good(s), s.phase # "idle", NEW err \in PipeCodes,
           LateEntries \/ err # "ok" \/ Settled(s),
           ~s.si, \A d \in Dones : ~In(d, s.q)
    PROVE  Good(OnChannelDone(s, err))
  BY StoppedGood, DataSocketShutdownGood DEF OnChannelDone

-----------------------------------------------------------------------------
\* Buffers.

LEMMA Filled ==
    ASSUME NEW E, NEW b \in Seq(E), NEW x \in E, NEW k \in Int
    PROVE  /\ b \o [i \in 1..k |-> x] \in Seq(E)
           /\ k >= 0 => Len(b \o [i \in 1..k |-> x]) = Len(b) + k
  <1> DEFINE m == IF k >= 0 THEN k ELSE 0
             f == [i \in 1..k |-> x]
  <1>1. m \in Nat /\ 1..k = 1..m OBVIOUS
  <1>2. f \in [1..m -> E] BY <1>1
  <1> HIDE DEF f
  <1>3. f \in Seq(E) /\ DOMAIN f = 1..m BY <1>1, <1>2
  <1>4. Len(f) = m BY <1>1, <1>3
  <1>5. b \o f \in Seq(E) /\ Len(b \o f) = Len(b) + Len(f) BY <1>3
  <1> QED BY <1>4, <1>5 DEF f

LEMMA Parted ==
    ASSUME NEW E, NEW b \in Seq(E), NEW k \in Nat, k <= Len(b)
    PROVE  /\ SubSeq(b, 1, k) \in Seq(E) /\ Len(SubSeq(b, 1, k)) = k
           /\ SubSeq(b, k + 1, Len(b)) \in Seq(E)
           /\ Len(SubSeq(b, k + 1, Len(b))) = Len(b) - k
  <1>1. \A i \in 1..k : b[i] \in E OBVIOUS
  <1>2. \A i \in (k + 1)..Len(b) : b[i] \in E OBVIOUS
  <1>3. Len(b) \in Nat /\ k + 1 \in Nat OBVIOUS
  <1>4. SubSeq(b, 1, k) \in Seq(E) /\ Len(SubSeq(b, 1, k)) = k
    <2>1. SubSeq(b, 1, k) = [i \in 1..k |-> b[i]] OBVIOUS
    <2> QED BY <2>1, <1>1
  <1>5. SubSeq(b, k + 1, Len(b)) \in Seq(E) /\ Len(SubSeq(b, k + 1, Len(b))) = Len(b) - k
    OBVIOUS
  <1> QED BY <1>4, <1>5

LEMMA Joined ==
    ASSUME NEW E, NEW a \in Seq(E), NEW b \in Seq(E)
    PROVE  a \o b \in Seq(E) /\ Len(a \o b) = Len(a) + Len(b)
  OBVIOUS

LEMMA Longer ==
    ASSUME NEW E, NEW a \in Seq(E), NEW x \in E
    PROVE  Append(a, x) \in Seq(E) /\ Len(Append(a, x)) = Len(a) + 1
  OBVIOUS

LEMMA Shorter ==
    ASSUME NEW E, NEW a \in Seq(E), a # <<>>
    PROVE  Tail(a) \in Seq(E) /\ Len(Tail(a)) = Len(a) - 1 /\ Head(a) \in E
  OBVIOUS

LEMMA OutBuffers ==
    ASSUME NEW s, Good(s), s.phase # "idle"
    PROVE  /\ s.n \in 1..MaxTransfers /\ MaxBuffer \in Nat \ {0}
           /\ \A p \in Pipes : s.buf[p] \in Bunch /\ Len(s.buf[p]) \in Nat
           /\ s.wire \in Bunch /\ Len(s.wire) \in Nat /\ s.stored \in Bunch /\ Len(s.stored) \in Nat
           /\ s.got \in Bunch /\ Len(s.got) \in Nat /\ s.asked \in Bunch /\ Len(s.asked) \in Nat
           /\ Len(s.buf["in"]) <= MaxBuffer /\ Len(s.wire) <= SendRoom
           /\ s.left \in Int /\ s.said \in Nat /\ s.rx \in Nat /\ s.peer \in Nat
           /\ Bytes \in Nat /\ SendRoom \in Nat
           /\ Written0(s) \in Nat /\ Gone(s) \in Nat
  <1>1. s \in ChannelType /\ InPlace(s) BY GoodParts
  <1>2. s.n \in 1..MaxTransfers BY <1>1, BoundsAssumption DEF InPlace, Attached, ChannelType
  <1>3. s.wire \in Bunch /\ s.got \in Bunch /\ \A p \in Pipes : s.buf[p] \in Bunch
    BY <1>1 DEF ChannelType
  <1>4. Len(s.wire) \in Nat /\ Len(s.got) \in Nat /\ \A p \in Pipes : Len(s.buf[p]) \in Nat
    BY <1>3 DEF Bunch
  <1>5. Written0(s) \in Nat
    <2> DEFINE a == Len(s.got)
               b == Len(s.wire)
    <2>1. a \in Nat /\ b \in Nat BY <1>4
    <2>2. Written0(s) = a + b BY DEF Written0
    <2> HIDE DEF a, b
    <2> QED BY <2>1, <2>2
  <1>6. Len(s.buf["out"]) \in Nat BY <1>4 DEF Pipes
  <1>7. Gone(s) \in Nat BY <1>5, <1>6 DEF Gone
  <1> QED BY <1>1, <1>2, <1>3, <1>4, <1>5, <1>7, BoundsAssumption, SMTT(60) DEF InPlace, ChannelType, Bunch

-----------------------------------------------------------------------------
\* socket_adapter

LEMMA OnShutdownGood ==
    ASSUME NEW s, Good(s), LateEntries \/ (s.kind = "talk" /\ ~s.con["in"])
    PROVE  /\ Good(OnShutdown(s)) /\ OnShutdown(s).phase = s.phase /\ OnShutdown(s).si = s.si
           /\ OnShutdown(s).con = s.con /\ OnShutdown(s).add = s.add /\ OnShutdown(s).kind = s.kind

  <1>0. s \in ChannelType /\ InPlace(s) BY GoodParts
  <1>1. ASSUME NEW z, Good(z), z.si => z.phase # "idle",
               z.si => z.buf["out"] = <<>>, LateEntries \/ (z.kind = "talk" /\ ~z.con["in"])
        PROVE  /\ Good(Finished(z)) /\ Finished(z).phase = z.phase /\ Finished(z).si = z.si
               /\ Finished(z).con = z.con /\ Finished(z).add = z.add /\ Finished(z).kind = z.kind
    <2> DEFINE e == <<"con", "out", "bye">>
               y == SendConsumer(z, "out", "bye")
    <2>0. z \in ChannelType /\ InPlace(z) BY <1>1, GoodParts
    <2>1. Good(y) /\ Queued(y, z)
      <3>1. CASE ~z.con["out"] BY <1>1, <2>0, <3>1, NothingQueued DEF SendConsumer
      <3>2. CASE z.con["out"]
        <4>1. z.si BY <2>0, <3>2 DEF InPlace, Attached, Detached, Pipes
        <4>2. NoStart(z.q) BY <1>1, <4>1, GoodParts
        <4>3. e \in LoopEvents /\ e \notin Calls BY DEF LoopEvents, Calls
        <4>4. Fits(z, e) BY <1>1, <3>2, <4>1, <4>2, <4>3 DEF Fits
        <4>5. y = Send(z, e) BY <3>2 DEF SendConsumer
        <4> HIDE DEF y
        <4> QED BY <1>1, <2>0, <4>3, <4>4, <4>5, EventSent, EventQueued
      <3> QED BY <3>1, <3>2
    <2>2. Finished(z) = [y EXCEPT !.shut = FALSE] BY DEF Finished
    <2> HIDE DEF y
    <2>3. y \in ChannelType BY <2>1, GoodParts
    <2>4. [y EXCEPT !.shut = FALSE] \in ChannelType BY <2>3, ZenonT(60) DEF ChannelType
    <2>5. Same([y EXCEPT !.shut = FALSE], y) BY <2>3, <2>4, ZenonT(60) DEF Same, ChannelType
    <2>6. Good(Finished(z)) BY <2>1, <2>2, <2>5, SameGood
    <2>7. y.phase = z.phase /\ y.si = z.si /\ y.con = z.con /\ y.add = z.add /\ y.kind = z.kind
      BY <2>0, <2>1 DEF Queued, ChannelType
    <2> QED BY <2>2, <2>5, <2>6, <2>7 DEF Same
  <1>2. CASE ~s.si
    <2>1. OnShutdown(s) = Finished(s) BY <1>2 DEF OnShutdown
    <2> QED BY <2>1, <1>1, <1>2
  <1>3. CASE s.si /\ s.buf["out"] # <<>>
    <2>1. OnShutdown(s) = s BY <1>3 DEF OnShutdown
    <2> QED BY <2>1
  <1>4. CASE s.si /\ s.buf["out"] = <<>>
    <2>0. s.phase = "run" BY <1>0, <1>4 DEF InPlace, Attached
    <2>1. CASE ~s.broken /\ Room(s) = 0
      <3> DEFINE r == [s EXCEPT !.half = TRUE, !.armW = TRUE]
      <3>1. OnShutdown(s) = r BY <1>4, <2>1 DEF OnShutdown, Shutdown, Ret
      <3>2. r \in ChannelType BY <1>0, ZenonT(60) DEF ChannelType
      <3>3. /\ r.n = s.n /\ r.kind = s.kind /\ r.phase = s.phase /\ r.result = s.result
            /\ r.add = s.add /\ r.con = s.con /\ r.buf = s.buf /\ r.wa = s.wa
            /\ r.ce = s.ce /\ r.drain = s.drain /\ r.si = s.si /\ r.q = s.q /\ r.shut = s.shut
            /\ r.left = s.left /\ r.asked = s.asked /\ r.stored = s.stored /\ r.said = s.said
            /\ r.rx = s.rx /\ r.peer = s.peer /\ r.eof = s.eof /\ r.wire = s.wire /\ r.got = s.got
            /\ r.armR = s.armR
        BY <1>0 DEF ChannelType
      <3> HIDE DEF r
      <3>4. InPlace(r) BY <1>0, <1>4, <3>2, <3>3 DEF InPlace, Targets, Attached, Detached
      <3>5. ASSUME ~LateEntries PROVE Accounted(r) /\ Listed(r)
        <4>0. Accounted(s) /\ Listed(s) /\ s.kind = "talk" /\ ~s.con["in"] BY <3>5, GoodParts
        <4>1. Ours(r) BY <4>0, <2>0, <3>3 DEF Accounted, Ours
        <4>2. Asking(r) BY <4>0, <3>3 DEF Accounted, Asking
        <4>3. ShutsLate(r) BY <4>0, <1>4, <3>3 DEF ShutsLate
        <4>4. Ends(r) BY <4>0, <3>3 DEF Accounted, Ends
        <4>5. Flows(r) /\ Listed(r) BY <4>0, <3>3 DEF Accounted, Flows, Listed, Gone, Written0
        <4>6. Verdict(r) BY <4>0, <3>3 DEF Accounted, Verdict, Settled, Written0
        <4> QED BY <4>1, <4>2, <4>3, <4>4, <4>5, <4>6 DEF Accounted
      <3> QED BY <3>1, <3>3, <3>4, <3>5 DEF Good
    <2>2. CASE ~(~s.broken /\ Room(s) = 0)
      <3> DEFINE r == [s EXCEPT !.half = FALSE]
      <3>1. OnShutdown(s) = Finished(r) BY <1>4, <2>2 DEF OnShutdown, Shutdown, Ret
      <3>2. r \in ChannelType BY <1>0, ZenonT(60) DEF ChannelType
      <3>3. Same(r, s) BY <1>0, <3>2, ZenonT(60) DEF Same, ChannelType
      <3> HIDE DEF r
      <3>4. Good(r) BY <3>3, SameGood
      <3>5. r.si = s.si /\ r.phase = s.phase /\ r.buf = s.buf /\ r.kind = s.kind /\ r.con = s.con
            /\ r.add = s.add
        BY <3>3 DEF Same
      <3>6. Good(Finished(r)) /\ Finished(r).phase = r.phase /\ Finished(r).si = r.si
            /\ Finished(r).con = r.con /\ Finished(r).add = r.add /\ Finished(r).kind = r.kind
        BY <1>1, <1>4, <2>0, <3>4, <3>5, ZenonT(60)
      <3> QED BY <3>1, <3>5, <3>6
    <2> QED BY <2>1, <2>2
  <1> QED BY <1>2, <1>3, <1>4

-----------------------------------------------------------------------------
\* What the adders return.

AddCodes == {"ok", "again", "nodata", "nobufs", "fail"}

\* pipe::add_to_buffer takes the adder's step r from s, while the pipe runs.
Ended(s, p) == ~(s.drain[p] /\ s.buf[p] # <<>> /\ s.ce[p] # "nodata")

Adds(r, s, p) ==
    /\ r.s \in ChannelType /\ r.err \in AddCodes
    /\ r.s.phase = s.phase /\ r.s.kind = s.kind /\ r.s.si = s.si /\ r.s.q = s.q
    /\ r.s.add = s.add /\ r.s.con = s.con /\ r.s.ce = s.ce /\ r.s.drain = s.drain
    /\ r.err = "again" => Good([r.s EXCEPT !.wa[p] = TRUE])
    /\ r.err # "again" => Good(r.s) /\ r.s.asked = s.asked
    /\ LateEntries \/ r.err # "nodata" \/ ~s.con[p] \/ ~Ended(r.s, p) \/ Settles(r.s, p)

\* The lister goes on when the entry it asked for has come, and not before.
MayAsk(s, p) ==
    LateEntries \/ p # "out" \/ s.kind # "list"
    \/ (s.asked = <<>> /\ \A d \in Calls : ~In(d, s.q))

LEMMA WaitsGood ==
    ASSUME NEW s, Good(s), NEW p \in Pipes
    PROVE  /\ Good([s EXCEPT !.wa[p] = TRUE]) /\ [s EXCEPT !.wa[p] = TRUE] \in ChannelType
           /\ [s EXCEPT !.wa[p] = TRUE].wa[p]
  <1> DEFINE t == [s EXCEPT !.wa[p] = TRUE]
  <1>0. s \in ChannelType /\ InPlace(s) BY GoodParts
  <1>1. t \in ChannelType BY <1>0, ZenonT(60) DEF ChannelType
  <1>2. /\ t.n = s.n /\ t.kind = s.kind /\ t.phase = s.phase /\ t.result = s.result
        /\ t.add = s.add /\ t.con = s.con /\ t.buf = s.buf
        /\ t.ce = s.ce /\ t.drain = s.drain /\ t.si = s.si /\ t.q = s.q /\ t.shut = s.shut
        /\ t.left = s.left /\ t.asked = s.asked /\ t.stored = s.stored /\ t.said = s.said
        /\ t.rx = s.rx /\ t.peer = s.peer /\ t.eof = s.eof /\ t.wire = s.wire /\ t.got = s.got
        /\ t.armR = s.armR /\ t.armW = s.armW /\ t.half = s.half
    BY <1>0 DEF ChannelType
  <1>3. \A o \in Pipes : s.wa[o] => t.wa[o] BY <1>0 DEF ChannelType
  <1>4. t.wa[p] BY <1>0 DEF ChannelType
  <1> HIDE DEF t
  <1>5. InPlace(t) BY <1>0, <1>1, <1>2 DEF InPlace, Targets, Attached, Detached
  <1>6. ASSUME ~LateEntries PROVE Accounted(t) /\ Listed(t)
    <2>0. Accounted(s) /\ Listed(s) BY <1>6, GoodParts
    <2>1. Ours(t) BY <2>0, <1>2 DEF Accounted, Ours
    <2>2. Asking(t) BY <2>0, <1>2, <1>3 DEF Accounted, Asking, Pipes
    <2>3. ShutsLate(t) BY <2>0, <1>2 DEF Accounted, ShutsLate, Shutting
    <2>4. Ends(t) BY <2>0, <1>2 DEF Accounted, Ends
    <2>5. Flows(t) /\ Listed(t) BY <2>0, <1>2, ZenonT(60) DEF Accounted, Flows, Listed, Gone, Written0
    <2>6. Verdict(t) BY <2>0, <1>2 DEF Accounted, Verdict, Settled, Written0
    <2> QED BY <2>1, <2>2, <2>3, <2>4, <2>5, <2>6 DEF Accounted
  <1> QED BY <1>1, <1>4, <1>5, <1>6 DEF Good, t

\* An adder that leaves the invariant's state alone.
LEMMA AddsSame ==
    ASSUME NEW s, Good(s), NEW p \in Pipes, NEW r, Same(r.s, s), r.err \in AddCodes \ {"nodata"}
    PROVE  Adds(r, s, p)
  <1>1. Good(r.s) BY SameGood
  <1>2. Good([r.s EXCEPT !.wa[p] = TRUE]) BY <1>1, WaitsGood
  <1> QED BY <1>1, <1>2 DEF Adds, Same

\* An adder that has no more.
LEMMA AddsNothing ==
    ASSUME NEW s, Good(s), NEW p \in Pipes, NEW r, r.s = s, r.err = "nodata",
           LateEntries \/ ~s.con[p] \/ ~Ended(s, p) \/ Settles(s, p)
    PROVE  Adds(r, s, p)
  <1>1. s \in ChannelType BY GoodParts
  <1> QED BY <1>1 DEF Adds, AddCodes

LEMMA ReadAdds ==
    ASSUME NEW s, Good(s), s.phase = "run", s.add["in"]
    PROVE  Adds(Read(s), s, "in")
  <1> DEFINE k == Lesser(s.rx, MaxBuffer - Len(s.buf["in"]))
             r == Read(s)
             b == s.buf["in"] \o [i \in 1..k |-> s.n]
             v == [s EXCEPT !.rx = @ - k, !.buf["in"] = b]
  <1>0. s \in ChannelType /\ InPlace(s) BY GoodParts
  <1>1. "in" \in Pipes BY DEF Pipes
  <1>2. CASE ~s.si \/ s.wr \/ s.low
    <2>1. r.s = s /\ r.err = "again" BY <1>2 DEF Read, Ret
    <2>2. Same(s, s) BY <1>0 DEF Same
    <2> HIDE DEF r
    <2> QED BY <1>1, <2>1, <2>2, AddsSame DEF AddCodes, r
  <1>3. CASE ~(~s.si \/ s.wr \/ s.low)
    <2>1. CASE s.kind = "talk" /\ s.buf["out"] # <<>>
      <3> DEFINE t == [s EXCEPT !.low = TRUE]
      <3>1. r.s = t /\ r.err = "again" BY <1>3, <2>1 DEF Read, Ret
      <3>2. t \in ChannelType BY <1>0, ZenonT(60) DEF ChannelType
      <3>3. /\ t.n = s.n /\ t.kind = s.kind /\ t.phase = s.phase /\ t.result = s.result
            /\ t.add = s.add /\ t.con = s.con /\ t.buf = s.buf /\ t.wa = s.wa
            /\ t.ce = s.ce /\ t.drain = s.drain /\ t.si = s.si /\ t.q = s.q /\ t.shut = s.shut
            /\ t.left = s.left /\ t.asked = s.asked /\ t.stored = s.stored /\ t.said = s.said
            /\ t.rx = s.rx /\ t.peer = s.peer /\ t.eof = s.eof /\ t.wire = s.wire /\ t.got = s.got
            /\ t.armR = s.armR /\ t.armW = s.armW /\ t.half = s.half
        BY <1>0 DEF ChannelType
      <3>4. Same(t, s)
        <4> HIDE DEF t
        <4> QED BY <3>2, <3>3 DEF Same
      <3> HIDE DEF r
      <3> QED BY <1>1, <3>1, <3>4, AddsSame DEF AddCodes, r
    <2>2. CASE ~(s.kind = "talk" /\ s.buf["out"] # <<>>)
      <3>1. CASE Len(s.buf["in"]) = MaxBuffer
        <4>1. r.s = s /\ r.err = "nobufs" BY <1>3, <2>2, <3>1 DEF Read, Ret
        <4>2. Same(s, s) BY <1>0 DEF Same
        <4> HIDE DEF r
        <4> QED BY <1>1, <4>1, <4>2, AddsSame DEF AddCodes, r
      <3>2. CASE Len(s.buf["in"]) # MaxBuffer /\ s.broken
        <4>1. r.s = s /\ r.err = "fail" BY <1>3, <2>2, <3>2 DEF Read, Ret
        <4>2. Same(s, s) BY <1>0 DEF Same
        <4> HIDE DEF r
        <4> QED BY <1>1, <4>1, <4>2, AddsSame DEF AddCodes, r
      <3>3. CASE Len(s.buf["in"]) # MaxBuffer /\ ~s.broken /\ s.rx > 0
        <4>1. r.s = v /\ r.err = "ok" BY <1>3, <2>2, <3>3 DEF Read, Ret
        <4>2. /\ s.n \in 1..MaxTransfers /\ MaxBuffer \in Nat /\ s.rx \in Nat
              /\ s.buf["in"] \in Bunch /\ Len(s.buf["in"]) \in Nat /\ Len(s.buf["in"]) <= MaxBuffer
          BY <1>1, OutBuffers
        <4>3. k \in Nat /\ k <= s.rx /\ k <= MaxBuffer - Len(s.buf["in"]) BY <4>2 DEF Lesser
        <4> HIDE DEF k
        <4>4. b \in Bunch /\ Len(b) = Len(s.buf["in"]) + k BY <4>2, <4>3, Filled DEF Bunch
        <4>5. s.buf["in"] \in Seq({s.n}) => b \in Seq({s.n}) BY <4>3, Filled
        <4> HIDE DEF b
        <4>6. v \in ChannelType
          <5>1. s.rx - k \in Nat BY <4>2, <4>3
          <5> QED BY <1>0, <4>4, <5>1, ZenonT(60) DEF ChannelType
        <4>7. /\ v.n = s.n /\ v.kind = s.kind /\ v.phase = s.phase /\ v.result = s.result
              /\ v.add = s.add /\ v.con = s.con /\ v.wa = s.wa
              /\ v.ce = s.ce /\ v.drain = s.drain /\ v.si = s.si /\ v.q = s.q /\ v.shut = s.shut
              /\ v.left = s.left /\ v.asked = s.asked /\ v.stored = s.stored /\ v.said = s.said
              /\ v.peer = s.peer /\ v.eof = s.eof /\ v.wire = s.wire /\ v.got = s.got
              /\ v.armR = s.armR /\ v.armW = s.armW /\ v.half = s.half
              /\ v.rx = s.rx - k /\ v.buf["in"] = b /\ v.buf["out"] = s.buf["out"]
          BY <1>0 DEF ChannelType, Pipes
        <4> HIDE DEF v
        <4>8. InPlace(v)
          BY <1>0, <4>2, <4>3, <4>4, <4>6, <4>7 DEF InPlace, Targets, Attached, Detached
        <4>9. ASSUME ~LateEntries PROVE Accounted(v) /\ Listed(v)
          <5>0. Accounted(s) /\ Listed(s) BY <4>9, GoodParts
          <5>1. Ours(v) BY <5>0, <4>5, <4>7 DEF Accounted, Ours, Pipes
          <5>2. Asking(v) BY <5>0, <4>7 DEF Accounted, Asking
          <5>3. ShutsLate(v) BY <5>0, <4>7 DEF Accounted, ShutsLate, Shutting
          <5>4. Ends(v) BY <5>0, <4>7 DEF Accounted, Ends
          <5>5. Flows(v) /\ Listed(v)
            <6>1. Len(s.stored) \in Nat /\ s.peer \in Nat BY OutBuffers
            <6>2. ((Len(s.stored) + Len(v.buf["in"])) + v.rx) + v.peer
                  = ((Len(s.stored) + Len(s.buf["in"])) + s.rx) + s.peer
              <7> DEFINE a == Len(s.stored)
                         c == Len(s.buf["in"])
                         d == Len(b)
              <7>1. a \in Nat /\ c \in Nat /\ d = c + k /\ k \in Int /\ s.rx \in Int /\ s.peer \in Int
                BY <6>1, <4>2, <4>3, <4>4
              <7>2. v.rx = s.rx - k /\ Len(v.buf["in"]) = d BY <4>7
              <7> HIDE DEF a, c, d
              <7>3. ((a + d) + (s.rx - k)) + s.peer = ((a + c) + s.rx) + s.peer BY <7>1
              <7> QED BY <4>7, <7>2, <7>3 DEF a, c
            <6> QED BY <5>0, <4>7, <6>2, ZenonT(60) DEF Accounted, Flows, Listed, Gone, Written0
          <5>6. Verdict(v) BY <5>0, <4>7, ZenonT(60) DEF Accounted, Verdict, Settled, Written0
          <5> QED BY <5>1, <5>2, <5>3, <5>4, <5>5, <5>6 DEF Accounted
        <4>10. Good(v) BY <4>8, <4>9 DEF Good
        <4> HIDE DEF r
        <4> QED BY <4>1, <4>6, <4>7, <4>10 DEF Adds, AddCodes, r
      <3>4. CASE Len(s.buf["in"]) # MaxBuffer /\ ~s.broken /\ ~(s.rx > 0) /\ s.eof
        <4>1. r.s = s /\ r.err = "nodata" BY <1>3, <2>2, <3>4 DEF Read, Ret
        <4>2. ASSUME ~LateEntries, s.con["in"], Ended(s, "in") PROVE Settles(s, "in")
          <5>1. Accounted(s) BY <4>2, GoodParts
          <5>2. CASE s.kind = "store"
            <6>1. s.buf["in"] = <<>> BY <1>1, <4>2, <5>1, <5>2 DEF Accounted, Ends, Ended
            <6>2. ((Len(s.stored) + Len(s.buf["in"])) + s.rx) + s.peer = Bytes /\ s.peer = 0
              BY <4>2, <5>1, <5>2, <3>4 DEF Accounted, Flows
            <6>3. s.rx = 0 /\ Len(s.stored) \in Nat BY <3>4, OutBuffers
            <6>4. Len(s.buf["in"]) = 0 BY <6>1
            <6>5. Len(s.stored) = Bytes BY <6>2, <6>3, <6>4
            <6> QED BY <5>2, <6>5 DEF Settles
          <5>3. CASE s.kind = "talk"
            <6>1. s.left # 0 BY <4>2, <5>1, <5>3, OutBuffers DEF Accounted, Ends
            <6> QED BY <5>3, <6>1 DEF Settles
          <5>4. s.kind = "store" \/ s.kind = "talk" BY <4>2, <5>1 DEF Accounted, Ends
          <5> QED BY <5>2, <5>3, <5>4
        <4> HIDE DEF r
        <4> QED BY <1>1, <4>1, <4>2, AddsNothing DEF r
      <3>5. CASE Len(s.buf["in"]) # MaxBuffer /\ ~s.broken /\ ~(s.rx > 0) /\ ~s.eof
        <4> DEFINE t == [s EXCEPT !.wr = TRUE, !.armR = TRUE]
        <4>1. r.s = t /\ r.err = "again" BY <1>3, <2>2, <3>5 DEF Read, Ret
        <4>2. t \in ChannelType BY <1>0, ZenonT(60) DEF ChannelType
        <4>3. Same(t, s) BY <1>0, <1>3, <4>2 DEF Same, ChannelType
        <4> HIDE DEF r
        <4> QED BY <1>1, <4>1, <4>3, AddsSame DEF AddCodes, r
      <3> QED BY <3>1, <3>2, <3>3, <3>4, <3>5
    <2> QED BY <2>1, <2>2
  <1> QED BY <1>2, <1>3

LEMMA ReadFileAdds ==
    ASSUME NEW s, Good(s), s.phase = "run", s.add["out"], s.kind = "send"
    PROVE  Adds(ReadFile(s), s, "out")
  <1> DEFINE k == Lesser(s.left, MaxBuffer - Len(s.buf["out"]))
             r == ReadFile(s)
             b == s.buf["out"] \o [i \in 1..k |-> s.n]
             v == [s EXCEPT !.left = @ - k, !.buf["out"] = b]
  <1>0. s \in ChannelType /\ InPlace(s) BY GoodParts
  <1>1. "out" \in Pipes /\ "in" \in Pipes BY DEF Pipes
  <1>2. /\ s.n \in 1..MaxTransfers /\ MaxBuffer \in Nat /\ s.left \in Int
        /\ s.buf["out"] \in Bunch /\ Len(s.buf["out"]) \in Nat
    BY <1>1, OutBuffers
  <1>3. CASE Len(s.buf["out"]) >= MaxBuffer
    <2>1. r.s = s /\ r.err = "nobufs" BY <1>3 DEF ReadFile, Ret
    <2>2. Same(s, s) BY <1>0 DEF Same
    <2> HIDE DEF r
    <2> QED BY <1>1, <2>1, <2>2, AddsSame DEF AddCodes, r
  <1>4. CASE ~(Len(s.buf["out"]) >= MaxBuffer) /\ s.spoilt
    <2>1. r.s = s /\ r.err = "fail" BY <1>4 DEF ReadFile, Ret
    <2>2. Same(s, s) BY <1>0 DEF Same
    <2> HIDE DEF r
    <2> QED BY <1>1, <2>1, <2>2, AddsSame DEF AddCodes, r
  <1>5. CASE ~(Len(s.buf["out"]) >= MaxBuffer) /\ ~s.spoilt /\ s.left = 0
    <2>1. r.s = s /\ r.err = "nodata" BY <1>5 DEF ReadFile, Ret
    <2>2. ASSUME ~LateEntries, s.con["out"], Ended(s, "out") PROVE Settles(s, "out")
      <3>1. Accounted(s) BY <2>2, GoodParts
      <3>2. s.buf["out"] = <<>> BY <1>1, <2>2, <3>1 DEF Accounted, Ends, Ended
      <3>3. (Written0(s) + Len(s.buf["out"])) + s.left = Bytes
        BY <2>2, <3>1 DEF Accounted, Flows, Gone
      <3>4. Written0(s) \in Nat BY OutBuffers
      <3>5. Len(s.buf["out"]) = 0 BY <3>2
      <3>6. Written0(s) = Bytes BY <1>5, <3>3, <3>4, <3>5
      <3> QED BY <3>6 DEF Settles
    <2> HIDE DEF r
    <2> QED BY <1>1, <2>1, <2>2, AddsNothing DEF r
  <1>6. CASE ~(Len(s.buf["out"]) >= MaxBuffer) /\ ~s.spoilt /\ s.left # 0
    <2>1. r.s = v /\ r.err = "ok" BY <1>6 DEF ReadFile, Ret
    <2>2. k \in Int /\ k <= s.left /\ (s.left >= 0 => k >= 0) BY <1>2, <1>6 DEF Lesser
    <2> HIDE DEF k
    <2>3. b \in Bunch /\ (k >= 0 => Len(b) = Len(s.buf["out"]) + k) BY <1>2, <2>2, Filled DEF Bunch
    <2>4. s.buf["out"] \in Seq({s.n}) => b \in Seq({s.n}) BY <2>2, Filled
    <2> HIDE DEF b
    <2>5. v \in ChannelType
      <3>1. s.left - k \in Int BY <1>2, <2>2
      <3> QED BY <1>0, <2>3, <3>1, ZenonT(60) DEF ChannelType
    <2>6. /\ v.n = s.n /\ v.kind = s.kind /\ v.phase = s.phase /\ v.result = s.result
          /\ v.add = s.add /\ v.con = s.con /\ v.wa = s.wa
          /\ v.ce = s.ce /\ v.drain = s.drain /\ v.si = s.si /\ v.q = s.q /\ v.shut = s.shut
          /\ v.asked = s.asked /\ v.stored = s.stored /\ v.said = s.said /\ v.rx = s.rx
          /\ v.peer = s.peer /\ v.eof = s.eof /\ v.wire = s.wire /\ v.got = s.got
          /\ v.armR = s.armR /\ v.armW = s.armW /\ v.half = s.half
          /\ v.left = s.left - k /\ v.buf["out"] = b /\ v.buf["in"] = s.buf["in"]
      BY <1>0 DEF ChannelType, Pipes
    <2> HIDE DEF v
    <2>7. InPlace(v) BY <1>0, <2>5, <2>6 DEF InPlace, Targets, Attached, Detached
    <2>8. ASSUME ~LateEntries PROVE Accounted(v) /\ Listed(v)
      <3>0. Accounted(s) /\ Listed(s) BY <2>8, GoodParts
      <3>1. Ours(v) BY <3>0, <2>4, <2>6 DEF Accounted, Ours, Pipes
      <3>2. Asking(v) BY <3>0, <2>6 DEF Accounted, Asking
      <3>3. ShutsLate(v)
        <4>1. ~Shutting(s) BY <3>0 DEF Accounted, ShutsLate
        <4>2. ~Shutting(v) BY <4>1, <2>6 DEF Shutting
        <4> QED BY <4>2 DEF ShutsLate, Shutting
      <3>4. Ends(v) BY <3>0, <2>6 DEF Accounted, Ends
      <3>5. Flows(v) /\ Listed(v)
        <4> SUFFICES ASSUME s.con["out"] PROVE v.left >= 0 /\ Gone(v) + v.left = Bytes
          BY <2>6 DEF Flows, Listed
        <4>1. s.left >= 0 /\ Gone(s) + s.left = Bytes BY <3>0 DEF Accounted, Flows
        <4> DEFINE a == Written0(s)
                   c == Len(s.buf["out"])
                   d == Len(b)
        <4>2. a \in Nat BY OutBuffers
        <4>3. c \in Nat /\ d = c + k /\ k \in Int /\ k <= s.left /\ (a + c) + s.left = Bytes
          BY <1>2, <2>2, <2>3, <4>1 DEF Gone
        <4>4. Gone(v) = a + d BY <2>6 DEF Gone, Written0
        <4> HIDE DEF a, c, d
        <4>5. (a + d) + (s.left - k) = Bytes /\ s.left - k >= 0 BY <1>2, <4>2, <4>3
        <4> QED BY <2>6, <4>4, <4>5
      <3>6. Verdict(v) BY <3>0, <2>6, ZenonT(60) DEF Accounted, Verdict, Settled, Written0
      <3> QED BY <3>1, <3>2, <3>3, <3>4, <3>5, <3>6 DEF Accounted
    <2>9. Good(v) BY <2>7, <2>8 DEF Good
    <2> HIDE DEF r
    <2> QED BY <2>1, <2>5, <2>6, <2>9 DEF Adds, AddCodes, r
  <1> QED BY <1>3, <1>4, <1>5, <1>6

LEMMA NextEntryAdds ==
    ASSUME NEW s, Good(s), s.phase = "run", s.add["out"], s.kind = "list", MayAsk(s, "out")
    PROVE  Adds(NextEntry(s), s, "out")
  <1> DEFINE r == NextEntry(s)
             a == Append(s.asked, s.n)
             u == [s EXCEPT !.left = @ - 1, !.asked = a]
             v == [u EXCEPT !.wa["out"] = TRUE]
  <1>0. s \in ChannelType /\ InPlace(s) BY GoodParts
  <1>1. "out" \in Pipes /\ "in" \in Pipes BY DEF Pipes
  <1>2. s.n \in 1..MaxTransfers /\ s.left \in Int /\ s.asked \in Bunch BY OutBuffers
  <1>3. CASE s.left = 0
    <2>1. r.s = s /\ r.err = "nodata" BY <1>3 DEF NextEntry, Ret
    <2>2. ASSUME ~LateEntries, s.con["out"], Ended(s, "out") PROVE Settles(s, "out")
      <3>1. Accounted(s) /\ Listed(s) BY <2>2, GoodParts
      <3>2. s.buf["out"] = <<>> BY <1>1, <2>2, <3>1 DEF Accounted, Ends, Ended
      <3>3. s.asked = <<>> /\ ~In(<<"add", "out", "inval">>, s.q)
        BY <2>2 DEF MayAsk, Calls, Codes
      <3>4. ((Written0(s) + Len(s.buf["out"])) + s.left) + Len(s.asked) = Bytes
        BY <2>2, <3>1, <3>3 DEF Listed, Gone
      <3>5. Written0(s) \in Nat BY OutBuffers
      <3>6. Len(s.buf["out"]) = 0 /\ Len(s.asked) = 0 BY <3>2, <3>3
      <3>7. Written0(s) = Bytes BY <1>3, <3>4, <3>5, <3>6
      <3> QED BY <3>7 DEF Settles
    <2> HIDE DEF r
    <2> QED BY <1>1, <2>1, <2>2, AddsNothing DEF r
  <1>4. CASE s.left # 0
    <2>1. r.s = u /\ r.err = "again" BY <1>4 DEF NextEntry, Ret
    <2>2. a \in Bunch /\ Len(a) = Len(s.asked) + 1 BY <1>2, Longer DEF Bunch
    <2>3. s.asked \in Seq({s.n}) => a \in Seq({s.n}) BY Longer
    <2> HIDE DEF a
    <2>4. u \in ChannelType
      <3>1. s.left - 1 \in Int BY <1>2
      <3> QED BY <1>0, <2>2, <3>1, ZenonT(60) DEF ChannelType
    <2>5. /\ u.n = s.n /\ u.kind = s.kind /\ u.phase = s.phase /\ u.result = s.result
          /\ u.add = s.add /\ u.con = s.con /\ u.wa = s.wa /\ u.buf = s.buf
          /\ u.ce = s.ce /\ u.drain = s.drain /\ u.si = s.si /\ u.q = s.q /\ u.shut = s.shut
          /\ u.stored = s.stored /\ u.said = s.said /\ u.rx = s.rx
          /\ u.peer = s.peer /\ u.eof = s.eof /\ u.wire = s.wire /\ u.got = s.got
          /\ u.armR = s.armR /\ u.armW = s.armW /\ u.half = s.half
          /\ u.left = s.left - 1 /\ u.asked = a
      BY <1>0 DEF ChannelType
    <2> HIDE DEF u
    <2>6. v \in ChannelType BY <2>4, ZenonT(60) DEF ChannelType
    <2>7. /\ v.n = s.n /\ v.kind = s.kind /\ v.phase = s.phase /\ v.result = s.result
          /\ v.add = s.add /\ v.con = s.con /\ v.wa["out"] /\ v.buf = s.buf
          /\ v.ce = s.ce /\ v.drain = s.drain /\ v.si = s.si /\ v.q = s.q /\ v.shut = s.shut
          /\ v.stored = s.stored /\ v.said = s.said /\ v.rx = s.rx
          /\ v.peer = s.peer /\ v.eof = s.eof /\ v.wire = s.wire /\ v.got = s.got
          /\ v.armR = s.armR /\ v.armW = s.armW /\ v.half = s.half
          /\ v.left = s.left - 1 /\ v.asked = a
      BY <2>4, <2>5, <1>1 DEF ChannelType
    <2> HIDE DEF v
    <2>8. InPlace(v) BY <1>0, <2>6, <2>7 DEF InPlace, Targets, Attached, Detached
    <2>9. ASSUME ~LateEntries PROVE Accounted(v) /\ Listed(v)
      <3>0. Accounted(s) /\ Listed(s) BY <2>9, GoodParts
      <3>a. s.asked = <<>> /\ \A d \in Calls : ~In(d, s.q) BY <2>9 DEF MayAsk
      <3>b. Len(s.asked) = 0 /\ Len(a) = 1 BY <3>a, <2>2
      <3>1. Ours(v) BY <3>0, <2>3, <2>7 DEF Accounted, Ours
      <3>2. Asking(v) BY <3>0, <3>a, <3>b, <2>7 DEF Accounted, Asking
      <3>3. ShutsLate(v)
        <4>1. ~Shutting(s) BY <3>0 DEF Accounted, ShutsLate
        <4>2. ~Shutting(v) BY <4>1, <2>7 DEF Shutting
        <4> QED BY <4>2 DEF ShutsLate, Shutting
      <3>4. Ends(v) BY <3>0, <2>7 DEF Accounted, Ends
      <3>5. Flows(v) BY <3>0, <2>7 DEF Flows
      <3>6. Listed(v)
        <4> SUFFICES ASSUME s.con["out"]
                     PROVE  v.left >= 0 /\ (Gone(v) + v.left) + Len(v.asked) = Bytes
          BY <2>7 DEF Listed
        <4>1. ~In(<<"add", "out", "inval">>, s.q) BY <3>a DEF Calls, Codes
        <4>2. s.left >= 0 /\ (Gone(s) + s.left) + Len(s.asked) = Bytes
          BY <3>0, <4>1 DEF Listed
        <4>3. Gone(v) = Gone(s) BY <2>7 DEF Gone, Written0
        <4>4. Gone(s) \in Nat BY OutBuffers
        <4>5. (Gone(s) + (s.left - 1)) + 1 = Bytes /\ s.left - 1 >= 0
          BY <4>2, <4>4, <3>b, <1>2, <1>4
        <4> QED BY <4>3, <4>5, <3>b, <2>7
      <3>7. Verdict(v) BY <3>0, <2>7, ZenonT(60) DEF Accounted, Verdict, Settled, Written0
      <3> QED BY <3>1, <3>2, <3>3, <3>4, <3>5, <3>6, <3>7 DEF Accounted
    <2>10. Good(v) BY <2>8, <2>9 DEF Good
    <2> HIDE DEF r
    <2> QED BY <2>1, <2>4, <2>5, <2>10 DEF Adds, AddCodes, r, v
  <1> QED BY <1>3, <1>4

LEMMA StreamedAdds ==
    ASSUME NEW s, Good(s), NEW p \in Pipes
    PROVE  Adds(Streamed(s), s, p)
  <1> DEFINE r == Streamed(s)
             t == [s EXCEPT !.sent = FALSE]
  <1>0. s \in ChannelType BY GoodParts
  <1>1. CASE s.sent
    <2>1. r.s = t /\ r.err = "ok" BY <1>1 DEF Streamed, Ret
    <2>2. t \in ChannelType BY <1>0, ZenonT(60) DEF ChannelType
    <2>3. /\ t.n = s.n /\ t.kind = s.kind /\ t.phase = s.phase /\ t.result = s.result
          /\ t.add = s.add /\ t.con = s.con /\ t.buf = s.buf /\ t.wa = s.wa
          /\ t.ce = s.ce /\ t.drain = s.drain /\ t.si = s.si /\ t.q = s.q /\ t.shut = s.shut
          /\ t.left = s.left /\ t.asked = s.asked /\ t.stored = s.stored /\ t.said = s.said
          /\ t.rx = s.rx /\ t.peer = s.peer /\ t.eof = s.eof /\ t.wire = s.wire /\ t.got = s.got
          /\ t.armR = s.armR /\ t.armW = s.armW /\ t.half = s.half
      BY <1>0 DEF ChannelType
    <2>4. Same(t, s)
      <3> HIDE DEF t
      <3> QED BY <2>2, <2>3 DEF Same
    <2> HIDE DEF r
    <2> QED BY <2>1, <2>4, AddsSame DEF AddCodes, r
  <1>2. CASE ~s.sent
    <2>1. r.s = s /\ r.err = "again" BY <1>2 DEF Streamed, Ret
    <2>2. Same(s, s) BY <1>0 DEF Same
    <2> HIDE DEF r
    <2> QED BY <2>1, <2>2, AddsSame DEF AddCodes, r
  <1> QED BY <1>1, <1>2

LEMMA AddFromAdds ==
    ASSUME NEW s, Good(s), s.phase = "run", NEW p \in Pipes, s.add[p], MayAsk(s, p)
    PROVE  Adds(AddFrom(s, p), s, p)
  <1>1. CASE p = "in" BY <1>1, ReadAdds DEF AddFrom
  <1>2. CASE p = "out" /\ s.kind = "send"
    <2>1. AddFrom(s, p) = ReadFile(s) BY <1>2 DEF AddFrom
    <2> QED BY <1>2, <2>1, ReadFileAdds
  <1>3. CASE p = "out" /\ s.kind = "list"
    <2>1. AddFrom(s, p) = NextEntry(s) BY <1>3 DEF AddFrom
    <2> QED BY <1>3, <2>1, NextEntryAdds
  <1>4. CASE p = "out" /\ s.kind \notin {"send", "list"}
    <2>1. AddFrom(s, p) = Streamed(s) BY <1>4 DEF AddFrom
    <2> QED BY <2>1, StreamedAdds
  <1> QED BY <1>1, <1>2, <1>3, <1>4 DEF Pipes

-----------------------------------------------------------------------------
\* pipe::add_to_buffer: what holds at every turn of its loop.

Loops == [s : ChannelType, go : BOOLEAN, more : BOOLEAN]

AddTurn(l, p) ==
    /\ l \in Loops /\ Good(l.s) /\ l.s.phase = "run"
    /\ l.go => l.more /\ MayAsk(l.s, p)
    /\ l.more \/ l.s.ae[p] # "ok" \/ LateEntries \/ Settles(l.s, p)

AddStep(l, p, turn) ==
    LET r == AddFrom(l.s, p)
    IN IF ~l.go \/ ~l.s.add[p] THEN l
       ELSE IF ~l.s.con[p] THEN AddedWithoutConsumer(r, p)
       ELSE Added(r, p, turn)

LEMMA LoopFields ==
    ASSUME NEW s, NEW go, NEW more
    PROVE  /\ Loop(s, go, more).s = s /\ Loop(s, go, more).go = go /\ Loop(s, go, more).more = more
           /\ s \in ChannelType /\ go \in BOOLEAN /\ more \in BOOLEAN => Loop(s, go, more) \in Loops
  BY DEF Loop, Loops

LEMMA AdderErrorGood ==
    ASSUME NEW s, Good(s), NEW p \in Pipes, NEW c \in PipeCodes
    PROVE  /\ Good([s EXCEPT !.ae[p] = c]) /\ [s EXCEPT !.ae[p] = c] \in ChannelType
           /\ [s EXCEPT !.ae[p] = c].ae[p] = c /\ [s EXCEPT !.ae[p] = c].phase = s.phase
  <1> DEFINE t == [s EXCEPT !.ae[p] = c]
  <1>0. s \in ChannelType BY GoodParts
  <1>1. t \in ChannelType BY <1>0, ZenonT(60) DEF ChannelType
  <1>2. /\ t.n = s.n /\ t.kind = s.kind /\ t.phase = s.phase /\ t.result = s.result
        /\ t.add = s.add /\ t.con = s.con /\ t.buf = s.buf /\ t.wa = s.wa
        /\ t.ce = s.ce /\ t.drain = s.drain /\ t.si = s.si /\ t.q = s.q /\ t.shut = s.shut
        /\ t.left = s.left /\ t.asked = s.asked /\ t.stored = s.stored /\ t.said = s.said
        /\ t.rx = s.rx /\ t.peer = s.peer /\ t.eof = s.eof /\ t.wire = s.wire /\ t.got = s.got
        /\ t.armR = s.armR /\ t.armW = s.armW /\ t.half = s.half
    BY <1>0 DEF ChannelType
  <1>3. t.ae[p] = c BY <1>0 DEF ChannelType
  <1>4. Same(t, s)
    <2> HIDE DEF t
    <2> QED BY <1>1, <1>2 DEF Same
  <1> HIDE DEF t
  <1>5. Good(t) BY <1>4, SameGood
  <1> QED BY <1>1, <1>2, <1>3, <1>5 DEF t

LEMMA TurnMade ==
    ASSUME NEW s \in ChannelType, Good(s), s.phase = "run", NEW p,
           NEW go \in BOOLEAN, NEW more \in BOOLEAN, go => more /\ MayAsk(s, p),
           more \/ s.ae[p] # "ok" \/ LateEntries \/ Settles(s, p)
    PROVE  AddTurn(Loop(s, go, more), p)
  <1> DEFINE l == Loop(s, go, more)
  <1>1. l \in Loops /\ l.s = s /\ l.go = go /\ l.more = more BY LoopFields
  <1> HIDE DEF l
  <1>2. AddTurn(l, p) BY <1>1 DEF AddTurn
  <1> QED BY <1>2 DEF l

LEMMA AddStepGood ==
    ASSUME NEW l, NEW p \in Pipes, NEW turn \in Nat, AddTurn(l, p)
    PROVE  AddTurn(AddStep(l, p, turn), p)
  <1> DEFINE r == AddFrom(l.s, p)
             z == r.s
             w == [z EXCEPT !.wa[p] = TRUE]
             x == [z EXCEPT !.ae[p] = "inval"]
             y == [z EXCEPT !.ae[p] = r.err]
  <1>1. CASE ~l.go \/ ~l.s.add[p]
    <2>1. AddStep(l, p, turn) = l BY <1>1 DEF AddStep
    <2> QED BY <2>1
  <1>2. CASE l.go /\ l.s.add[p]
    <2>1. Adds(r, l.s, p) BY <1>2, AddFromAdds DEF AddTurn
    <2>2. AddStep(l, p, turn) = IF ~l.s.con[p] THEN AddedWithoutConsumer(r, p) ELSE Added(r, p, turn)
      BY <1>2 DEF AddStep
    <2>3. l.s.phase = "run" /\ MayAsk(l.s, p) BY <1>2 DEF AddTurn
    <2> HIDE DEF r
    <2>4. /\ z \in ChannelType /\ z.phase = "run" /\ r.err \in AddCodes
          /\ z.kind = l.s.kind /\ z.q = l.s.q /\ z.con = l.s.con /\ z.add = l.s.add
          /\ r.err # "again" => Good(z) /\ z.asked = l.s.asked
          /\ r.err = "again" => Good(w)
          /\ LateEntries \/ r.err # "nodata" \/ ~l.s.con[p] \/ ~Ended(z, p) \/ Settles(z, p)
      BY <2>1, <2>3 DEF Adds
    <2>5. w \in ChannelType /\ w.phase = "run" BY <2>4, ZenonT(60) DEF ChannelType
    <2>6. MayAsk(z, p) \/ r.err = "again" BY <2>3, <2>4 DEF MayAsk
    <2>7. "inval" \in PipeCodes /\ (r.err \in {"nobufs", "fail"} => r.err \in PipeCodes)
      BY DEF PipeCodes
    <2>8. ASSUME r.err # "again"
          PROVE  /\ Good(x) /\ x \in ChannelType /\ x.ae[p] = "inval" /\ x.phase = "run"
                 /\ r.err \in {"nobufs", "fail"} =>
                      Good(y) /\ y \in ChannelType /\ y.ae[p] = r.err /\ y.phase = "run"
      BY <2>4, <2>7, <2>8, AdderErrorGood
    <2> HIDE DEF z, w, x, y
    <2>9. CASE ~l.s.con[p]
      <3>1. CASE r.err = "again"
        <4>1. AddStep(l, p, turn) = Loop(w, FALSE, TRUE)
          BY <2>2, <2>9, <3>1 DEF AddedWithoutConsumer, w, z
        <4> QED BY <4>1, <3>1, <2>4, <2>5, TurnMade
      <3>2. CASE r.err = "nodata"
        <4>1. AddStep(l, p, turn) = Loop(z, FALSE, TRUE)
          BY <2>2, <2>9, <3>2 DEF AddedWithoutConsumer, z
        <4> QED BY <4>1, <3>2, <2>4, TurnMade
      <3>3. CASE r.err \notin {"again", "nodata"}
        <4>1. AddStep(l, p, turn) = Loop(x, FALSE, FALSE)
          BY <2>2, <2>9, <3>3 DEF AddedWithoutConsumer, x, z
        <4> QED BY <4>1, <3>3, <2>8, TurnMade
      <3> QED BY <3>1, <3>2, <3>3
    <2>10. CASE l.s.con[p]
      <3>1. CASE r.err = "ok"
        <4>1. AddStep(l, p, turn) = Loop(z, TRUE, TRUE)
          BY <2>2, <2>10, <3>1 DEF Added, z
        <4> QED BY <4>1, <3>1, <2>4, <2>6, TurnMade
      <3>2. CASE r.err = "again"
        <4>1. AddStep(l, p, turn) = Loop(w, FALSE, TRUE)
          BY <2>2, <2>10, <3>2 DEF Added, w, z
        <4> QED BY <4>1, <3>2, <2>4, <2>5, TurnMade
      <3>3. CASE r.err = "nodata"
        <4> DEFINE m == z.drain[p] /\ z.buf[p] # <<>> /\ z.ce[p] # "nodata"
        <4>1. AddStep(l, p, turn) = Loop(z, FALSE, m)
          BY <2>2, <2>10, <3>3 DEF Added, z
        <4>2. m = ~Ended(z, p) BY <2>4 DEF Ended, ChannelType
        <4> HIDE DEF m
        <4>3. m \in BOOLEAN BY <4>2 DEF Ended
        <4> QED BY <4>1, <4>2, <4>3, <3>3, <2>4, <2>10, TurnMade
      <3>4. CASE r.err = "nobufs"
        <4>1. CASE turn = 0 /\ z.ce[p] = "nodata"
          <5>1. y = [z EXCEPT !.ae[p] = "nobufs"] BY <3>4 DEF y
          <5>2. AddStep(l, p, turn) = Loop(y, FALSE, FALSE)
            BY <2>2, <2>10, <3>4, <4>1, <5>1 DEF Added, z
          <5> QED BY <5>2, <3>4, <2>8, TurnMade
        <4>2. CASE ~(turn = 0 /\ z.ce[p] = "nodata")
          <5>1. AddStep(l, p, turn) = Loop(z, FALSE, TRUE)
            BY <2>2, <2>10, <3>4, <4>2 DEF Added, z
          <5> QED BY <5>1, <3>4, <2>4, TurnMade
        <4> QED BY <4>1, <4>2
      <3>5. CASE r.err = "fail"
        <4> DEFINE m == turn > 0
        <4>1. AddStep(l, p, turn) = Loop(y, FALSE, m)
          BY <2>2, <2>10, <3>5 DEF Added, y, z
        <4>2. m \in BOOLEAN OBVIOUS
        <4> HIDE DEF m
        <4> QED BY <4>1, <4>2, <3>5, <2>8, TurnMade
      <3> QED BY <3>1, <3>2, <3>3, <3>4, <3>5, <2>4 DEF AddCodes
    <2> QED BY <2>9, <2>10
  <1> QED BY <1>1, <1>2 DEF AddTurn, Loops

LEMMA AddToBufferGood ==
    ASSUME NEW s, Good(s), s.phase = "run", NEW p \in Pipes, MayAsk(s, p)
    PROVE  AddTurn(AddToBuffer(s, p), p)
  <1> DEFINE S == {l \in Loops : AddTurn(l, p)}
             b == s.ae[p] = "ok"
             a == Loop(s, b, b)
             g == [x \in Nat \X S |-> AddStep(x[2], p, x[1])]
             Is(f) == f = [k \in Nat |-> IF k = 0 THEN a ELSE AddStep(f[k - 1], p, k - 1)]
             loop == CHOOSE f : Is(f)
  <1>1. a \in S
    <2>1. s \in ChannelType BY GoodParts
    <2>2. b \in BOOLEAN /\ (b \/ s.ae[p] # "ok") OBVIOUS
    <2> HIDE DEF b
    <2>3. AddTurn(a, p) BY <2>1, <2>2, TurnMade
    <2> QED BY <2>3 DEF AddTurn
  <1>2. AddToBuffer(s, p) = loop[MaxLoops] BY DEF AddToBuffer, AddStep
  <1> HIDE DEF a, b
  <1>3. \A l \in S, n \in Nat : AddStep(l, p, n) \in S
    <2>1. ASSUME NEW l \in S, NEW n \in Nat PROVE AddStep(l, p, n) \in S
      <3>1. AddTurn(AddStep(l, p, n), p) BY <2>1, AddStepGood
      <3> QED BY <3>1 DEF AddTurn
    <2> QED BY <2>1
  <1>4. g \in [Nat \X S -> S] BY <1>3
  <1> HIDE DEF S
  <1>5. \E f \in [Nat -> S] : Iterates(f, a, g)
    <2> HIDE DEF g
    <2> QED BY <1>1, <1>4, Recursion
  <1>6. PICK f \in [Nat -> S] : Iterates(f, a, g) BY <1>5
  <1>7. f[0] = a /\ \A n \in Nat : f[n + 1] = AddStep(f[n], p, n)
    <2>1. ASSUME NEW n \in Nat PROVE f[n + 1] = AddStep(f[n], p, n)
      <3>1. <<n, f[n]>> \in Nat \X S /\ f[n + 1] = g[<<n, f[n]>>] BY <1>6 DEF Iterates
      <3> QED BY <3>1
    <2> QED BY <2>1, <1>6 DEF Iterates
  <1>8. Is(f)
    <2> DEFINE h == [k \in Nat |-> IF k = 0 THEN a ELSE AddStep(f[k - 1], p, k - 1)]
    <2>1. ASSUME NEW k \in Nat PROVE f[k] = h[k]
      <3>1. CASE k = 0 BY <3>1, <1>7
      <3>2. CASE k # 0
        <4>1. k - 1 \in Nat /\ (k - 1) + 1 = k BY <3>2
        <4>2. f[(k - 1) + 1] = AddStep(f[k - 1], p, k - 1) BY <1>7, <4>1
        <4> QED BY <4>1, <4>2, <3>2
      <3> QED BY <3>1, <3>2
    <2> QED BY <2>1
  <1>9. Is(loop)
    <2> HIDE DEF Is
    <2> QED BY <1>8
  <1>10. loop[0] = a /\ \A n \in Nat : loop[n + 1] = AddStep(loop[n], p, n)
    <2> HIDE DEF loop
    <2>1. loop[0] = a BY <1>9
    <2>2. ASSUME NEW n \in Nat PROVE loop[n + 1] = AddStep(loop[n], p, n)
      <3>1. n + 1 \in Nat /\ n + 1 # 0 /\ (n + 1) - 1 = n OBVIOUS
      <3>2. loop[n + 1] = AddStep(loop[(n + 1) - 1], p, (n + 1) - 1) BY <1>9, <3>1
      <3> QED BY <3>1, <3>2
    <2> QED BY <2>1, <2>2
  <1> HIDE DEF loop, Is, g
  <1> DEFINE T == {n \in Nat : loop[n] \in S}
  <1>11. T = Nat
    <2>1. T \in SUBSET Nat /\ 0 \in T BY <1>1, <1>10
    <2>2. ASSUME NEW n \in T PROVE n + 1 \in T
      <3>1. n \in Nat /\ loop[n] \in S BY <2>2
      <3>2. AddStep(loop[n], p, n) \in S BY <3>1, <1>3
      <3> QED BY <3>1, <3>2, <1>10
    <2> HIDE DEF T
    <2> QED BY <2>1, <2>2, Induction
  <1>12. MaxLoops \in Nat BY BoundsAssumption
  <1>13. loop[MaxLoops] \in S BY <1>11, <1>12
  <1> QED BY <1>2, <1>13 DEF S

-----------------------------------------------------------------------------
\* What the consumers return.

TakeCodes == {"ok", "again", "nodata", "fail"}

\* pipe::consume_buffer takes the consumer's step r from s, while the pipe runs.
Takes(r, s, p) ==
    /\ r.s \in ChannelType /\ r.err \in TakeCodes
    /\ Good(r.s) /\ r.s.phase = s.phase /\ r.s.kind = s.kind
    /\ LateEntries \/ r.err # "nodata" \/ (s.kind = "talk" /\ p = "in")

LEMMA WrittenGood ==
    ASSUME NEW s, Good(s), s.phase = "run"
    PROVE  Good(Written(s)) /\ Written(s).phase = s.phase /\ Written(s).kind = s.kind
  <1>0. s \in ChannelType BY GoodParts
  <1>1. CASE s.shut
    <2>1. LateEntries \/ (s.kind = "talk" /\ ~s.con["in"])
      BY <1>1, GoodParts DEF Accounted, ShutsLate, Shutting
    <2>2. Written(s) = OnShutdown(s) BY <1>1 DEF Written
    <2> QED BY <2>1, <2>2, OnShutdownGood
  <1>2. CASE ~s.shut /\ s.low /\ s.buf["out"] = <<>>
    <2> DEFINE t == [s EXCEPT !.low = FALSE]
               u == SendAdder(t, "in", "ok")
    <2>1. Written(s) = u BY <1>2 DEF Written
    <2>2. t \in ChannelType BY <1>0, ZenonT(60) DEF ChannelType
    <2>3. /\ t.n = s.n /\ t.kind = s.kind /\ t.phase = s.phase /\ t.result = s.result
          /\ t.add = s.add /\ t.con = s.con /\ t.buf = s.buf /\ t.wa = s.wa
          /\ t.ce = s.ce /\ t.drain = s.drain /\ t.si = s.si /\ t.q = s.q /\ t.shut = s.shut
          /\ t.left = s.left /\ t.asked = s.asked /\ t.stored = s.stored /\ t.said = s.said
          /\ t.rx = s.rx /\ t.peer = s.peer /\ t.eof = s.eof /\ t.wire = s.wire /\ t.got = s.got
          /\ t.armR = s.armR /\ t.armW = s.armW /\ t.half = s.half
      BY <1>0 DEF ChannelType
    <2> HIDE DEF t
    <2>4. Good(t) BY <2>2, <2>3, SameGood DEF Same
    <2>5. "in" \in Pipes /\ "ok" \in {"ok", "fail", "inval"} BY DEF Pipes
    <2>6. Good(u) /\ Queued(u, t) BY <2>3, <2>4, <2>5, SendAdderGood
    <2> HIDE DEF u
    <2>7. u.phase = t.phase /\ u.kind = t.kind BY <2>2, <2>6 DEF Queued, ChannelType
    <2> QED BY <2>1, <2>3, <2>6, <2>7
  <1>3. CASE ~s.shut /\ ~(s.low /\ s.buf["out"] = <<>>)
    <2>1. Written(s) = s BY <1>3 DEF Written
    <2> QED BY <2>1
  <1> QED BY <1>1, <1>2, <1>3

LEMMA WriteTakes ==
    ASSUME NEW s, Good(s), s.phase = "run", s.con["out"], s.buf["out"] # <<>>
    PROVE  Takes(Write(s), s, "out")
  <1> DEFINE k == Lesser(Room(s), Len(s.buf["out"]))
             r == Write(s)
             w == s.wire \o SubSeq(s.buf["out"], 1, k)
             b == SubSeq(s.buf["out"], k + 1, Len(s.buf["out"]))
             v == [s EXCEPT !.wire = w, !.buf["out"] = b]
  <1>0. s \in ChannelType /\ InPlace(s) BY GoodParts
  <1>1. "out" \in Pipes /\ "in" \in Pipes BY DEF Pipes
  <1>2. CASE ~s.si \/ s.ww
    <2>1. r.s = s /\ r.err = "again" BY <1>2 DEF Write, Ret
    <2> HIDE DEF r
    <2> QED BY <1>0, <2>1 DEF Takes, TakeCodes, r
  <1>3. CASE ~(~s.si \/ s.ww) /\ s.broken
    <2>1. r.s = s /\ r.err = "fail" BY <1>3 DEF Write, Ret
    <2> HIDE DEF r
    <2> QED BY <1>0, <2>1 DEF Takes, TakeCodes, r
  <1>4. CASE ~(~s.si \/ s.ww) /\ ~s.broken /\ k = 0
    <2> DEFINE t == [s EXCEPT !.ww = TRUE, !.armW = TRUE]
    <2>1. r.s = t /\ r.err = "again" BY <1>4 DEF Write, Ret
    <2>2. t \in ChannelType BY <1>0, ZenonT(60) DEF ChannelType
    <2>3. /\ t.n = s.n /\ t.kind = s.kind /\ t.phase = s.phase /\ t.result = s.result
          /\ t.add = s.add /\ t.con = s.con /\ t.buf = s.buf /\ t.wa = s.wa
          /\ t.ce = s.ce /\ t.drain = s.drain /\ t.si = s.si /\ t.q = s.q /\ t.shut = s.shut
          /\ t.left = s.left /\ t.asked = s.asked /\ t.stored = s.stored /\ t.said = s.said
          /\ t.rx = s.rx /\ t.peer = s.peer /\ t.eof = s.eof /\ t.wire = s.wire /\ t.got = s.got
          /\ t.armR = s.armR /\ t.half = s.half
      BY <1>0 DEF ChannelType
    <2> HIDE DEF t, r
    <2>4. Same(t, s) BY <1>4, <2>2, <2>3 DEF Same
    <2>5. Good(t) BY <2>4, SameGood
    <2> QED BY <2>1, <2>2, <2>3, <2>5 DEF Takes, TakeCodes, r
  <1>5. CASE ~(~s.si \/ s.ww) /\ ~s.broken /\ k # 0
    <2>1. r = Ret(Written(v), "ok") BY <1>5 DEF Write
    <2>a. /\ s.buf["out"] \in Bunch /\ Len(s.buf["out"]) \in Nat /\ s.wire \in Bunch
          /\ Len(s.wire) \in Nat /\ Len(s.wire) <= SendRoom /\ SendRoom \in Nat
          /\ Len(s.got) \in Nat
      BY <1>1, OutBuffers
    <2>2. k \in Nat /\ k <= Len(s.buf["out"]) /\ k <= SendRoom - Len(s.wire)
      <3> DEFINE c == Len(s.wire)
                 d == Len(s.buf["out"])
      <3>1. k = Lesser(SendRoom - c, d) BY DEF Room
      <3>2. c \in Nat /\ c <= SendRoom /\ d \in Nat BY <2>a
      <3> HIDE DEF k, c, d
      <3>3. k \in Nat /\ k <= d /\ k <= SendRoom - c BY <2>a, <3>1, <3>2 DEF Lesser
      <3> QED BY <3>3 DEF c, d
    <2> HIDE DEF k
    <2> DEFINE h == SubSeq(s.buf["out"], 1, k)
    <2>3. /\ h \in Bunch /\ Len(h) = k
          /\ b \in Bunch /\ Len(b) = Len(s.buf["out"]) - k
      BY <2>a, <2>2, Parted, ZenonT(60) DEF Bunch
    <2>4. s.buf["out"] \in Seq({s.n}) => h \in Seq({s.n}) /\ b \in Seq({s.n}) BY <2>2, Parted
    <2> HIDE DEF h, b
    <2>5. w \in Bunch /\ Len(w) = Len(s.wire) + k BY <2>a, <2>3, Joined DEF Bunch, h
    <2>6. s.wire \in Seq({s.n}) /\ h \in Seq({s.n}) => w \in Seq({s.n}) BY Joined DEF h
    <2> HIDE DEF w
    <2>7. v \in ChannelType BY <1>0, <2>3, <2>5, ZenonT(60) DEF ChannelType
    <2>8. /\ v.n = s.n /\ v.kind = s.kind /\ v.phase = s.phase /\ v.result = s.result
          /\ v.add = s.add /\ v.con = s.con /\ v.wa = s.wa
          /\ v.ce = s.ce /\ v.drain = s.drain /\ v.si = s.si /\ v.q = s.q /\ v.shut = s.shut
          /\ v.left = s.left /\ v.asked = s.asked /\ v.stored = s.stored /\ v.said = s.said
          /\ v.rx = s.rx /\ v.peer = s.peer /\ v.eof = s.eof /\ v.got = s.got
          /\ v.armR = s.armR /\ v.armW = s.armW /\ v.half = s.half
          /\ v.wire = w /\ v.buf["out"] = b /\ v.buf["in"] = s.buf["in"]
      BY <1>0 DEF ChannelType, Pipes
    <2> HIDE DEF v
    <2>9. InPlace(v)
      <3>1. Len(v.wire) <= SendRoom BY <2>a, <2>2, <2>5, <2>8
      <3> QED BY <1>0, <2>7, <2>8, <3>1 DEF InPlace, Targets, Attached, Detached
    <2>10. ASSUME ~LateEntries PROVE Accounted(v) /\ Listed(v)
      <3>0. Accounted(s) /\ Listed(s) BY <2>10, GoodParts
      <3>1. Ours(v)
        <4>1. v.wire \in Seq({v.n}) /\ v.buf["out"] \in Seq({v.n}) /\ v.buf["in"] \in Seq({v.n})
          BY <3>0, <1>1, <2>4, <2>6, <2>8 DEF Accounted, Ours
        <4> QED BY <3>0, <4>1, <2>8 DEF Accounted, Ours, Pipes
      <3>2. Asking(v) BY <3>0, <2>8 DEF Accounted, Asking
      <3>3. ShutsLate(v) BY <3>0, <2>8 DEF Accounted, ShutsLate, Shutting
      <3>4. Ends(v) BY <3>0, <2>8 DEF Accounted, Ends
      <3>5. Gone(v) = Gone(s)
        <4> DEFINE a == Len(s.got)
                   c == Len(s.wire)
                   d == Len(s.buf["out"])
        <4>1. Gone(v) = (a + Len(w)) + Len(b) /\ Gone(s) = (a + c) + d
          BY <2>8 DEF Gone, Written0
        <4>2. a \in Nat /\ c \in Nat /\ d \in Nat /\ Len(w) = c + k /\ Len(b) = d - k
          BY <2>a, <2>3, <2>5
        <4> HIDE DEF a, c, d
        <4> QED BY <4>1, <4>2, <2>2
      <3>6. Flows(v) /\ Listed(v) BY <3>0, <3>5, <2>8, ZenonT(60) DEF Accounted, Flows, Listed
      <3>7. Settled(s) => Settled(v) BY <2>8 DEF Settled
      <3>8. Verdict(v) BY <3>0, <3>7, <2>8 DEF Accounted, Verdict
      <3> QED BY <3>1, <3>2, <3>3, <3>4, <3>6, <3>8 DEF Accounted
    <2>11. Good(v) BY <2>9, <2>10 DEF Good
    <2> DEFINE z == Written(v)
    <2>12. Good(z) /\ z.phase = v.phase /\ z.kind = v.kind BY <2>8, <2>11, WrittenGood
    <2>13. r.s = z /\ r.err = "ok" BY <2>1 DEF Ret
    <2> HIDE DEF z, r
    <2>14. z \in ChannelType BY <2>12, GoodParts
    <2> QED BY <2>8, <2>12, <2>13, <2>14 DEF Takes, TakeCodes, r
  <1> QED BY <1>2, <1>3, <1>4, <1>5

LEMMA WriteFileTakes ==
    ASSUME NEW s, Good(s), s.phase = "run", s.con["in"], s.kind = "store"
    PROVE  Takes(WriteFile(s), s, "in")
  <1> DEFINE r == WriteFile(s)
             w == s.stored \o s.buf["in"]
             e == <<>>
             v == [s EXCEPT !.stored = w, !.buf["in"] = e]
  <1>0. s \in ChannelType /\ InPlace(s) BY GoodParts
  <1>1. "out" \in Pipes /\ "in" \in Pipes BY DEF Pipes
  <1>2. CASE s.spoilt
    <2>1. r.s = s /\ r.err = "fail" BY <1>2 DEF WriteFile, Ret
    <2> HIDE DEF r
    <2> QED BY <1>0, <2>1 DEF Takes, TakeCodes, r
  <1>3. CASE ~s.spoilt
    <2>1. r.s = v /\ r.err = "ok" BY <1>3 DEF WriteFile, Ret
    <2>a. /\ s.buf["in"] \in Bunch /\ Len(s.buf["in"]) \in Nat
          /\ s.stored \in Bunch /\ Len(s.stored) \in Nat /\ s.rx \in Nat /\ s.peer \in Nat
          /\ MaxBuffer \in Nat
      BY <1>1, OutBuffers
    <2>3. w \in Bunch /\ Len(w) = Len(s.stored) + Len(s.buf["in"]) BY <2>a, Joined DEF Bunch
    <2>4. s.stored \in Seq({s.n}) /\ s.buf["in"] \in Seq({s.n}) => w \in Seq({s.n}) BY Joined
    <2>5. e \in Bunch /\ e \in Seq({s.n}) /\ Len(e) = 0 BY DEF Bunch
    <2> HIDE DEF w, e
    <2>7. v \in ChannelType BY <1>0, <2>3, <2>5, ZenonT(60) DEF ChannelType
    <2>8. /\ v.n = s.n /\ v.kind = s.kind /\ v.phase = s.phase /\ v.result = s.result
          /\ v.add = s.add /\ v.con = s.con /\ v.wa = s.wa
          /\ v.ce = s.ce /\ v.drain = s.drain /\ v.si = s.si /\ v.q = s.q /\ v.shut = s.shut
          /\ v.left = s.left /\ v.asked = s.asked /\ v.wire = s.wire /\ v.said = s.said
          /\ v.rx = s.rx /\ v.peer = s.peer /\ v.eof = s.eof /\ v.got = s.got
          /\ v.armR = s.armR /\ v.armW = s.armW /\ v.half = s.half
          /\ v.stored = w /\ v.buf["in"] = e /\ v.buf["out"] = s.buf["out"]
      BY <1>0 DEF ChannelType, Pipes
    <2> HIDE DEF v
    <2>9. InPlace(v)
      <3>1. Len(v.buf["in"]) <= MaxBuffer BY <2>a, <2>5, <2>8
      <3> QED BY <1>0, <2>7, <2>8, <3>1 DEF InPlace, Targets, Attached, Detached
    <2>10. ASSUME ~LateEntries PROVE Accounted(v) /\ Listed(v)
      <3>0. Accounted(s) /\ Listed(s) BY <2>10, GoodParts
      <3>1. Ours(v) BY <3>0, <1>1, <2>4, <2>5, <2>8 DEF Accounted, Ours, Pipes
      <3>2. Asking(v) BY <3>0, <2>8 DEF Accounted, Asking
      <3>3. ShutsLate(v) BY <3>0, <2>8 DEF Accounted, ShutsLate, Shutting
      <3>4. Ends(v) BY <3>0, <2>8 DEF Accounted, Ends
      <3>5. Flows(v) /\ Listed(v)
        <4>1. Len(v.stored) + Len(v.buf["in"]) = Len(s.stored) + Len(s.buf["in"])
          <5> DEFINE a == Len(s.stored)
                     c == Len(s.buf["in"])
          <5>1. Len(v.stored) = a + c /\ Len(v.buf["in"]) = 0 /\ a \in Nat /\ c \in Nat
            BY <2>a, <2>3, <2>5, <2>8
          <5> HIDE DEF a, c
          <5>2. Len(v.stored) + Len(v.buf["in"]) = a + c BY <5>1
          <5> QED BY <5>2 DEF a, c
        <4> QED BY <3>0, <4>1, <2>8 DEF Accounted, Flows, Listed
      <3>6. ~Settled(s) BY DEF Settled
      <3>7. Verdict(v) BY <3>0, <3>6, <2>8 DEF Accounted, Verdict
      <3> QED BY <3>1, <3>2, <3>3, <3>4, <3>5, <3>7 DEF Accounted
    <2>11. Good(v) BY <2>9, <2>10 DEF Good
    <2> HIDE DEF r
    <2> QED BY <2>1, <2>7, <2>8, <2>11 DEF Takes, TakeCodes, r
  <1> QED BY <1>2, <1>3

-----------------------------------------------------------------------------
\* The lines of the control channel and their answers.

\* A line is read while the control channel is open: nothing is settled.
Open(s) == LateEntries \/ (s.kind = "talk" /\ s.con["in"])

LEMMA OpenFacts ==
    ASSUME NEW s, Good(s), Open(s), ~LateEntries
    PROVE  /\ Accounted(s) /\ Listed(s) /\ s.kind = "talk" /\ s.con["in"]
           /\ ~Shutting(s) /\ ~Settled(s) /\ s.left >= 1
           /\ ~In(<<"done", "ok">>, s.q) /\ s.result # "ok"
           /\ s.phase = "run" => \A p \in Pipes : ~In(<<"pipe", p, "ok">>, s.q)
  <1>1. Accounted(s) /\ Listed(s) /\ s.kind = "talk" /\ s.con["in"] BY GoodParts DEF Open
  <1>2. ~Shutting(s) BY <1>1 DEF Accounted, ShutsLate
  <1>3. ~Settled(s) BY <1>1 DEF Settled
  <1>4. s.left >= 1 BY <1>1 DEF Accounted, Ends
  <1> QED BY <1>1, <1>2, <1>3, <1>4 DEF Accounted, Verdict

LEMMA SayGood ==
    ASSUME NEW s, Good(s), s.phase = "run", Open(s)
    PROVE  /\ Good(Say(s)) /\ Say(s).phase = s.phase /\ Say(s).kind = s.kind
           /\ Say(s).con = s.con /\ Say(s).add = s.add /\ Say(s).si = s.si
           /\ Say(s).buf["in"] = s.buf["in"] /\ Say(s).left = s.left
  <1> DEFINE b == Append(s.buf["out"], s.n)
             t == [s EXCEPT !.buf["out"] = b, !.said = @ + 1]
             u == [t EXCEPT !.sent = t.add["out"]]
             v == SendAdder(u, "out", "ok")
  <1>0. s \in ChannelType /\ InPlace(s) BY GoodParts
  <1>1. "out" \in Pipes /\ "in" \in Pipes BY DEF Pipes
  <1>2. /\ s.n \in 1..MaxTransfers /\ s.buf["out"] \in Bunch /\ Len(s.buf["out"]) \in Nat
        /\ s.said \in Nat /\ Written0(s) \in Nat
    BY <1>1, OutBuffers
  <1>3. Say(s) = IF s.sent THEN t ELSE v BY DEF Say
  <1>4. b \in Bunch /\ Len(b) = Len(s.buf["out"]) + 1 BY <1>2, Longer DEF Bunch
  <1>5. s.buf["out"] \in Seq({s.n}) => b \in Seq({s.n}) BY Longer
  <1> HIDE DEF b
  <1>6. t \in ChannelType
    <2>1. s.said + 1 \in Nat BY <1>2
    <2> QED BY <1>0, <1>4, <2>1, ZenonT(60) DEF ChannelType
  <1>7. /\ t.n = s.n /\ t.kind = s.kind /\ t.phase = s.phase /\ t.result = s.result
        /\ t.add = s.add /\ t.con = s.con /\ t.wa = s.wa
        /\ t.ce = s.ce /\ t.drain = s.drain /\ t.si = s.si /\ t.q = s.q /\ t.shut = s.shut
        /\ t.left = s.left /\ t.asked = s.asked /\ t.stored = s.stored /\ t.wire = s.wire
        /\ t.rx = s.rx /\ t.peer = s.peer /\ t.eof = s.eof /\ t.got = s.got
        /\ t.armR = s.armR /\ t.armW = s.armW /\ t.half = s.half
        /\ t.said = s.said + 1 /\ t.buf["out"] = b /\ t.buf["in"] = s.buf["in"]
    BY <1>0 DEF ChannelType, Pipes
  <1> HIDE DEF t
  <1>8. InPlace(t) BY <1>0, <1>6, <1>7 DEF InPlace, Targets, Attached, Detached
  <1>9. ASSUME ~LateEntries PROVE Accounted(t) /\ Listed(t)
    <2>0. /\ Accounted(s) /\ Listed(s) /\ s.kind = "talk" /\ s.con["in"]
          /\ ~Shutting(s) /\ ~Settled(s)
      BY <1>9, OpenFacts
    <2>1. Ours(t) BY <2>0, <1>5, <1>7 DEF Accounted, Ours, Pipes
    <2>2. Asking(t) BY <2>0, <1>7 DEF Accounted, Asking
    <2>3. ShutsLate(t)
      <3>1. ~Shutting(t) BY <2>0, <1>7 DEF Shutting
      <3> QED BY <3>1 DEF ShutsLate, Shutting
    <2>4. Ends(t) BY <2>0, <1>7 DEF Accounted, Ends
    <2>5. Flows(t) /\ Listed(t)
      <3>1. s.con["out"] => Gone(t) = t.said
        <4> DEFINE a == Written0(s)
                   c == Len(s.buf["out"])
        <4>1. Gone(t) = a + Len(b) /\ Gone(s) = a + c BY <1>7 DEF Gone, Written0
        <4>2. s.con["out"] => Gone(s) = s.said BY <2>0 DEF Accounted, Flows
        <4>3. a \in Nat /\ c \in Nat /\ Len(b) = c + 1 BY <1>2, <1>4
        <4> HIDE DEF a, c
        <4> QED BY <4>1, <4>2, <4>3, <1>7
      <3> QED BY <2>0, <3>1, <1>7 DEF Flows, Listed
    <2>6. Verdict(t) BY <2>0, <1>7 DEF Accounted, Verdict
    <2> QED BY <2>1, <2>2, <2>3, <2>4, <2>5, <2>6 DEF Accounted
  <1>10. Good(t) BY <1>8, <1>9 DEF Good
  <1>11. u \in ChannelType
    <2>1. t.add["out"] \in BOOLEAN BY <1>1, <1>6 DEF ChannelType
    <2> QED BY <1>6, <2>1, ZenonT(60) DEF ChannelType
  <1>12. /\ u.n = t.n /\ u.kind = t.kind /\ u.phase = t.phase /\ u.result = t.result
         /\ u.add = t.add /\ u.con = t.con /\ u.buf = t.buf /\ u.wa = t.wa
         /\ u.ce = t.ce /\ u.drain = t.drain /\ u.si = t.si /\ u.q = t.q /\ u.shut = t.shut
         /\ u.left = t.left /\ u.asked = t.asked /\ u.stored = t.stored /\ u.said = t.said
         /\ u.rx = t.rx /\ u.peer = t.peer /\ u.eof = t.eof /\ u.wire = t.wire /\ u.got = t.got
         /\ u.armR = t.armR /\ u.armW = t.armW /\ u.half = t.half
    BY <1>6 DEF ChannelType
  <1> HIDE DEF u
  <1>13. Same(u, t) BY <1>11, <1>12 DEF Same
  <1>14. Good(u) BY <1>10, <1>13, SameGood
  <1>15. LateEntries \/ u.kind # "list" BY <1>7, <1>12 DEF Open
  <1>16. Good(v) /\ Queued(v, u)
    <2>1. u.phase # "idle" /\ "ok" \in {"ok", "fail", "inval"} BY <1>7, <1>12
    <2> QED BY <1>1, <1>14, <1>15, <2>1, SendAdderGood
  <1> HIDE DEF v
  <1>17. /\ v.phase = u.phase /\ v.kind = u.kind /\ v.con = u.con /\ v.add = u.add /\ v.si = u.si
         /\ v.buf = u.buf /\ v.left = u.left
    BY <1>11, <1>16 DEF Queued, ChannelType
  <1> QED BY <1>3, <1>7, <1>10, <1>12, <1>16, <1>17

LEMMA ReadLineTakes ==
    ASSUME NEW s, Good(s), s.phase = "run", s.con["in"], LateEntries \/ s.kind = "talk"
    PROVE  Takes(ReadLine(s), s, "in")
  <1> DEFINE r == ReadLine(s)
             y == Say(s)
             t == [y EXCEPT !.left = @ - 1]
             u == ShutDownChannel(t)
             w == SubSeq(s.buf["in"], LineSize + 1, Len(s.buf["in"]))
  <1>0. s \in ChannelType /\ InPlace(s) BY GoodParts
  <1>1. "out" \in Pipes /\ "in" \in Pipes BY DEF Pipes
  <1>2. s.si BY <1>0, <1>1 DEF InPlace, Attached, Detached
  <1>3. /\ s.buf["in"] \in Bunch /\ Len(s.buf["in"]) \in Nat /\ Len(s.buf["in"]) <= MaxBuffer
        /\ MaxBuffer \in Nat
    BY <1>1, OutBuffers
  <1>4. CASE Len(s.buf["in"]) < LineSize
    <2>1. r.s = s /\ r.err = "nodata" BY <1>4 DEF ReadLine, Ret
    <2> HIDE DEF r
    <2> QED BY <1>0, <2>1 DEF Takes, TakeCodes, r
  <1>5. CASE ~(Len(s.buf["in"]) < LineSize)
    <2>1. LineSize \in Nat /\ LineSize <= Len(s.buf["in"]) BY <1>3, <1>5 DEF LineSize
    <2>2. w \in Bunch /\ Len(w) = Len(s.buf["in"]) - LineSize BY <1>3, <2>1, Parted, ZenonT(60) DEF Bunch
    <2>3. s.buf["in"] \in Seq({s.n}) => w \in Seq({s.n}) BY <2>1, Parted
    <2>4. Len(w) <= MaxBuffer BY <1>3, <2>1, <2>2
    <2>5. Open(s) BY DEF Open
    <2>6. /\ Good(y) /\ y.phase = "run" /\ y.kind = s.kind /\ y.con = s.con
          /\ y.buf["in"] = s.buf["in"] /\ y.left = s.left /\ y.si = s.si
      BY <2>5, SayGood
    <2> DEFINE z == IF t.left = 0 THEN u ELSE t
    <2>a. r = Ret([z EXCEPT !.buf["in"] = SubSeq(@, LineSize + 1, Len(@))], "ok")
      BY <1>2, <1>5 DEF ReadLine
    <2>b. (t.left = 0 => z = u) /\ (t.left # 0 => z = t) OBVIOUS
    <2> HIDE DEF z, y, r
    <2>7. /\ t.left = 0 => r = Ret([u EXCEPT !.buf["in"] = SubSeq(@, LineSize + 1, Len(@))], "ok")
          /\ t.left # 0 => r = Ret([t EXCEPT !.buf["in"] = SubSeq(@, LineSize + 1, Len(@))], "ok")
      <3> HIDE DEF u, t
      <3> QED BY <2>a, <2>b
    <2>8. y \in ChannelType /\ InPlace(y) /\ Finds(y) BY <2>6, GoodParts
    <2>9. t \in ChannelType
      <3>1. y.left - 1 \in Int BY <2>8 DEF ChannelType
      <3> QED BY <2>8, <3>1, ZenonT(60) DEF ChannelType
    <2>10. /\ t.n = y.n /\ t.kind = y.kind /\ t.phase = y.phase /\ t.result = y.result
           /\ t.add = y.add /\ t.con = y.con /\ t.buf = y.buf /\ t.wa = y.wa
           /\ t.ce = y.ce /\ t.drain = y.drain /\ t.si = y.si /\ t.q = y.q /\ t.shut = y.shut
           /\ t.asked = y.asked /\ t.stored = y.stored /\ t.said = y.said
           /\ t.rx = y.rx /\ t.peer = y.peer /\ t.eof = y.eof /\ t.wire = y.wire /\ t.got = y.got
           /\ t.armR = y.armR /\ t.armW = y.armW /\ t.half = y.half
           /\ t.left = y.left - 1
      BY <2>8 DEF ChannelType
    <2> HIDE DEF t
    <2>11. s.n = y.n
      <3>1. Say(s).n = s.n BY <1>0 DEF Say, SendAdder, Send, ChannelType
      <3> QED BY <3>1 DEF y
    <2>12. Open(y) BY <2>5, <2>6 DEF Open
    <2>13. CASE t.left # 0
      <3> DEFINE v == [t EXCEPT !.buf["in"] = w]
      <3>1. r = Ret(v, "ok") BY <2>6, <2>7, <2>10, <2>13, ZenonT(60)
      <3> HIDE DEF w
      <3>2. v \in ChannelType BY <2>2, <2>9, ZenonT(60) DEF ChannelType
      <3>3. /\ v.n = t.n /\ v.kind = t.kind /\ v.phase = t.phase /\ v.result = t.result
            /\ v.add = t.add /\ v.con = t.con /\ v.wa = t.wa
            /\ v.ce = t.ce /\ v.drain = t.drain /\ v.si = t.si /\ v.q = t.q /\ v.shut = t.shut
            /\ v.asked = t.asked /\ v.stored = t.stored /\ v.said = t.said
            /\ v.rx = t.rx /\ v.peer = t.peer /\ v.eof = t.eof /\ v.wire = t.wire /\ v.got = t.got
            /\ v.armR = t.armR /\ v.armW = t.armW /\ v.half = t.half
            /\ v.left = t.left /\ v.buf["in"] = w /\ v.buf["out"] = t.buf["out"]
        BY <2>9 DEF ChannelType, Pipes
      <3> HIDE DEF v
      <3>4. InPlace(v) BY <2>4, <2>8, <2>10, <3>2, <3>3 DEF InPlace, Targets, Attached, Detached
      <3>5. ASSUME ~LateEntries PROVE Accounted(v) /\ Listed(v)
        <4>0. /\ Accounted(y) /\ Listed(y) /\ y.kind = "talk" /\ y.con["in"]
              /\ ~Shutting(y) /\ ~Settled(y) /\ y.left >= 1
          BY <2>6, <2>12, <3>5, OpenFacts
        <4>1. Ours(v) BY <4>0, <2>3, <2>6, <2>10, <2>11, <3>3 DEF Accounted, Ours, Pipes
        <4>2. Asking(v) BY <4>0, <2>10, <3>3 DEF Accounted, Asking
        <4>3. ShutsLate(v)
          <5>1. ~Shutting(v) BY <4>0, <2>10, <3>3 DEF Shutting
          <5> QED BY <5>1 DEF ShutsLate, Shutting
        <4>4. Ends(v)
          <5>1. y.left \in Int BY <2>8 DEF ChannelType
          <5>2. v.left >= 1 BY <4>0, <5>1, <2>10, <2>13, <3>3
          <5> QED BY <4>0, <5>2, <2>10, <3>3 DEF Accounted, Ends
        <4>5. Flows(v) /\ Listed(v)
          <5>1. /\ v.buf["out"] = y.buf["out"] /\ v.got = y.got /\ v.wire = y.wire
                /\ v.said = y.said /\ v.con = y.con /\ v.kind = "talk"
            BY <4>0, <2>10, <3>3
          <5>2. Gone(v) = Gone(y) BY <5>1 DEF Gone, Written0
          <5> QED BY <4>0, <5>1, <5>2 DEF Accounted, Flows, Listed
        <4>6. Verdict(v) BY <4>0, <2>10, <3>3 DEF Accounted, Verdict
        <4> QED BY <4>1, <4>2, <4>3, <4>4, <4>5, <4>6 DEF Accounted
      <3>6. Good(v) BY <3>4, <3>5 DEF Good
      <3>7. v.phase = s.phase /\ v.kind = s.kind BY <2>6, <2>10, <3>3
      <3>8. r.s = v /\ r.err = "ok" BY <3>1 DEF Ret
      <3> QED BY <3>2, <3>6, <3>7, <3>8 DEF Takes, TakeCodes, r
    <2>14. CASE t.left = 0
      <3> DEFINE o == UnsetConsumer(t, "in")
                 e == <<"shut">>
                 x == [o EXCEPT !.shut = TRUE, !.buf["in"] = w]
                 v == Send(x, e)
      <3>1. Finds(t) BY <2>8, <2>10 DEF Finds
      <3>2. Off(o, t) /\ ~o.con["in"] /\ o.buf = t.buf /\ o.si = t.si
        BY <1>1, <2>9, <3>1, UnsetConsumerOff
      <3>3. r = Ret(v, "ok")
        <4>1. o.buf["in"] = s.buf["in"] BY <2>6, <2>10, <3>2
        <4>2. u = Send([o EXCEPT !.shut = TRUE], e) BY DEF ShutDownChannel
        <4> HIDE DEF o
        <4>3. o \in ChannelType BY <3>2, OffType
        <4>4. u.buf["in"] = s.buf["in"] BY <4>1, <4>2, <4>3 DEF Send, ChannelType
        <4>5. r = Ret([u EXCEPT !.buf["in"] = w], "ok") BY <2>7, <2>14, <4>4
        <4> HIDE DEF w
        <4>6. [u EXCEPT !.buf["in"] = w] = v BY <4>2 DEF Send
        <4> QED BY <4>5, <4>6
      <3> HIDE DEF o, w
      <3>4. o \in ChannelType /\ Finds(o) BY <3>2, OffType
      <3>5. x \in ChannelType BY <2>2, <3>4, ZenonT(60) DEF ChannelType
      <3>6. /\ x.n = o.n /\ x.kind = o.kind /\ x.phase = o.phase /\ x.result = o.result
            /\ x.add = o.add /\ x.con = o.con /\ x.wa = o.wa
            /\ x.ce = o.ce /\ x.drain = o.drain /\ x.si = o.si /\ x.q = o.q
            /\ x.asked = o.asked /\ x.stored = o.stored /\ x.said = o.said
            /\ x.rx = o.rx /\ x.peer = o.peer /\ x.eof = o.eof /\ x.wire = o.wire /\ x.got = o.got
            /\ x.armR = o.armR /\ x.armW = o.armW /\ x.half = o.half
            /\ x.left = o.left /\ x.buf["in"] = w /\ x.buf["out"] = o.buf["out"]
        BY <3>4 DEF ChannelType, Pipes
      <3> HIDE DEF x
      <3>7. o.phase = "run" /\ o.kind = s.kind BY <2>6, <2>10, <3>2 DEF Off
      <3>8. InPlace(x)
        <4>1. \A f : In(f, o.q) => In(f, y.q) BY <2>10, <3>2 DEF Off, Fewer
        <4>2. Targets(x) BY <2>8, <2>10, <3>2, <3>4, <3>6, <3>7, <4>1 DEF InPlace, Targets, Finds, Off
        <4>3. Attached(x) BY <2>8, <2>10, <3>2, <3>6 DEF InPlace, Attached, Detached, Off
        <4>4. OnceIn(Dones, x.q) BY <2>8, <2>10, <3>2, <3>6 DEF InPlace, Off, Fewer
        <4>5. NoStart(x.q) BY <2>6, <3>6, <4>1, GoodParts DEF NoStart
        <4>6. StartLast(x.q) BY <3>5, <4>5, NoStartIsLast DEF ChannelType
        <4>7. Len(x.buf["in"]) <= MaxBuffer /\ Len(x.wire) <= SendRoom
          BY <2>4, <2>8, <2>10, <3>2, <3>6 DEF InPlace, Off
        <4> QED BY <3>5, <4>2, <4>3, <4>4, <4>6, <4>7 DEF InPlace
      <3>9. ASSUME ~LateEntries PROVE Accounted(x) /\ Listed(x)
        <4>0. /\ Accounted(y) /\ Listed(y) /\ y.kind = "talk" /\ y.con["in"]
              /\ ~Shutting(y) /\ y.result # "ok" /\ ~In(<<"done", "ok">>, y.q)
              /\ \A p \in Pipes : ~In(<<"pipe", p, "ok">>, y.q)
          BY <2>6, <2>12, <3>9, OpenFacts
        <4>a. /\ x.kind = "talk" /\ ~x.con["in"] /\ x.n = y.n
              /\ \A f : In(f, x.q) => In(f, y.q)
          BY <4>0, <2>10, <3>2, <3>6 DEF Off, Fewer
        <4>1. Ours(x)
          <5>1. x.buf["out"] = y.buf["out"] BY <2>10, <3>2, <3>6
          <5> QED BY <4>0, <5>1, <2>3, <2>6, <2>10, <2>11, <3>2, <3>6, <3>7, <1>1
                  DEF Accounted, Ours, Off, Pipes
        <4>2. Asking(x) BY <4>0, <4>a, <2>10, <3>2, <3>6 DEF Accounted, Asking, Off
        <4>3. ShutsLate(x)
          <5>1. ~In(<<"con", "out", "bye">>, x.q) BY <4>0, <4>a DEF Shutting
          <5> QED BY <5>1, <4>a DEF ShutsLate
        <4>4. Ends(x)
          <5>1. o.ce["out"] # "nodata" BY <4>0, <1>1, <2>10, <3>2 DEF Accounted, Ends, Off
          <5> QED BY <5>1, <4>a, <3>6 DEF Ends
        <4>5. Flows(x) /\ Listed(x)
          <5>1. /\ x.con["out"] => y.con["out"]
                /\ x.buf["out"] = y.buf["out"] /\ x.got = y.got /\ x.wire = y.wire /\ x.said = y.said
            BY <1>1, <2>10, <3>2, <3>6 DEF Off
          <5> QED BY <4>0, <4>a, <5>1 DEF Accounted, Flows, Listed, Gone, Written0
        <4>6. Verdict(x)
          <5>1. x.result = y.result /\ x.phase = y.phase BY <2>10, <3>2, <3>6 DEF Off
          <5> QED BY <4>0, <4>a, <5>1 DEF Accounted, Verdict
        <4> QED BY <4>1, <4>2, <4>3, <4>4, <4>5, <4>6 DEF Accounted
      <3>10. Good(x) BY <3>8, <3>9 DEF Good
      <3>11. x.phase = "run" /\ x.kind = s.kind BY <3>6, <3>7
      <3>12. Fits(x, e)
        <4>1. NoStart(x.q) BY <3>10, <3>11, GoodParts
        <4>2. e \in LoopEvents /\ e \notin Calls BY DEF LoopEvents, Calls
        <4>3. ~x.con["in"] BY <3>2, <3>6
        <4> QED BY <4>1, <4>2, <4>3, <3>11 DEF Fits
      <3>13. Good(v) /\ Queued(v, x)
        <4>1. e \in LoopEvents BY DEF LoopEvents
        <4> HIDE DEF e
        <4> QED BY <3>5, <3>10, <3>12, <4>1, EventSent, EventQueued
      <3> HIDE DEF v
      <3>14. v.phase = x.phase /\ v.kind = x.kind /\ v \in ChannelType
        BY <3>5, <3>13, GoodParts, ZenonT(60) DEF Queued, ChannelType
      <3>15. r.s = v /\ r.err = "ok" BY <3>3 DEF Ret
      <3> QED BY <3>11, <3>13, <3>14, <3>15 DEF Takes, TakeCodes, r
    <2> QED BY <2>13, <2>14
  <1> QED BY <1>4, <1>5

-----------------------------------------------------------------------------
\* pipe::consume_buffer: what holds at every turn of its loop.

LEMMA ConsumeByTakes ==
    ASSUME NEW s, Good(s), s.phase = "run", NEW p \in Pipes, s.con[p], s.buf[p] # <<>>
    PROVE  Takes(ConsumeBy(s, p), s, p)
  <1>1. CASE p = "out" BY <1>1, WriteTakes DEF ConsumeBy
  <1>2. CASE p = "in" /\ s.kind = "store"
    <2>1. ConsumeBy(s, p) = WriteFile(s) BY <1>2 DEF ConsumeBy
    <2> QED BY <2>1, <1>2, WriteFileTakes
  <1>3. CASE p = "in" /\ s.kind # "store"
    <2>1. ConsumeBy(s, p) = ReadLine(s) BY <1>3 DEF ConsumeBy
    <2>2. LateEntries \/ s.kind = "talk" BY <1>3, GoodParts DEF Accounted, Ends
    <2> QED BY <2>1, <2>2, <1>3, ReadLineTakes
  <1> QED BY <1>1, <1>2, <1>3 DEF Pipes

LEMMA ConsumerErrorGood ==
    ASSUME NEW s, Good(s), NEW p \in Pipes, NEW c \in TakeCodes,
           LateEntries \/ c # "nodata" \/ (s.kind = "talk" /\ p = "in")
    PROVE  /\ Good([s EXCEPT !.ce[p] = c]) /\ [s EXCEPT !.ce[p] = c] \in ChannelType
           /\ [s EXCEPT !.ce[p] = c].ce[p] = c /\ [s EXCEPT !.ce[p] = c].phase = s.phase
  <1> DEFINE t == [s EXCEPT !.ce[p] = c]
  <1>0. s \in ChannelType /\ InPlace(s) BY GoodParts
  <1>1. t \in ChannelType BY <1>0, ZenonT(60) DEF ChannelType, TakeCodes
  <1>2. /\ t.n = s.n /\ t.kind = s.kind /\ t.phase = s.phase /\ t.result = s.result
        /\ t.add = s.add /\ t.con = s.con /\ t.buf = s.buf /\ t.wa = s.wa
        /\ t.drain = s.drain /\ t.si = s.si /\ t.q = s.q /\ t.shut = s.shut
        /\ t.left = s.left /\ t.asked = s.asked /\ t.stored = s.stored /\ t.said = s.said
        /\ t.rx = s.rx /\ t.peer = s.peer /\ t.eof = s.eof /\ t.wire = s.wire /\ t.got = s.got
        /\ t.armR = s.armR /\ t.armW = s.armW /\ t.half = s.half
    BY <1>0 DEF ChannelType
  <1>3. t.ce[p] = c /\ \A o \in Pipes : o # p => t.ce[o] = s.ce[o] BY <1>0 DEF ChannelType
  <1> HIDE DEF t
  <1>4. InPlace(t) BY <1>0, <1>1, <1>2 DEF InPlace, Targets, Attached, Detached
  <1>5. ASSUME ~LateEntries PROVE Accounted(t) /\ Listed(t)
    <2>0. Accounted(s) /\ Listed(s) BY <1>5, GoodParts
    <2>1. Ours(t) BY <2>0, <1>2 DEF Accounted, Ours
    <2>2. Asking(t) BY <2>0, <1>2 DEF Accounted, Asking
    <2>3. ShutsLate(t) BY <2>0, <1>2 DEF Accounted, ShutsLate, Shutting
    <2>4. Ends(t) BY <2>0, <1>2, <1>3, <1>5 DEF Accounted, Ends, Pipes
    <2>5. Flows(t) /\ Listed(t) BY <2>0, <1>2, ZenonT(60) DEF Accounted, Flows, Listed, Gone, Written0
    <2>6. Verdict(t) BY <2>0, <1>2 DEF Accounted, Verdict, Settled, Written0
    <2> QED BY <2>1, <2>2, <2>3, <2>4, <2>5, <2>6 DEF Accounted
  <1>6. Good(t) BY <1>4, <1>5 DEF Good
  <1> QED BY <1>1, <1>2, <1>3, <1>6 DEF t

\* The pipe's flag waiting_for_consumer_event_ is no part of the invariant.
LEMMA ConsumerWaitGood ==
    ASSUME NEW s, Good(s), NEW p \in Pipes, NEW b \in BOOLEAN
    PROVE  Good([s EXCEPT !.wc[p] = b]) /\ Same([s EXCEPT !.wc[p] = b], s)
  <1> DEFINE t == [s EXCEPT !.wc[p] = b]
  <1>0. s \in ChannelType BY GoodParts
  <1>1. t \in ChannelType BY <1>0, ZenonT(60) DEF ChannelType
  <1>2. /\ t.n = s.n /\ t.kind = s.kind /\ t.phase = s.phase /\ t.result = s.result
        /\ t.add = s.add /\ t.con = s.con /\ t.buf = s.buf /\ t.wa = s.wa
        /\ t.ce = s.ce /\ t.drain = s.drain /\ t.si = s.si /\ t.q = s.q /\ t.shut = s.shut
        /\ t.left = s.left /\ t.asked = s.asked /\ t.stored = s.stored /\ t.said = s.said
        /\ t.rx = s.rx /\ t.peer = s.peer /\ t.eof = s.eof /\ t.wire = s.wire /\ t.got = s.got
        /\ t.armR = s.armR /\ t.armW = s.armW /\ t.half = s.half
    BY <1>0 DEF ChannelType
  <1> HIDE DEF t
  <1>3. Same(t, s) BY <1>1, <1>2 DEF Same
  <1>4. Good(t) BY <1>3, SameGood
  <1> QED BY <1>3, <1>4 DEF t

ConTurn(l, p) ==
    /\ l \in Loops /\ Good(l.s) /\ l.s.phase = "run"
    /\ l.go => l.more
    /\ l.more \/ l.s.ce[p] = "fail"

ConStep(l, p) ==
    IF ~l.go \/ ~l.s.con[p] \/ l.s.buf[p] = <<>> THEN l
    ELSE Consumed(ConsumeBy(l.s, p), p)

LEMMA ConTurnMade ==
    ASSUME NEW s \in ChannelType, Good(s), s.phase = "run", NEW p,
           NEW go \in BOOLEAN, NEW more \in BOOLEAN, go => more,
           more \/ s.ce[p] = "fail"
    PROVE  ConTurn(Loop(s, go, more), p)
  <1> DEFINE l == Loop(s, go, more)
  <1>1. l \in Loops /\ l.s = s /\ l.go = go /\ l.more = more BY LoopFields
  <1> HIDE DEF l
  <1>2. ConTurn(l, p) BY <1>1 DEF ConTurn
  <1> QED BY <1>2 DEF l

LEMMA ConStepGood ==
    ASSUME NEW l, NEW p \in Pipes, ConTurn(l, p)
    PROVE  ConTurn(ConStep(l, p), p)
  <1> DEFINE r == ConsumeBy(l.s, p)
             z == r.s
             c == r.err
             t == [z EXCEPT !.ce[p] = c]
             w == [t EXCEPT !.wc[p] = TRUE]
  <1>1. CASE ~l.go \/ ~l.s.con[p] \/ l.s.buf[p] = <<>>
    <2>1. ConStep(l, p) = l BY <1>1 DEF ConStep
    <2> QED BY <2>1
  <1>2. CASE l.go /\ l.s.con[p] /\ l.s.buf[p] # <<>>
    <2>1. Takes(r, l.s, p) BY <1>2, ConsumeByTakes DEF ConTurn
    <2>2. ConStep(l, p) = Consumed(r, p) BY <1>2 DEF ConStep
    <2>3. l.s.phase = "run" BY DEF ConTurn
    <2> HIDE DEF r
    <2>4. /\ Good(z) /\ z.phase = "run" /\ c \in TakeCodes
          /\ LateEntries \/ c # "nodata" \/ (z.kind = "talk" /\ p = "in")
      BY <2>1, <2>3 DEF Takes
    <2>5. Consumed(r, p) = CASE c = "ok" -> Loop(t, TRUE, TRUE)
                             [] c = "again" -> Loop(w, FALSE, TRUE)
                             [] c = "nodata" -> Loop(t, FALSE, TRUE)
                             [] OTHER -> Loop(t, FALSE, FALSE)
      BY DEF Consumed
    <2> HIDE DEF z, c
    <2>6. Good(t) /\ t \in ChannelType /\ t.ce[p] = c /\ t.phase = "run"
      BY <2>4, ConsumerErrorGood
    <2> HIDE DEF t
    <2>7. Good(w) /\ w \in ChannelType /\ w.phase = "run" BY <2>6, ConsumerWaitGood DEF Same
    <2> HIDE DEF w
    <2>8. CASE c = "ok" BY <2>2, <2>5, <2>6, <2>8, ConTurnMade
    <2>9. CASE c = "again" BY <2>2, <2>5, <2>7, <2>9, ConTurnMade
    <2>10. CASE c = "nodata" BY <2>2, <2>5, <2>6, <2>10, ConTurnMade
    <2>11. CASE c = "fail" BY <2>2, <2>5, <2>6, <2>11, ConTurnMade
    <2> QED BY <2>4, <2>8, <2>9, <2>10, <2>11 DEF TakeCodes
  <1> QED BY <1>1, <1>2 DEF ConTurn, Loops

LEMMA ConsumeBufferGood ==
    ASSUME NEW s, Good(s), s.phase = "run", NEW p \in Pipes
    PROVE  ConTurn(ConsumeBuffer(s, p), p)
  <1> DEFINE S == {l \in Loops : ConTurn(l, p)}
             a == Loop(s, TRUE, TRUE)
             g == [x \in Nat \X S |-> ConStep(x[2], p)]
             Is(f) == f = [k \in Nat |-> IF k = 0 THEN a ELSE ConStep(f[k - 1], p)]
             loop == CHOOSE f : Is(f)
  <1>1. a \in S
    <2>1. s \in ChannelType BY GoodParts
    <2>2. ConTurn(a, p) BY <2>1, ConTurnMade
    <2> QED BY <2>2 DEF ConTurn
  <1>2. ConsumeBuffer(s, p) = loop[MaxLoops] BY DEF ConsumeBuffer, ConStep
  <1> HIDE DEF a
  <1>3. \A l \in S, n \in Nat : ConStep(l, p) \in S
    <2>1. ASSUME NEW l \in S, NEW n \in Nat PROVE ConStep(l, p) \in S
      <3>1. ConTurn(ConStep(l, p), p) BY <2>1, ConStepGood
      <3> QED BY <3>1 DEF ConTurn
    <2> QED BY <2>1
  <1>4. g \in [Nat \X S -> S] BY <1>3
  <1> HIDE DEF S
  <1>5. \E f \in [Nat -> S] : Iterates(f, a, g)
    <2> HIDE DEF g
    <2> QED BY <1>1, <1>4, Recursion
  <1>6. PICK f \in [Nat -> S] : Iterates(f, a, g) BY <1>5
  <1>7. f[0] = a /\ \A n \in Nat : f[n + 1] = ConStep(f[n], p)
    <2>1. ASSUME NEW n \in Nat PROVE f[n + 1] = ConStep(f[n], p)
      <3>1. <<n, f[n]>> \in Nat \X S /\ f[n + 1] = g[<<n, f[n]>>] BY <1>6 DEF Iterates
      <3> QED BY <3>1
    <2> QED BY <2>1, <1>6 DEF Iterates
  <1>8. Is(f)
    <2> DEFINE h == [k \in Nat |-> IF k = 0 THEN a ELSE ConStep(f[k - 1], p)]
    <2>1. ASSUME NEW k \in Nat PROVE f[k] = h[k]
      <3>1. CASE k = 0 BY <3>1, <1>7
      <3>2. CASE k # 0
        <4>1. k - 1 \in Nat /\ (k - 1) + 1 = k BY <3>2
        <4>2. f[(k - 1) + 1] = ConStep(f[k - 1], p) BY <1>7, <4>1
        <4> QED BY <4>1, <4>2, <3>2
      <3> QED BY <3>1, <3>2
    <2> QED BY <2>1
  <1>9. Is(loop)
    <2> HIDE DEF Is
    <2> QED BY <1>8
  <1>10. loop[0] = a /\ \A n \in Nat : loop[n + 1] = ConStep(loop[n], p)
    <2> HIDE DEF loop
    <2>1. loop[0] = a BY <1>9
    <2>2. ASSUME NEW n \in Nat PROVE loop[n + 1] = ConStep(loop[n], p)
      <3>1. n + 1 \in Nat /\ n + 1 # 0 /\ (n + 1) - 1 = n OBVIOUS
      <3>2. loop[n + 1] = ConStep(loop[(n + 1) - 1], p) BY <1>9, <3>1
      <3> QED BY <3>1, <3>2
    <2> QED BY <2>1, <2>2
  <1> HIDE DEF loop, Is, g
  <1> DEFINE T == {n \in Nat : loop[n] \in S}
  <1>11. T = Nat
    <2>1. T \in SUBSET Nat /\ 0 \in T BY <1>1, <1>10
    <2>2. ASSUME NEW n \in T PROVE n + 1 \in T
      <3>1. n \in Nat /\ loop[n] \in S BY <2>2
      <3>2. ConStep(loop[n], p) \in S BY <3>1, <1>3
      <3> QED BY <3>1, <3>2, <1>10
    <2> HIDE DEF T
    <2> QED BY <2>1, <2>2, Induction
  <1>12. MaxLoops \in Nat BY BoundsAssumption
  <1>13. loop[MaxLoops] \in S BY <1>11, <1>12
  <1> QED BY <1>2, <1>13 DEF S

-----------------------------------------------------------------------------
\* pipe::on_buffer_consumer_event.

LEMMA OnConsumerGood ==
    ASSUME NEW s, Good(s), s.phase = "run", NEW p \in Pipes, NEW err \in {"ok", "fail", "bye"},
           LateEntries \/ err # "bye" \/ Settles(s, p)
    PROVE  Good(OnConsumer(s, p, err))
  <1> DEFINE t == [s EXCEPT !.wc[p] = FALSE]
             l == ConsumeBuffer(t, p)
             z == l.s
             u == [z EXCEPT !.wc[p] = TRUE]
             w == [z EXCEPT !.wa[p] = TRUE]
             x == SendConsumer(u, p, "ok")
             y == SendAdder(w, p, "ok")
  <1>0. Nearly(s) /\ (~LateEntries => Listed(s)) BY GoodParts
  <1>1. Good(t) /\ t.phase = "run" BY ConsumerWaitGood DEF Same
  <1>2. OnConsumer(s, p, err) =
            IF err # "ok" THEN PipeDone(s, p, err)
            ELSE IF ~l.more THEN PipeDone(z, p, z.ce[p])
            ELSE IF ~z.con[p] THEN z
            ELSE IF z.ce[p] # "nodata" /\ z.buf[p] # <<>>
                 THEN IF z.wc[p] THEN z ELSE x
            ELSE IF ~z.wa[p] /\ z.add[p] THEN y
            ELSE z
    BY DEF OnConsumer
  <1> HIDE DEF t
  <1>3. ConTurn(l, p) BY <1>1, ConsumeBufferGood
  <1> HIDE DEF l
  <1>4. Good(z) /\ z.phase = "run" /\ (l.more \/ z.ce[p] = "fail") BY <1>3 DEF ConTurn
  <1> HIDE DEF z
  <1>5. CASE err # "ok"
    <2>1. Good(PipeDone(s, p, err)) BY <1>0, <1>5, PipeDoneGood
    <2> QED BY <1>2, <1>5, <2>1
  <1>6. CASE err = "ok" /\ ~l.more
    <2>1. Nearly(z) /\ (~LateEntries => Listed(z)) BY <1>4, GoodParts
    <2>2. z.ce[p] = "fail" BY <1>4, <1>6
    <2>3. Good(PipeDone(z, p, "fail")) BY <1>4, <2>1, PipeDoneGood
    <2> QED BY <1>2, <1>6, <2>2, <2>3
  <1>7. Good(x)
    <2>1. Good(u) /\ u.phase = "run" BY <1>4, ConsumerWaitGood, ZenonT(60) DEF Same
    <2> HIDE DEF u
    <2> QED BY <2>1, SendConsumerGood
  <1>8. ASSUME ~z.wa[p] PROVE Good(y)
    <2>0. z \in ChannelType BY <1>4, GoodParts
    <2>1. Good(w) /\ w.wa[p] BY <1>4, WaitsGood
    <2>2. /\ w.phase = z.phase /\ w.kind = z.kind /\ w.add = z.add /\ w.asked = z.asked /\ w.q = z.q
      BY <2>0 DEF ChannelType
    <2>3. LateEntries \/ w.kind # "list" \/ p = "in" \/ ~w.add["out"]
          \/ (w.asked = <<>> /\ w.wa["out"] /\ \A d \in Calls : ~In(d, w.q))
      <3>1. SUFFICES ASSUME ~LateEntries, p = "out", w.kind = "list", w.add["out"]
                     PROVE  w.asked = <<>> /\ w.wa["out"] /\ \A d \in Calls : ~In(d, w.q)
        BY DEF Pipes
      <3>2. Asking(z) BY <1>4, <3>1, GoodParts DEF Accounted
      <3> QED BY <3>1, <3>2, <1>8, <2>1, <2>2 DEF Asking
    <2> HIDE DEF w
    <2> QED BY <1>4, <2>1, <2>2, <2>3, SendAdderGood
  <1> HIDE DEF x, y
  <1> QED BY <1>2, <1>4, <1>5, <1>6, <1>7, <1>8

\* pipe::on_buffer_adder_event.

LEMMA OnAdderGood ==
    ASSUME NEW s, Nearly(s), s.phase = "run", NEW p \in Pipes, NEW err \in {"ok", "fail", "inval"},
           err = "ok" \/ p = "in" => Good(s), err = "ok" => MayAsk(s, p)
    PROVE  Good(OnAdder(s, p, err))
  <1> DEFINE t == [s EXCEPT !.wa[p] = FALSE]
             l == AddToBuffer(t, p)
             z == l.s
             u == [z EXCEPT !.wc[p] = TRUE]
             x == SendConsumer(u, p, "ok")
  <1>1. OnAdder(s, p, err) =
            IF err # "ok" THEN PipeDone(s, p, err)
            ELSE IF ~l.more THEN PipeDone(z, p, z.ae[p])
            ELSE IF ~z.wc[p] /\ z.buf[p] # <<>> /\ z.con[p] THEN x
            ELSE z
    BY DEF OnAdder
  <1>2. CASE err # "ok"
    <2>1. LateEntries \/ Listed(s) \/ p = "out" BY GoodParts DEF Pipes
    <2>2. Good(PipeDone(s, p, err)) BY <1>2, <2>1, PipeDoneGood
    <2> QED BY <1>1, <1>2, <2>2
  <1>3. CASE err = "ok"
    <2>0. Good(s) /\ MayAsk(s, p) /\ s \in ChannelType BY <1>3, GoodParts
    <2>1. t \in ChannelType BY <2>0, ZenonT(60) DEF ChannelType
    <2>2. /\ t.n = s.n /\ t.kind = s.kind /\ t.phase = s.phase /\ t.result = s.result
          /\ t.add = s.add /\ t.con = s.con /\ t.buf = s.buf
          /\ t.ce = s.ce /\ t.drain = s.drain /\ t.si = s.si /\ t.q = s.q /\ t.shut = s.shut
          /\ t.left = s.left /\ t.asked = s.asked /\ t.stored = s.stored /\ t.said = s.said
          /\ t.rx = s.rx /\ t.peer = s.peer /\ t.eof = s.eof /\ t.wire = s.wire /\ t.got = s.got
          /\ t.armR = s.armR /\ t.armW = s.armW /\ t.half = s.half
      BY <2>0 DEF ChannelType
    <2>3. p # "out" => t.wa["out"] = s.wa["out"] BY <2>0 DEF ChannelType, Pipes
    <2> HIDE DEF t
    <2>4. InPlace(t) BY <2>0, <2>1, <2>2, GoodParts DEF InPlace, Targets, Attached, Detached
    <2>5. ASSUME ~LateEntries PROVE Accounted(t) /\ Listed(t)
      <3>0. Accounted(s) /\ Listed(s) BY <2>0, <2>5, GoodParts
      <3>1. Ours(t) BY <3>0, <2>2 DEF Accounted, Ours
      <3>2. Asking(t) BY <3>0, <2>0, <2>2, <2>3, <2>5 DEF Accounted, Asking, MayAsk
      <3>3. ShutsLate(t) BY <3>0, <2>2 DEF Accounted, ShutsLate, Shutting
      <3>4. Ends(t) BY <3>0, <2>2 DEF Accounted, Ends
      <3>5. Flows(t) /\ Listed(t) BY <3>0, <2>2, ZenonT(60) DEF Accounted, Flows, Listed, Gone, Written0
      <3>6. Verdict(t) BY <3>0, <2>2 DEF Accounted, Verdict, Settled, Written0
      <3> QED BY <3>1, <3>2, <3>3, <3>4, <3>5, <3>6 DEF Accounted
    <2>6. Good(t) /\ t.phase = "run" /\ MayAsk(t, p)
      BY <2>0, <2>2, <2>4, <2>5 DEF Good, MayAsk
    <2>7. AddTurn(l, p) BY <2>6, AddToBufferGood
    <2> HIDE DEF l
    <2>8. /\ Good(z) /\ z.phase = "run"
          /\ l.more \/ z.ae[p] # "ok" \/ LateEntries \/ Settles(z, p)
      BY <2>7 DEF AddTurn
    <2> HIDE DEF z
    <2>9. CASE ~l.more
      <3> DEFINE c == z.ae[p]
      <3>1. c \in PipeCodes BY <2>8, GoodParts DEF ChannelType
      <3>2. Nearly(z) /\ (~LateEntries => Listed(z)) BY <2>8, GoodParts
      <3>3. LateEntries \/ c # "ok" \/ Settles(z, p) BY <2>8, <2>9
      <3>4. OnAdder(s, p, err) = PipeDone(z, p, c) BY <1>1, <1>3, <2>9
      <3> HIDE DEF c
      <3>5. c \in {"ok", "fail", "inval", "nobufs", "bye"} /\ c # "bye" BY <3>1 DEF PipeCodes
      <3>6. LateEntries \/ c \notin {"ok", "bye"} \/ Settles(z, p) BY <3>3, <3>5
      <3>7. Good(PipeDone(z, p, c)) BY <2>8, <3>2, <3>5, <3>6, PipeDoneGood
      <3> QED BY <3>4, <3>7
    <2>10. Good(x)
      <3>1. Good(u) /\ u.phase = "run" BY <2>8, ConsumerWaitGood DEF Same
      <3> HIDE DEF u
      <3> QED BY <3>1, SendConsumerGood
    <2> HIDE DEF x
    <2> QED BY <1>1, <1>3, <2>8, <2>9, <2>10
  <1> QED BY <1>2, <1>3

-----------------------------------------------------------------------------
\* The event loop takes the oldest event.

\* t is s without its oldest event.
Next1(t, s) ==
    /\ t \in ChannelType /\ t.q = Tail(s.q)
    /\ t.n = s.n /\ t.kind = s.kind /\ t.phase = s.phase /\ t.result = s.result
    /\ t.add = s.add /\ t.con = s.con /\ t.buf = s.buf /\ t.wa = s.wa
    /\ t.ce = s.ce /\ t.drain = s.drain /\ t.si = s.si /\ t.shut = s.shut
    /\ t.left = s.left /\ t.asked = s.asked /\ t.stored = s.stored /\ t.said = s.said
    /\ t.rx = s.rx /\ t.peer = s.peer /\ t.eof = s.eof /\ t.wire = s.wire /\ t.got = s.got
    /\ t.armR = s.armR /\ t.armW = s.armW /\ t.half = s.half

LEMMA EventTaken ==
    ASSUME NEW s, Good(s), s.q # <<>>
    PROVE  /\ Next1([s EXCEPT !.q = Tail(@)], s)
           /\ Nearly([s EXCEPT !.q = Tail(@)])
           /\ Head(s.q) # <<"add", "out", "inval">> => Good([s EXCEPT !.q = Tail(@)])
           /\ Head(s.q) \in LoopEvents /\ In(Head(s.q), s.q)
           /\ \A D : OnceIn(D, s.q) /\ Head(s.q) \in D => \A e \in D : ~In(e, Tail(s.q))
           /\ Head(s.q)[1] = "start" => Tail(s.q) = <<>>
  <1> DEFINE u == Tail(s.q)
             h == Head(s.q)
             t == [s EXCEPT !.q = u]
  <1>0. s \in ChannelType /\ InPlace(s) /\ (~LateEntries => Accounted(s) /\ Listed(s)) BY GoodParts
  <1>1. s.q \in Seq(LoopEvents) BY <1>0 DEF ChannelType
  <1>2. /\ u \in Seq(LoopEvents) /\ Fewer(u, s.q) /\ h \in LoopEvents /\ In(h, s.q)
        /\ \A e : In(e, s.q) => e = h \/ In(e, u)
        /\ \A D : OnceIn(D, s.q) /\ h \in D => \A e \in D : ~In(e, u)
        /\ StartLast(s.q) => StartLast(u)
        /\ StartLast(s.q) /\ h[1] = "start" => u = <<>>
    BY <1>1, TailIsFewer
  <1>3. [s EXCEPT !.q = Tail(@)] = t OBVIOUS
  <1>4. h[1] = "start" => u = <<>> BY <1>0, <1>2 DEF InPlace
  <1>u. u = Tail(s.q) /\ h = Head(s.q) OBVIOUS
  <1> HIDE DEF u, h
  <1>5. t \in ChannelType BY <1>0, <1>2, ZenonT(60) DEF ChannelType
  <1>6. /\ t.n = s.n /\ t.kind = s.kind /\ t.phase = s.phase /\ t.result = s.result
        /\ t.add = s.add /\ t.con = s.con /\ t.buf = s.buf /\ t.wa = s.wa
        /\ t.ce = s.ce /\ t.drain = s.drain /\ t.si = s.si /\ t.shut = s.shut
        /\ t.left = s.left /\ t.asked = s.asked /\ t.stored = s.stored /\ t.said = s.said
        /\ t.rx = s.rx /\ t.peer = s.peer /\ t.eof = s.eof /\ t.wire = s.wire /\ t.got = s.got
        /\ t.armR = s.armR /\ t.armW = s.armW /\ t.half = s.half /\ t.q = u
    BY <1>0 DEF ChannelType
  <1> HIDE DEF t
  <1>7. \A e : In(e, t.q) => In(e, s.q) BY <1>2, <1>6 DEF Fewer
  <1>8. InPlace(t)
    <2>1. Targets(t) BY <1>0, <1>6, <1>7 DEF InPlace, Targets
    <2>2. OnceIn(Dones, t.q) /\ StartLast(t.q) BY <1>0, <1>2, <1>6 DEF InPlace, Fewer
    <2> QED BY <1>0, <1>5, <1>6, <2>1, <2>2 DEF InPlace, Attached, Detached
  <1>9. ASSUME ~LateEntries PROVE Accounted(t)
    <2>0. Accounted(s) BY <1>0, <1>9
    <2>1. Ours(t) BY <2>0, <1>6 DEF Accounted, Ours
    <2>2. Asking(t)
      <3>1. OnceIn(Calls, s.q) => OnceIn(Calls, t.q) BY <1>2, <1>6 DEF Fewer
      <3> QED BY <2>0, <1>6, <1>7, <3>1 DEF Accounted, Asking
    <2>3. ShutsLate(t) BY <2>0, <1>6, <1>7 DEF Accounted, ShutsLate, Shutting
    <2>4. Ends(t) BY <2>0, <1>6 DEF Accounted, Ends
    <2>5. Flows(t) BY <2>0, <1>6 DEF Accounted, Flows, Gone, Written0
    <2>6. Verdict(t) BY <2>0, <1>6, <1>7 DEF Accounted, Verdict, Settled, Written0
    <2> QED BY <2>1, <2>2, <2>3, <2>4, <2>5, <2>6 DEF Accounted
  <1>10. ASSUME ~LateEntries, h # <<"add", "out", "inval">> PROVE Listed(t)
    <2>1. Listed(s) BY <1>0, <1>10
    <2>2. In(<<"add", "out", "inval">>, s.q) => In(<<"add", "out", "inval">>, t.q)
      BY <1>2, <1>6, <1>10
    <2> QED BY <2>1, <2>2, <1>6 DEF Listed, Gone, Written0
  <1>11. Next1(t, s) /\ Nearly(t) /\ (h # <<"add", "out", "inval">> => Good(t))
    BY <1>5, <1>6, <1>u, <1>8, <1>9, <1>10 DEF Next1, Nearly, Good
  <1> QED BY <1>2, <1>3, <1>4, <1>11, <1>u

\* The pipe of a channel that is closed: its events find nothing.
LEMMA IdlePipeDone ==
    ASSUME NEW s, Good(s), s.phase = "idle", NEW p \in Pipes, NEW err
    PROVE  Good(OnPipeDone(s, p, err))
  <1> DEFINE o == Other(p)
             d == [s EXCEPT !.drain[o] = TRUE]
             e == <<>>
             t == [d EXCEPT !.buf[o] = e]
  <1>0. s \in ChannelType /\ InPlace(s) BY GoodParts
  <1>1. o \in Pipes BY DEF Other, Pipes
  <1>2. ~s.si /\ Detached(s) BY <1>0 DEF InPlace, Attached
  <1> HIDE DEF o
  <1>3. ClearPipe(s, o) = t
    <2>1. UnsetConsumer(s, o) = s BY <1>1, <1>2 DEF UnsetConsumer, Detached
    <2>2. UnsetAdder(s, o) = d BY <1>1, <1>2 DEF UnsetAdder, Detached
    <2> QED BY <2>1, <2>2 DEF ClearPipe
  <1>4. e \in Bunch /\ e = <<>> /\ Len(e) = 0 BY DEF Bunch
  <1> HIDE DEF e
  <1>5. d \in ChannelType BY <1>0, <1>1, ZenonT(60) DEF ChannelType
  <1>6. t \in ChannelType
    <2> HIDE DEF d
    <2> QED BY <1>1, <1>4, <1>5, ZenonT(60) DEF ChannelType
  <1>7. /\ t.n = s.n /\ t.kind = s.kind /\ t.phase = s.phase /\ t.result = s.result
        /\ t.add = s.add /\ t.con = s.con /\ t.wa = s.wa
        /\ t.ce = s.ce /\ t.si = s.si /\ t.q = s.q /\ t.shut = s.shut
        /\ t.left = s.left /\ t.asked = s.asked /\ t.stored = s.stored /\ t.said = s.said
        /\ t.rx = s.rx /\ t.peer = s.peer /\ t.eof = s.eof /\ t.wire = s.wire /\ t.got = s.got
        /\ t.armR = s.armR /\ t.armW = s.armW /\ t.half = s.half
    BY <1>0 DEF ChannelType
  <1>8. /\ t.buf[o] = e /\ t.drain[o]
        /\ \A i \in Pipes : i # o => t.buf[i] = s.buf[i] /\ t.drain[i] = s.drain[i]
    BY <1>0, <1>1 DEF ChannelType
  <1> HIDE DEF t
  <1>9. OnPipeDone(s, p, err) = t BY <1>2, <1>3, <1>7 DEF OnPipeDone, o
  <1>10. InPlace(t)
    <2>1. Len(t.buf["in"]) <= MaxBuffer
      <3>1. MaxBuffer \in Nat BY BoundsAssumption
      <3> QED BY <3>1, <1>0, <1>4, <1>8 DEF InPlace, Pipes
    <2> QED BY <2>1, <1>0, <1>6, <1>7 DEF InPlace, Targets, Attached, Detached
  <1>11. ASSUME ~LateEntries PROVE Accounted(t) /\ Listed(t)
    <2>0. Accounted(s) /\ Listed(s) BY <1>11, GoodParts
    <2>1. \A i \in Pipes : t.buf[i] = s.buf[i] BY <2>0, <1>4, <1>8, <1>1 DEF Accounted, Ours
    <2>2. Ours(t) BY <2>0, <2>1, <1>7 DEF Accounted, Ours
    <2>3. Asking(t) BY <2>0, <1>7 DEF Accounted, Asking
    <2>4. ShutsLate(t) BY <2>0, <2>1, <1>7 DEF Accounted, ShutsLate, Shutting, Pipes
    <2>5. Ends(t) BY <2>0, <1>7, <1>8 DEF Accounted, Ends
    <2>6. Flows(t) /\ Listed(t) BY <1>2, <1>7 DEF Flows, Listed, Detached, Pipes
    <2>7. Verdict(t) BY <2>0, <1>7 DEF Accounted, Verdict, Settled, Written0
    <2> QED BY <2>2, <2>3, <2>4, <2>5, <2>6, <2>7 DEF Accounted
  <1> QED BY <1>9, <1>10, <1>11 DEF Good

\* socket_adapter::on_socket_event.

LEMMA OnSocketReadGood ==
    ASSUME NEW s, Good(s), s.phase = "run", NEW err \in {"ok", "fail"}
    PROVE  Good(OnSocketRead(s, err))
  <1> DEFINE t == [s EXCEPT !.wr = FALSE]
  <1>0. s \in ChannelType BY GoodParts
  <1>1. t \in ChannelType BY <1>0, ZenonT(60) DEF ChannelType
  <1>2. Same(t, s) BY <1>0, <1>1, ZenonT(60) DEF Same, ChannelType
  <1>3. OnSocketRead(s, err) = IF s.shut THEN t ELSE SendAdder(t, "in", err) BY DEF OnSocketRead
  <1> HIDE DEF t
  <1>4. Good(t) /\ t.phase # "idle" BY <1>2, SameGood DEF Same
  <1>5. Good(SendAdder(t, "in", err))
    <2>1. "in" \in Pipes /\ err \in {"ok", "fail", "inval"} BY DEF Pipes
    <2> QED BY <1>4, <2>1, SendAdderGood
  <1> QED BY <1>3, <1>4, <1>5

LEMMA OnSocketWriteGood ==
    ASSUME NEW s, Good(s), s.phase = "run", NEW err \in {"ok", "fail"}
    PROVE  Good(OnSocketWrite(s, err))
  <1> DEFINE t == [s EXCEPT !.ww = FALSE]
  <1>0. s \in ChannelType /\ (~LateEntries => Accounted(s)) BY GoodParts
  <1>1. t \in ChannelType BY <1>0, ZenonT(60) DEF ChannelType
  <1>2. Same(t, s) BY <1>0, <1>1, ZenonT(60) DEF Same, ChannelType
  <1>3. OnSocketWrite(s, err) = IF s.half THEN OnShutdown(t) ELSE SendConsumer(t, "out", err)
    BY DEF OnSocketWrite
  <1> HIDE DEF t
  <1>4. Good(t) /\ t.phase # "idle" /\ t.kind = s.kind /\ t.con = s.con
    BY <1>2, SameGood DEF Same
  <1>5. ASSUME s.half PROVE Good(OnShutdown(t))
    <2>1. LateEntries \/ (t.kind = "talk" /\ ~t.con["in"])
      BY <1>0, <1>4, <1>5 DEF Accounted, ShutsLate, Shutting
    <2> QED BY <1>4, <2>1, OnShutdownGood
  <1>6. Good(SendConsumer(t, "out", err))
    <2>1. "out" \in Pipes BY DEF Pipes
    <2> QED BY <1>4, <2>1, SendConsumerGood
  <1> QED BY <1>3, <1>5, <1>6

\* The events of the queue and their handlers, the connection's apart.
LEMMA HandleGood ==
    ASSUME NEW s, Good(s), s.q # <<>>, Head(s.q)[1] # "start"
    PROVE  Good(Handle([s EXCEPT !.q = Tail(@)], Head(s.q)))
  <1> DEFINE t == [s EXCEPT !.q = Tail(@)]
             e == Head(s.q)
             X == <<"add", "out", "inval">>
  <1>0. /\ s \in ChannelType /\ InPlace(s) /\ Targets(s) /\ Attached(s) /\ OnceIn(Dones, s.q)
        /\ ~LateEntries => Accounted(s) /\ Asking(s) /\ ShutsLate(s) /\ Verdict(s) /\ Flows(s)
    BY GoodParts DEF InPlace, Accounted
  <1>1. /\ Next1(t, s) /\ Nearly(t) /\ (e # X => Good(t)) /\ e \in LoopEvents /\ In(e, s.q)
        /\ \A D : OnceIn(D, s.q) /\ e \in D => \A f \in D : ~In(f, Tail(s.q))
    BY EventTaken
  <1>2. e[1] # "start" OBVIOUS
  <1> SUFFICES Good(Handle(t, e)) OBVIOUS
  <1> HIDE DEF t, e, X
  <1>3. /\ t \in ChannelType /\ t.q = Tail(s.q) /\ t.kind = s.kind /\ t.phase = s.phase
        /\ t.result = s.result /\ t.add = s.add /\ t.con = s.con /\ t.buf = s.buf /\ t.si = s.si
        /\ t.left = s.left /\ t.asked = s.asked /\ t.stored = s.stored /\ t.said = s.said
        /\ t.wire = s.wire /\ t.got = s.got
    BY <1>1 DEF Next1
  <1>4. \A p \in Pipes : s.add[p] \/ s.con[p] => s.phase = "run"
    BY <1>0 DEF Attached, Detached
  <1>5. s.si => s.phase = "run" BY <1>0 DEF Attached
  <1>6. Settled(s) => Settled(t) BY <1>3 DEF Settled, Written0
  <1>7. CASE e \in {"add"} \X Pipes \X {"ok", "fail", "inval"}
    <2>1. PICK p \in Pipes, err \in {"ok", "fail", "inval"} : e = <<"add", p, err>> BY <1>7
    <2>2. Handle(t, e) = OnAdder(t, p, err) BY <2>1 DEF Handle
    <2>3. s.add[p] /\ s.phase = "run" BY <1>0, <1>1, <1>4, <2>1 DEF Targets, Codes
    <2>4. err = "ok" \/ p = "in" => Good(t) BY <1>1, <2>1 DEF X
    <2>5. err = "ok" => MayAsk(t, p)
      <3>1. SUFFICES ASSUME ~LateEntries, p = "out", s.kind = "list"
                     PROVE  t.asked = <<>> /\ \A d \in Calls : ~In(d, t.q)
        BY <1>3 DEF MayAsk
      <3>2. e \in Calls BY <2>1, <3>1 DEF Calls, Codes
      <3>3. OnceIn(Calls, s.q) /\ s.asked = <<>> BY <1>0, <1>1, <2>3, <3>1, <3>2 DEF Asking
      <3> QED BY <1>1, <1>3, <3>2, <3>3
    <2> QED BY <1>1, <1>3, <2>2, <2>3, <2>4, <2>5, OnAdderGood
  <1>8. CASE e \in ({"con"} \X Pipes \X {"ok", "fail"}) \cup {<<"con", "out", "bye">>}
    <2>1. PICK p \in Pipes, err \in {"ok", "fail", "bye"} :
              e = <<"con", p, err>> /\ (err = "bye" => p = "out")
      BY <1>8 DEF Pipes
    <2>2. Handle(t, e) = OnConsumer(t, p, err) BY <2>1 DEF Handle
    <2>3. s.con[p] /\ s.phase = "run" BY <1>0, <1>1, <1>4, <2>1 DEF Targets, Codes
    <2>4. Good(t) BY <1>1, <2>1 DEF X
    <2>5. LateEntries \/ err # "bye" \/ Settles(t, p)
      <3>1. SUFFICES ASSUME ~LateEntries, err = "bye" PROVE Settles(t, p) OBVIOUS
      <3>2. p = "out" /\ In(<<"con", "out", "bye">>, s.q) BY <1>1, <2>1, <3>1
      <3>3. s.kind = "talk" /\ ~s.con["in"] /\ s.buf["out"] = <<>>
        BY <1>0, <3>1, <3>2 DEF ShutsLate, Shutting
      <3>4. Gone(s) = s.said BY <1>0, <2>3, <3>1, <3>2, <3>3 DEF Flows
      <3>5. Written0(s) = s.said
        <4>1. Written0(s) \in Nat BY <2>3, OutBuffers
        <4> QED BY <4>1, <3>3, <3>4 DEF Gone
      <3> QED BY <1>3, <3>2, <3>3, <3>5 DEF Settles, Written0
    <2> QED BY <1>3, <2>2, <2>3, <2>4, <2>5, OnConsumerGood
  <1>9. CASE e \in {"pipe"} \X Pipes \X PipeCodes
    <2>1. PICK p \in Pipes, err \in PipeCodes : e = <<"pipe", p, err>> BY <1>9
    <2>2. Handle(t, e) = OnPipeDone(t, p, err) BY <2>1 DEF Handle
    <2>3. Good(t) BY <1>1, <2>1 DEF X
    <2>4. LateEntries \/ err # "ok" \/ t.phase # "run" \/ Settled(t)
      BY <1>0, <1>1, <1>3, <1>6, <2>1 DEF Verdict
    <2>5. CASE t.phase = "idle" BY <2>2, <2>3, <2>5, IdlePipeDone
    <2>6. CASE t.phase # "idle" BY <2>2, <2>3, <2>4, <2>6, OnPipeDoneGood
    <2> QED BY <2>5, <2>6
  <1>10. CASE e \in {"read", "write"} \X {"ok", "fail"}
    <2>1. PICK d \in {"read", "write"}, err \in {"ok", "fail"} : e = <<d, err>> BY <1>10
    <2>2. s.phase = "run"
      <3>1. err \in Codes BY DEF Codes
      <3> QED BY <1>0, <1>1, <1>5, <2>1, <3>1 DEF Targets
    <2>3. Good(t) BY <1>1, <2>1 DEF X
    <2>4. Handle(t, e) = IF d = "read" THEN OnSocketRead(t, err) ELSE OnSocketWrite(t, err)
      BY <2>1 DEF Handle
    <2> QED BY <1>3, <2>2, <2>3, <2>4, OnSocketReadGood, OnSocketWriteGood
  <1>11. CASE e \in {"done"} \X PipeCodes
    <2>1. PICK err \in PipeCodes : e = <<"done", err>> BY <1>11
    <2>2. Handle(t, e) = OnChannelDone(t, err) BY <2>1 DEF Handle
    <2>3. Good(t) BY <1>1, <2>1 DEF X
    <2>4. e \in Dones /\ err \in Codes BY <2>1 DEF Dones, Codes, PipeCodes
    <2>5. s.phase = "run" /\ ~s.si BY <1>0, <1>1, <2>1, <2>4 DEF Targets
    <2>6. \A d \in Dones : ~In(d, t.q) BY <1>0, <1>1, <1>3, <2>4
    <2>7. LateEntries \/ err # "ok" \/ Settled(t) BY <1>0, <1>1, <1>6, <2>1 DEF Verdict
    <2> QED BY <1>3, <2>2, <2>3, <2>5, <2>6, <2>7, OnChannelDoneGood
  <1>12. CASE e = <<"shut">>
    <2>1. Handle(t, e) = OnShutdown(t) BY <1>12 DEF Handle
    <2>2. Good(t) BY <1>1, <1>12 DEF X
    <2>3. LateEntries \/ (t.kind = "talk" /\ ~t.con["in"])
      BY <1>0, <1>1, <1>3, <1>12 DEF ShutsLate, Shutting
    <2> QED BY <2>1, <2>2, <2>3, OnShutdownGood
  <1>13. CASE e = <<"sock">>
    <2>1. Handle(t, e) = DataSocketShutdown(t, t.result) BY <1>13 DEF Handle
    <2>2. Good(t) BY <1>1, <1>13 DEF X
    <2>3. s.phase = "closing" BY <1>0, <1>1, <1>13 DEF Targets
    <2>4. ~t.si BY <1>3, <1>5, <2>3
    <2>5. \A d \in Dones : ~In(d, t.q)
      <3>1. Targets(t) BY <2>2, GoodParts DEF InPlace
      <3>2. \A x \in Codes : ~In(<<"done", x>>, t.q) BY <3>1, <1>3, <2>3 DEF Targets
      <3> QED BY <3>2 DEF Dones
    <2>6. t.result \in {"none"} \cup PipeCodes BY <1>3 DEF ChannelType
    <2>7. LateEntries \/ t.result # "ok" \/ Settled(t) BY <1>0, <1>3, <1>6 DEF Verdict
    <2> QED BY <1>3, <2>1, <2>2, <2>3, <2>4, <2>5, <2>6, <2>7, DataSocketShutdownGood
  <1>14. e \notin {"start"} \X Kinds BY <1>2
  <1> QED BY <1>1, <1>7, <1>8, <1>9, <1>10, <1>11, <1>12, <1>13, <1>14 DEF LoopEvents

-----------------------------------------------------------------------------
\* session::setup_data_channel and commander::set_socket: a transfer begins.

\* What the attaching of operators leaves alone.
Alike(t, s) ==
    /\ t \in ChannelType
    /\ t.n = s.n /\ t.kind = s.kind /\ t.phase = s.phase /\ t.result = s.result
    /\ t.buf = s.buf /\ t.wa = s.wa /\ t.shut = s.shut
    /\ t.left = s.left /\ t.asked = s.asked /\ t.stored = s.stored /\ t.said = s.said
    /\ t.rx = s.rx /\ t.peer = s.peer /\ t.eof = s.eof /\ t.wire = s.wire /\ t.got = s.got
    /\ t.half = s.half

\* The only events there are: new consumers are told that there is data.
OnlyCalled(s) == \A e : In(e, s.q) => \E p \in Pipes : e = <<"con", p, "ok">> /\ s.con[p]

LEMMA AdderSet ==
    ASSUME NEW s \in ChannelType, NEW p \in Pipes, NEW w \in BOOLEAN
    PROVE  /\ Alike(SetAdder(s, p, w), s) /\ SetAdder(s, p, w).q = s.q
           /\ SetAdder(s, p, w).con = s.con /\ SetAdder(s, p, w).ce = s.ce
           /\ SetAdder(s, p, w).si = s.si
           /\ SetAdder(s, p, w).drain[p] = w
           /\ SetAdder(s, p, w).add[p]
           /\ \A o \in Pipes : o # p => /\ SetAdder(s, p, w).add[o] = s.add[o]
                                        /\ SetAdder(s, p, w).drain[o] = s.drain[o]
  <1> DEFINE a == IF s.add[p] THEN s.ae[p] ELSE "ok"
             t == [s EXCEPT !.add[p] = TRUE, !.ae[p] = a, !.drain[p] = w]
  <1>1. SetAdder(s, p, w) = t BY DEF SetAdder
  <1>2. a \in PipeCodes BY DEF ChannelType, PipeCodes
  <1> HIDE DEF a
  <1>3. t \in ChannelType BY <1>2, ZenonT(60) DEF ChannelType
  <1>4. /\ t.n = s.n /\ t.kind = s.kind /\ t.phase = s.phase /\ t.result = s.result
        /\ t.con = s.con /\ t.buf = s.buf /\ t.wa = s.wa
        /\ t.ce = s.ce /\ t.si = s.si /\ t.q = s.q /\ t.shut = s.shut
        /\ t.left = s.left /\ t.asked = s.asked /\ t.stored = s.stored /\ t.said = s.said
        /\ t.rx = s.rx /\ t.peer = s.peer /\ t.eof = s.eof /\ t.wire = s.wire /\ t.got = s.got
        /\ t.half = s.half
    BY DEF ChannelType
  <1>5. /\ t.add[p] /\ t.drain[p] = w
        /\ \A o \in Pipes : o # p => t.add[o] = s.add[o] /\ t.drain[o] = s.drain[o]
    BY DEF ChannelType
  <1> HIDE DEF t
  <1> QED BY <1>1, <1>3, <1>4, <1>5 DEF Alike

LEMMA ConsumerSet ==
    ASSUME NEW s \in ChannelType, NEW p \in Pipes, ~s.con[p], OnlyCalled(s)
    PROVE  /\ Alike(SetConsumer(s, p), s) /\ OnlyCalled(SetConsumer(s, p))
           /\ SetConsumer(s, p).add = s.add /\ SetConsumer(s, p).drain = s.drain
           /\ SetConsumer(s, p).si = s.si
           /\ SetConsumer(s, p).con[p] /\ SetConsumer(s, p).ce[p] = "ok"
           /\ \A o \in Pipes : o # p => /\ SetConsumer(s, p).con[o] = s.con[o]
                                        /\ SetConsumer(s, p).ce[o] = s.ce[o]
  <1> DEFINE e == <<"con", p, "ok">>
             u == Append(s.q, e)
             r == [s EXCEPT !.con[p] = TRUE, !.ce[p] = "ok", !.wc[p] = TRUE]
             t == [r EXCEPT !.q = u]
  <1>1. e \in LoopEvents BY DEF LoopEvents
  <1>2. s.q \in Seq(LoopEvents) BY DEF ChannelType
  <1>3. u \in Seq(LoopEvents) /\ \A d : In(d, u) <=> In(d, s.q) \/ d = e
    BY <1>1, <1>2, AppendedOnce
  <1>4. r \in ChannelType BY ZenonT(60) DEF ChannelType
  <1>5. /\ r.n = s.n /\ r.kind = s.kind /\ r.phase = s.phase /\ r.result = s.result
        /\ r.add = s.add /\ r.buf = s.buf /\ r.wa = s.wa
        /\ r.drain = s.drain /\ r.si = s.si /\ r.q = s.q /\ r.shut = s.shut
        /\ r.left = s.left /\ r.asked = s.asked /\ r.stored = s.stored /\ r.said = s.said
        /\ r.rx = s.rx /\ r.peer = s.peer /\ r.eof = s.eof /\ r.wire = s.wire /\ r.got = s.got
        /\ r.half = s.half
    BY DEF ChannelType
  <1>6. /\ r.con[p] /\ r.ce[p] = "ok"
        /\ \A o \in Pipes : o # p => r.con[o] = s.con[o] /\ r.ce[o] = s.ce[o]
    BY DEF ChannelType
  <1>7. SetConsumer(s, p) = SendConsumer(r, p, "ok") BY DEF SetConsumer
  <1> HIDE DEF r
  <1>8. SetConsumer(s, p) = t
    <2>1. SendConsumer(r, p, "ok") = [r EXCEPT !.q = Append(@, e)] BY <1>6 DEF SendConsumer, Send
    <2>2. Append(r.q, e) = u BY <1>5
    <2> QED BY <1>7, <2>1, <2>2
  <1> HIDE DEF u
  <1>9. t \in ChannelType BY <1>3, <1>4, ZenonT(60) DEF ChannelType
  <1>10. /\ t.n = r.n /\ t.kind = r.kind /\ t.phase = r.phase /\ t.result = r.result
         /\ t.add = r.add /\ t.con = r.con /\ t.buf = r.buf /\ t.wa = r.wa /\ t.ce = r.ce
         /\ t.drain = r.drain /\ t.si = r.si /\ t.q = u /\ t.shut = r.shut
         /\ t.left = r.left /\ t.asked = r.asked /\ t.stored = r.stored /\ t.said = r.said
         /\ t.rx = r.rx /\ t.peer = r.peer /\ t.eof = r.eof /\ t.wire = r.wire /\ t.got = r.got
         /\ t.half = r.half
    BY <1>4 DEF ChannelType
  <1> HIDE DEF t
  <1>11. OnlyCalled(t) BY <1>3, <1>6, <1>10 DEF OnlyCalled
  <1>12. Alike(t, s) BY <1>5, <1>9, <1>10 DEF Alike
  <1> QED BY <1>5, <1>6, <1>8, <1>10, <1>11, <1>12

LEMMA SocketSet ==
    ASSUME NEW s \in ChannelType
    PROVE  /\ Alike(SetSocket(s), s) /\ SetSocket(s).q = s.q /\ SetSocket(s).si
           /\ SetSocket(s).add = s.add /\ SetSocket(s).con = s.con
           /\ SetSocket(s).ce = s.ce /\ SetSocket(s).drain = s.drain
  <1> DEFINE r == [s EXCEPT !.si = TRUE, !.wr = TRUE, !.ww = TRUE]
             t == [r EXCEPT !.armR = TRUE, !.armW = TRUE]
  <1>1. SetSocket(s) = t BY DEF SetSocket
  <1>2. r \in ChannelType BY ZenonT(60) DEF ChannelType
  <1>3. t \in ChannelType
    <2> HIDE DEF r
    <2> QED BY <1>2, ZenonT(60) DEF ChannelType
  <1>4. /\ t.n = s.n /\ t.kind = s.kind /\ t.phase = s.phase /\ t.result = s.result
        /\ t.add = s.add /\ t.con = s.con /\ t.buf = s.buf /\ t.wa = s.wa /\ t.ce = s.ce
        /\ t.drain = s.drain /\ t.si /\ t.q = s.q /\ t.shut = s.shut
        /\ t.left = s.left /\ t.asked = s.asked /\ t.stored = s.stored /\ t.said = s.said
        /\ t.rx = s.rx /\ t.peer = s.peer /\ t.eof = s.eof /\ t.wire = s.wire /\ t.got = s.got
        /\ t.half = s.half
    BY DEF ChannelType
  <1> HIDE DEF t
  <1> QED BY <1>1, <1>3, <1>4 DEF Alike

LEMMA AlikeTwice ==
    ASSUME NEW s, NEW t, NEW u, Alike(t, s), Alike(u, t)
    PROVE  Alike(u, s)
  BY DEF Alike

\* The socket's end of both pipes.
LEMMA SocketAttached ==
    ASSUME NEW s \in ChannelType, NEW w \in BOOLEAN, ~s.con["out"], OnlyCalled(s)
    PROVE  /\ Alike(AttachSocket(s, w), s) /\ OnlyCalled(AttachSocket(s, w))
           /\ AttachSocket(s, w).si
           /\ AttachSocket(s, w).add["in"] /\ AttachSocket(s, w).add["out"] = s.add["out"]
           /\ AttachSocket(s, w).con["out"] /\ AttachSocket(s, w).con["in"] = s.con["in"]
           /\ AttachSocket(s, w).drain["in"] = w
           /\ AttachSocket(s, w).drain["out"] = s.drain["out"]
           /\ AttachSocket(s, w).ce["out"] = "ok" /\ AttachSocket(s, w).ce["in"] = s.ce["in"]
  <1> DEFINE t == SetAdder(s, "in", w)
             u == SetConsumer(t, "out")
             v == SetSocket(u)
  <1>0. AttachSocket(s, w) = v BY DEF AttachSocket
  <1>1. "in" \in Pipes /\ "out" \in Pipes /\ "in" # "out" BY DEF Pipes
  <1>2. /\ Alike(t, s) /\ t.q = s.q /\ t.con = s.con /\ t.ce = s.ce /\ t.si = s.si
        /\ t.drain["in"] = w /\ t.add["in"]
        /\ t.add["out"] = s.add["out"] /\ t.drain["out"] = s.drain["out"]
    BY <1>1, AdderSet
  <1> HIDE DEF t
  <1>3. t \in ChannelType /\ ~t.con["out"] /\ OnlyCalled(t) BY <1>2 DEF Alike, OnlyCalled
  <1>4. /\ Alike(u, t) /\ OnlyCalled(u) /\ u.add = t.add /\ u.drain = t.drain
        /\ u.con["out"] /\ u.ce["out"] = "ok"
        /\ u.con["in"] = t.con["in"] /\ u.ce["in"] = t.ce["in"]
    BY <1>1, <1>3, ConsumerSet
  <1> HIDE DEF u
  <1>5. u \in ChannelType BY <1>4 DEF Alike
  <1>6. /\ Alike(v, u) /\ v.q = u.q /\ v.si /\ v.add = u.add /\ v.con = u.con
        /\ v.ce = u.ce /\ v.drain = u.drain
    BY <1>5, SocketSet
  <1> HIDE DEF v
  <1>7. Alike(v, s) /\ OnlyCalled(v)
    BY <1>2, <1>4, <1>6, AlikeTwice DEF OnlyCalled
  <1> QED BY <1>0, <1>2, <1>4, <1>6, <1>7

LEMMA ConnectedTyped ==
    ASSUME NEW z \in ChannelType, z.n # MaxTransfers, NEW kind \in Kinds
    PROVE  /\ Connected(z, kind) \in ChannelType
           /\ Connected(z, kind).n = z.n + 1 /\ Connected(z, kind).kind = kind
           /\ Connected(z, kind).phase = "run" /\ Connected(z, kind).result = "none"
           /\ Connected(z, kind).add = z.add /\ Connected(z, kind).con = z.con
           /\ Connected(z, kind).buf = z.buf /\ Connected(z, kind).wa = z.wa
           /\ Connected(z, kind).ce = z.ce /\ Connected(z, kind).drain = z.drain
           /\ Connected(z, kind).si = z.si /\ Connected(z, kind).q = z.q
           /\ Connected(z, kind).shut = z.shut /\ Connected(z, kind).half = z.half
           /\ Connected(z, kind).asked = z.asked /\ Connected(z, kind).said = z.said
           /\ Connected(z, kind).left = IF kind = "store" THEN 0 ELSE Bytes
           /\ kind = "store" => Connected(z, kind).peer = Bytes
           /\ Connected(z, kind).rx = 0 /\ ~Connected(z, kind).eof
           /\ Connected(z, kind).wire = <<>> /\ Connected(z, kind).got = <<>>
           /\ Connected(z, kind).stored = <<>>
  <1> DEFINE m == z.n + 1
             l == IF kind = "store" THEN 0 ELSE Bytes
             k == CASE kind = "store" -> Bytes
                    [] kind = "talk"  -> Bytes * LineSize
                    [] OTHER          -> 0
             e == <<>>
             r == [z EXCEPT !.n = m, !.kind = kind, !.phase = "run", !.result = "none"]
             s == [r EXCEPT !.left = l, !.peer = k, !.rx = 0, !.eof = FALSE]
             v == [s EXCEPT !.wire = e, !.got = e, !.stored = e]
             t == [v EXCEPT !.broken = FALSE, !.spoilt = FALSE]
  <1>1. Connected(z, kind) = t BY DEF Connected
  <1>2. Bytes \in Nat /\ MaxTransfers \in Nat BY BoundsAssumption
  <1>3. z.n \in 0..MaxTransfers BY DEF ChannelType
  <1>4. m \in 0..MaxTransfers BY <1>2, <1>3
  <1>5. l \in Int BY <1>2
  <1>6. k \in Nat /\ (kind = "store" => k = Bytes)
    <2>1. Bytes * LineSize \in Nat BY <1>2 DEF LineSize
    <2>2. CASE kind = "store" BY <2>2, <1>2
    <2>3. CASE kind = "talk" BY <2>1, <2>3
    <2>4. CASE kind \notin {"store", "talk"} BY <2>4
    <2> QED BY <2>2, <2>3, <2>4
  <1>7. e \in Bunch /\ e = <<>> BY DEF Bunch
  <1>m. m = z.n + 1 OBVIOUS
  <1>l. l = IF kind = "store" THEN 0 ELSE Bytes OBVIOUS
  <1> HIDE DEF m, l, k, e
  <1>8. r \in ChannelType BY <1>4, ZenonT(60) DEF ChannelType
  <1>9. /\ r.n = m /\ r.kind = kind /\ r.phase = "run" /\ r.result = "none"
        /\ r.add = z.add /\ r.con = z.con /\ r.buf = z.buf /\ r.wa = z.wa /\ r.ce = z.ce
        /\ r.drain = z.drain /\ r.si = z.si /\ r.q = z.q /\ r.shut = z.shut /\ r.half = z.half
        /\ r.asked = z.asked /\ r.said = z.said
    BY DEF ChannelType
  <1> HIDE DEF r
  <1>10. s \in ChannelType BY <1>5, <1>6, <1>8, ZenonT(60) DEF ChannelType
  <1>11. /\ s.n = r.n /\ s.kind = r.kind /\ s.phase = r.phase /\ s.result = r.result
         /\ s.add = r.add /\ s.con = r.con /\ s.buf = r.buf /\ s.wa = r.wa /\ s.ce = r.ce
         /\ s.drain = r.drain /\ s.si = r.si /\ s.q = r.q /\ s.shut = r.shut /\ s.half = r.half
         /\ s.asked = r.asked /\ s.said = r.said
         /\ s.left = l /\ s.peer = k /\ s.rx = 0 /\ ~s.eof
    BY <1>8 DEF ChannelType
  <1> HIDE DEF s
  <1>12. t \in ChannelType
    <2>0. e \in Bunch BY <1>7
    <2>1. v \in ChannelType BY <2>0, <1>10, ZenonT(60) DEF ChannelType
    <2> HIDE DEF v
    <2> QED BY <2>1, ZenonT(60) DEF ChannelType
  <1>13. /\ t.n = s.n /\ t.kind = s.kind /\ t.phase = s.phase /\ t.result = s.result
         /\ t.add = s.add /\ t.con = s.con /\ t.buf = s.buf /\ t.wa = s.wa /\ t.ce = s.ce
         /\ t.drain = s.drain /\ t.si = s.si /\ t.q = s.q /\ t.shut = s.shut /\ t.half = s.half
         /\ t.asked = s.asked /\ t.said = s.said
         /\ t.left = s.left /\ t.peer = s.peer /\ t.rx = s.rx /\ t.eof = s.eof
         /\ t.wire = e /\ t.got = e /\ t.stored = e
    BY <1>10 DEF ChannelType
  <1> HIDE DEF t
  <1> QED BY <1>1, <1>6, <1>7, <1>9, <1>11, <1>12, <1>13, <1>m, <1>l

\* What a transfer begins with.
Begun(s) ==
    /\ s \in ChannelType /\ s.phase = "run" /\ s.result = "none" /\ s.n # 0
    /\ s.si /\ OnlyCalled(s) /\ s.con["out"]
    /\ s.wire = <<>> /\ s.got = <<>> /\ s.stored = <<>> /\ s.rx = 0 /\ ~s.eof
    /\ s.kind = "store" => s.peer = Bytes
    /\ s.kind # "store" => s.left = Bytes
    /\ LateEntries \/ (s.asked = <<>> /\ ~s.shut /\ ~s.half /\ s.said = 0)
    /\ Len(s.buf["in"]) <= MaxBuffer
    /\ LateEntries \/ \A p \in Pipes : s.buf[p] = <<>> /\ s.ce[p] # "nodata"
    /\ LateEntries \/ s.kind = "talk" \/ \A p \in Pipes : s.drain[p]
    /\ LateEntries \/ s.kind \in {"store", "talk"} \/ ~s.con["in"]

LEMMA BegunGood ==
    ASSUME NEW s, Begun(s)
    PROVE  Good(s)
  <1>0. s \in ChannelType BY DEF Begun
  <1>1. \A e : In(e, s.q) => \E p \in Pipes : e = <<"con", p, "ok">> /\ s.con[p]
    BY DEF Begun, OnlyCalled
  <1>2. s.q \in Seq(LoopEvents) BY <1>0 DEF ChannelType
  <1>3. InPlace(s)
    <2>1. Targets(s) BY <1>1 DEF Targets
    <2>2. Attached(s) BY DEF Begun, Attached
    <2>3. OnceIn(Dones, s.q)
      <3>1. \A i \in DOMAIN s.q : s.q[i] \notin Dones BY <1>1 DEF In, Dones
      <3> QED BY <3>1 DEF OnceIn
    <2>4. NoStart(s.q) BY <1>1 DEF NoStart
    <2>5. StartLast(s.q) BY <1>2, <2>4, NoStartIsLast
    <2>6. Len(s.wire) <= SendRoom
      <3>1. SendRoom \in Nat BY BoundsAssumption
      <3> QED BY <3>1 DEF Begun
    <2> QED BY <1>0, <2>1, <2>2, <2>3, <2>5, <2>6 DEF InPlace, Begun
  <1>4. ASSUME ~LateEntries PROVE Accounted(s) /\ Listed(s)
    <2>0. /\ s.asked = <<>> /\ ~s.shut /\ ~s.half /\ s.said = 0
          /\ \A p \in Pipes : s.buf[p] = <<>> /\ s.ce[p] # "nodata"
          /\ s.kind = "talk" \/ \A p \in Pipes : s.drain[p]
          /\ s.kind \in {"store", "talk"} \/ ~s.con["in"]
          /\ s.wire = <<>> /\ s.got = <<>> /\ s.stored = <<>> /\ s.rx = 0 /\ ~s.eof
          /\ s.phase = "run" /\ s.result = "none"
      BY <1>4 DEF Begun
    <2>b. Bytes \in Nat /\ Bytes >= 1 BY BoundsAssumption
    <2>g. Written0(s) = 0 /\ Gone(s) = 0 BY <2>0 DEF Written0, Gone, Pipes
    <2>1. Ours(s)
      <3>1. <<>> \in Seq({s.n}) OBVIOUS
      <3> QED BY <2>0, <3>1 DEF Ours
    <2>2. Asking(s)
      <3>1. \A e \in Calls : ~In(e, s.q) BY <1>1 DEF Calls
      <3>2. OnceIn(Calls, s.q) BY <3>1 DEF OnceIn, In
      <3> QED BY <2>0, <3>1, <3>2 DEF Asking
    <2>3. ShutsLate(s)
      <3>1. ~In(<<"shut">>, s.q) /\ ~In(<<"con", "out", "bye">>, s.q) BY <1>1
      <3>2. ~Shutting(s) BY <2>0, <3>1 DEF Shutting
      <3> QED BY <3>1, <3>2 DEF ShutsLate
    <2>4. Ends(s) BY <2>0, <2>b DEF Ends, Begun, Pipes
    <2>5. Flows(s) /\ Listed(s)
      <3>1. s.kind = "send" => s.left >= 0 /\ Gone(s) + s.left = Bytes
        BY <2>b, <2>g DEF Begun
      <3>2. s.kind = "store" =>
              /\ ((Len(s.stored) + Len(s.buf["in"])) + s.rx) + s.peer = Bytes
              /\ s.eof => s.peer = 0
        <4>1. Len(s.stored) = 0 /\ Len(s.buf["in"]) = 0 BY <2>0 DEF Pipes
        <4> QED BY <4>1, <2>0, <2>b DEF Begun
      <3>3. s.kind = "list" => s.left >= 0 /\ (Gone(s) + s.left) + Len(s.asked) = Bytes
        <4>1. Len(s.asked) = 0 BY <2>0
        <4> QED BY <4>1, <2>b, <2>g DEF Begun
      <3> QED BY <2>0, <2>g, <3>1, <3>2, <3>3 DEF Flows, Listed
    <2>6. Verdict(s)
      <3>1. ~In(<<"done", "ok">>, s.q) /\ \A p \in Pipes : ~In(<<"pipe", p, "ok">>, s.q) BY <1>1
      <3> QED BY <2>0, <3>1 DEF Verdict
    <2> QED BY <2>1, <2>2, <2>3, <2>4, <2>5, <2>6 DEF Accounted
  <1> QED BY <1>3, <1>4 DEF Good

LEMMA StartedGood ==
    ASSUME NEW z, Good(z), z.phase = "idle", z.q = <<>>, z.kind # "talk", z.n # MaxTransfers,
           NEW kind \in Kinds
    PROVE  Good(Started(z, kind))
  <1> DEFINE s == Connected(z, kind)
             t == IF kind \in {"send", "list"} THEN SetAdder(s, "out", TRUE) ELSE s
             u == IF kind = "store" THEN SetConsumer(t, "in") ELSE t
             v == AttachSocket(u, TRUE)
             x == AttachSocket(s, FALSE)
             y == SetAdder(x, "out", TRUE)
             w == SetConsumer(y, "in")
  <1>0. z \in ChannelType /\ InPlace(z) BY GoodParts
  <1>1. "in" \in Pipes /\ "out" \in Pipes /\ "in" # "out" /\ Pipes = {"in", "out"} BY DEF Pipes
  <1>2. ~z.con["in"] /\ ~z.con["out"] /\ ~z.add["in"] /\ ~z.add["out"] /\ Len(z.buf["in"]) <= MaxBuffer
    BY <1>0, <1>1 DEF InPlace, Attached, Detached
  <1>3. Started(z, kind) = IF kind = "talk" THEN Say(w) ELSE v BY DEF Started
  <1>4. /\ s \in ChannelType /\ s.n = z.n + 1 /\ s.kind = kind /\ s.phase = "run" /\ s.result = "none"
        /\ s.add = z.add /\ s.con = z.con /\ s.buf = z.buf /\ s.ce = z.ce /\ s.drain = z.drain
        /\ s.q = z.q /\ s.shut = z.shut /\ s.half = z.half /\ s.asked = z.asked /\ s.said = z.said
        /\ s.left = IF kind = "store" THEN 0 ELSE Bytes
        /\ kind = "store" => s.peer = Bytes
        /\ s.rx = 0 /\ ~s.eof /\ s.wire = <<>> /\ s.got = <<>> /\ s.stored = <<>>
    BY <1>0, ConnectedTyped
  <1> HIDE DEF s
  <1>5. OnlyCalled(s)
    <2>1. \A e : ~In(e, s.q) BY <1>4 DEF In
    <2> QED BY <2>1 DEF OnlyCalled
  <1>6. z.n + 1 # 0
    <2>1. z.n \in Nat BY <1>0, BoundsAssumption DEF ChannelType
    <2> QED BY <2>1
  <1>7. ASSUME ~LateEntries
        PROVE  /\ z.asked = <<>> /\ ~z.shut /\ ~z.half /\ z.said = 0
               /\ \A p \in Pipes : z.buf[p] = <<>> /\ z.ce[p] # "nodata" /\ z.drain[p]
    <2>1. Accounted(z) BY <1>7, GoodParts
    <2>2. ~Shutting(z) BY <2>1 DEF Accounted, ShutsLate
    <2> QED BY <2>1, <2>2 DEF Accounted, Ours, Ends, Shutting
  <1>8. CASE kind # "talk"
    <2>1. /\ Alike(t, s) /\ t.q = s.q /\ t.con = s.con /\ t.ce = s.ce
          /\ t.drain["out"] = TRUE \/ t.drain["out"] = s.drain["out"]
          /\ t.drain["in"] = s.drain["in"]
      <3>1. CASE kind \in {"send", "list"} BY <3>1, <1>1, <1>4, AdderSet
      <3>2. CASE kind \notin {"send", "list"} BY <3>2, <1>4 DEF Alike
      <3> QED BY <3>1, <3>2
    <2>2. t \in ChannelType /\ OnlyCalled(t) /\ ~t.con["in"] /\ ~t.con["out"]
      BY <2>1, <1>2, <1>4, <1>5 DEF Alike, OnlyCalled
    <2> HIDE DEF t
    <2>3. /\ Alike(u, t) /\ OnlyCalled(u) /\ u.drain = t.drain
          /\ u.con["out"] = t.con["out"] /\ u.ce["out"] = t.ce["out"]
          /\ u.ce["in"] = "ok" \/ u.ce["in"] = t.ce["in"]
          /\ kind # "store" => u.con["in"] = t.con["in"]
      <3>1. CASE kind = "store" BY <3>1, <1>1, <2>2, ConsumerSet
      <3>2. CASE kind # "store" BY <3>2, <2>2 DEF Alike
      <3> QED BY <3>1, <3>2
    <2> HIDE DEF u
    <2>4. u \in ChannelType /\ ~u.con["out"] BY <2>2, <2>3 DEF Alike
    <2>5. /\ Alike(v, u) /\ OnlyCalled(v) /\ v.si /\ v.con["out"] /\ v.con["in"] = u.con["in"]
          /\ v.drain["in"] = TRUE /\ v.drain["out"] = u.drain["out"]
          /\ v.ce["out"] = "ok" /\ v.ce["in"] = u.ce["in"]
      BY <2>3, <2>4, SocketAttached
    <2> HIDE DEF v
    <2>6. Alike(v, s) BY <2>1, <2>3, <2>5, AlikeTwice
    <2>7. /\ v.n = s.n /\ v.kind = s.kind /\ v.phase = s.phase /\ v.result = s.result
          /\ v.buf = s.buf /\ v.shut = s.shut /\ v.left = s.left /\ v.asked = s.asked
          /\ v.stored = s.stored /\ v.said = s.said /\ v.rx = s.rx /\ v.peer = s.peer
          /\ v.eof = s.eof /\ v.wire = s.wire /\ v.got = s.got /\ v.half = s.half
          /\ v \in ChannelType
      BY <2>6 DEF Alike
    <2>8. LateEntries \/ \A p \in Pipes : v.buf[p] = <<>> /\ v.ce[p] # "nodata" /\ v.drain[p]
      BY <1>1, <1>4, <1>7, <2>1, <2>3, <2>5, <2>7
    <2>9. v.kind \in {"store", "talk"} \/ ~v.con["in"] BY <1>4, <2>2, <2>3, <2>5, <2>7
    <2>10. LateEntries \/ (v.asked = <<>> /\ ~v.shut /\ ~v.half /\ v.said = 0)
      BY <1>4, <1>7, <2>7
    <2>11. Begun(v) BY <1>2, <1>4, <1>6, <2>5, <2>7, <2>8, <2>9, <2>10 DEF Begun
    <2>12. Good(v) BY <2>11, BegunGood
    <2> QED BY <1>3, <1>8, <2>12
  <1>9. CASE kind = "talk"
    <2>1. ~s.con["out"] /\ ~s.con["in"] BY <1>2, <1>4
    <2>2. /\ Alike(x, s) /\ OnlyCalled(x) /\ x.si /\ x.con["out"] /\ x.con["in"] = s.con["in"]
          /\ x.ce["out"] = "ok" /\ x.ce["in"] = s.ce["in"]
      BY <1>4, <1>5, <2>1, SocketAttached
    <2> HIDE DEF x
    <2>3. x \in ChannelType BY <2>2 DEF Alike
    <2>4. Alike(y, x) /\ y.q = x.q /\ y.con = x.con /\ y.ce = x.ce /\ y.si = x.si
      BY <1>1, <2>3, AdderSet
    <2> HIDE DEF y
    <2>5. y \in ChannelType /\ OnlyCalled(y) /\ ~y.con["in"]
      BY <2>1, <2>2, <2>4 DEF Alike, OnlyCalled
    <2>6. /\ Alike(w, y) /\ OnlyCalled(w) /\ w.si = y.si /\ w.con["in"] /\ w.ce["in"] = "ok"
          /\ w.con["out"] = y.con["out"] /\ w.ce["out"] = y.ce["out"]
      BY <1>1, <2>5, ConsumerSet
    <2> HIDE DEF w
    <2>7. Alike(w, s) BY <2>2, <2>4, <2>6, AlikeTwice
    <2>8. /\ w.n = s.n /\ w.kind = s.kind /\ w.phase = s.phase /\ w.result = s.result
          /\ w.buf = s.buf /\ w.shut = s.shut /\ w.left = s.left /\ w.asked = s.asked
          /\ w.stored = s.stored /\ w.said = s.said /\ w.rx = s.rx /\ w.peer = s.peer
          /\ w.eof = s.eof /\ w.wire = s.wire /\ w.got = s.got /\ w.half = s.half
          /\ w \in ChannelType
      BY <2>7 DEF Alike
    <2>9. LateEntries \/ \A p \in Pipes : w.buf[p] = <<>> /\ w.ce[p] # "nodata"
      BY <1>1, <1>4, <1>7, <2>2, <2>4, <2>6, <2>8
    <2>10. LateEntries \/ (w.asked = <<>> /\ ~w.shut /\ ~w.half /\ w.said = 0)
      BY <1>4, <1>7, <2>8
    <2>11. w.kind = "talk" /\ w.con["out"] /\ w.si BY <1>4, <1>9, <2>2, <2>4, <2>6, <2>8
    <2>12. Begun(w) BY <1>2, <1>4, <1>6, <2>6, <2>8, <2>9, <2>10, <2>11 DEF Begun
    <2>13. Good(w) BY <2>12, BegunGood
    <2>14. Good(Say(w)) BY <1>4, <2>6, <2>8, <2>11, <2>13, SayGood DEF Open
    <2> QED BY <1>3, <1>9, <2>14
  <1> QED BY <1>8, <1>9

-----------------------------------------------------------------------------
\* The owner, the lister's entries, the socket and its peer.

LEMMA BunchSize ==
    ASSUME NEW b \in Bunch
    PROVE  Len(b) \in Nat
  BY DEF Bunch

LEMMA ConnectGood ==
    ASSUME Good(ch), NEW kind \in Kinds, Connect(kind)
    PROVE  Good(ch')
  <1> DEFINE e == <<"start", kind>>
  <1>1. ch' = Send(ch, e) BY DEF Connect
  <1>2. NoStart(ch.q)
    <2> SUFFICES ASSUME NEW k \in Kinds, In(<<"start", k>>, ch.q) PROVE FALSE BY DEF NoStart
    <2>1. PICK i \in DOMAIN ch.q : ch.q[i] = <<"start", k>> BY DEF In
    <2> QED BY <2>1 DEF Connect
  <1>3. e \in LoopEvents /\ e \notin Calls BY DEF LoopEvents, Calls
  <1>4. ch.phase = "idle" /\ ch.kind # "talk" /\ ch.n # MaxTransfers
    <2>1. ch.n < MaxTransfers /\ MaxTransfers \in Nat /\ ch.n \in 0..MaxTransfers
      BY BoundsAssumption, GoodParts DEF Connect, ChannelType
    <2> QED BY <2>1 DEF Connect
  <1>5. Fits(ch, e) BY <1>2, <1>3, <1>4 DEF Fits
  <1> QED BY <1>1, <1>5, EventSent

LEMMA AbandonGood ==
    ASSUME Good(ch), Abandon
    PROVE  Good(ch')
  <1>0. ch \in ChannelType /\ (~LateEntries => Accounted(ch)) BY GoodParts
  <1>1. [ch EXCEPT !.result = ch.result] = ch BY <1>0 DEF ChannelType
  <1>2. ch' = Stopped(ch, ch.result) BY <1>1 DEF Abandon, Stopped
  <1>3. ch.result \in {"none"} \cup PipeCodes BY <1>0 DEF ChannelType
  <1>4. LateEntries \/ ch.result # "ok" \/ Settled(ch) BY <1>0 DEF Accounted, Verdict
  <1> QED BY <1>2, <1>3, <1>4, StoppedGood DEF Abandon

LEMMA EveryEventGood ==
    ASSUME NEW s, Good(s), s.q # <<>>
    PROVE  Good(Handle([s EXCEPT !.q = Tail(@)], Head(s.q)))
  <1> DEFINE e == Head(s.q)
             t == [s EXCEPT !.q = Tail(@)]
  <1>1. CASE e[1] # "start" BY <1>1, HandleGood
  <1>2. CASE e[1] = "start"
    <2>1. /\ Next1(t, s) /\ (e # <<"add", "out", "inval">> => Good(t))
          /\ e \in LoopEvents /\ In(e, s.q) /\ Tail(s.q) = <<>>
      BY <1>2, EventTaken
    <2> SUFFICES Good(Handle(t, e)) OBVIOUS
    <2> HIDE DEF t, e
    <2>2. PICK k \in Kinds : e = <<"start", k>> BY <1>2, <2>1 DEF LoopEvents
    <2>3. Good(t) BY <2>1, <2>2
    <2>4. s.phase = "idle" /\ s.kind # "talk" /\ s.n # MaxTransfers
      BY <2>1, <2>2, GoodParts DEF InPlace, Targets
    <2>5. t.phase = "idle" /\ t.q = <<>> /\ t.kind # "talk" /\ t.n # MaxTransfers
      BY <2>1, <2>4 DEF Next1
    <2>6. Handle(t, e) = Started(t, k) BY <2>2 DEF Handle
    <2> QED BY <2>3, <2>5, <2>6, StartedGood
  <1> QED BY <1>1, <1>2

LEMMA EventHandledGood ==
    ASSUME Good(ch), HandleEvent
    PROVE  Good(ch')
  BY EveryEventGood DEF HandleEvent

LEMMA EntryGood ==
    ASSUME Good(ch), Entry
    PROVE  Good(ch')
  <1> DEFINE b == Append(ch.buf["out"], Head(ch.asked))
             a == Tail(ch.asked)
             t == [ch EXCEPT !.asked = a, !.buf["out"] = b]
  <1>0. ch \in ChannelType /\ InPlace(ch) BY GoodParts
  <1>1. "out" \in Pipes /\ "in" \in Pipes BY DEF Pipes
  <1>2. ch.asked \in Bunch /\ ch.asked # <<>> /\ ch.buf["out"] \in Bunch
    BY <1>0, <1>1 DEF Entry, ChannelType
  <1>3. /\ a \in Bunch /\ Len(a) = Len(ch.asked) - 1 /\ b \in Bunch
        /\ Len(b) = Len(ch.buf["out"]) + 1 /\ Len(ch.asked) \in Nat /\ Len(ch.buf["out"]) \in Nat
    <2>1. Head(ch.asked) \in 1..MaxTransfers /\ a \in Bunch /\ Len(a) = Len(ch.asked) - 1
      BY <1>2, Shorter DEF Bunch
    <2>2. b \in Bunch /\ Len(b) = Len(ch.buf["out"]) + 1 BY <1>2, <2>1, Longer DEF Bunch
    <2> QED BY <1>2, <2>1, <2>2, BunchSize
  <1>4. /\ ch.asked \in Seq({ch.n}) => a \in Seq({ch.n})
        /\ ch.asked \in Seq({ch.n}) /\ ch.buf["out"] \in Seq({ch.n}) => b \in Seq({ch.n})
    BY <1>2, Shorter, Longer
  <1>5. ch' = SendAdder(t, "out", "ok") BY DEF Entry
  <1> HIDE DEF a, b
  <1>6. t \in ChannelType BY <1>0, <1>3, ZenonT(60) DEF ChannelType
  <1>7. /\ t.n = ch.n /\ t.kind = ch.kind /\ t.phase = ch.phase /\ t.result = ch.result
        /\ t.add = ch.add /\ t.con = ch.con /\ t.wa = ch.wa
        /\ t.ce = ch.ce /\ t.drain = ch.drain /\ t.si = ch.si /\ t.q = ch.q /\ t.shut = ch.shut
        /\ t.left = ch.left /\ t.stored = ch.stored /\ t.said = ch.said
        /\ t.rx = ch.rx /\ t.peer = ch.peer /\ t.eof = ch.eof /\ t.wire = ch.wire /\ t.got = ch.got
        /\ t.armR = ch.armR /\ t.armW = ch.armW /\ t.half = ch.half
        /\ t.asked = a /\ t.buf["out"] = b /\ t.buf["in"] = ch.buf["in"]
    BY <1>0 DEF ChannelType, Pipes
  <1> HIDE DEF t
  <1>8. InPlace(t) BY <1>0, <1>6, <1>7 DEF InPlace, Targets, Attached, Detached
  <1>9. ASSUME ~LateEntries
        PROVE  /\ Accounted(t) /\ Listed(t)
               /\ t.add["out"] => t.asked = <<>> /\ t.wa["out"] /\ \A d \in Calls : ~In(d, t.q)
    <2>0. Accounted(ch) /\ Listed(ch) /\ Asking(ch) BY <1>9, GoodParts DEF Accounted
    <2>1. Len(ch.asked) = 1 /\ ch.kind = "list" /\ ch.phase # "idle"
      BY <2>0, <1>2 DEF Asking, Accounted, Ours
    <2>2. a = <<>> BY <2>1, <1>3 DEF Bunch
    <2>3. Ours(t) BY <2>0, <2>1, <1>4, <1>7 DEF Accounted, Ours, Pipes
    <2>4. ch.add["out"] => ch.wa["out"] /\ \A d \in Calls : ~In(d, ch.q)
      BY <2>0, <2>1, <1>2 DEF Asking
    <2>5. Asking(t) BY <2>0, <2>2, <2>4, <1>7 DEF Asking
    <2>6. ShutsLate(t)
      <3>1. ~Shutting(ch) BY <2>0, <2>1 DEF Accounted, ShutsLate
      <3>2. ~Shutting(t) BY <3>1, <1>7 DEF Shutting
      <3> QED BY <3>2 DEF ShutsLate, Shutting
    <2>7. Ends(t) BY <2>0, <1>7 DEF Accounted, Ends
    <2>8. Flows(t) BY <2>1, <1>7 DEF Flows
    <2>9. Listed(t)
      <3> DEFINE w == Written0(ch)
                 c == Len(ch.buf["out"])
                 d == Len(ch.asked)
      <3>1. w \in Nat /\ ch.left \in Int /\ Bytes \in Nat BY <2>1, OutBuffers
      <3>2. Gone(t) = w + Len(b) /\ Gone(ch) = w + c BY <1>7 DEF Gone, Written0
      <3>3. c \in Nat /\ d \in Nat /\ Len(b) = c + 1 /\ Len(a) = d - 1 BY <1>3
      <3> HIDE DEF w, c
      <3>4. (Gone(ch) + ch.left) + d = (Gone(t) + ch.left) + Len(a) BY <3>1, <3>2, <3>3, SMTT(60)
      <3> QED BY <2>0, <3>4, <1>7 DEF Listed
    <2>10. Verdict(t) BY <2>0, <1>7 DEF Accounted, Verdict, Settled, Written0
    <2> QED BY <2>2, <2>3, <2>4, <2>5, <2>6, <2>7, <2>8, <2>9, <2>10, <1>7 DEF Accounted
  <1>10. Good(t) BY <1>8, <1>9 DEF Good
  <1>11. CASE ~t.add["out"] BY <1>5, <1>10, <1>11 DEF SendAdder
  <1>12. CASE t.add["out"]
    <2>1. t.phase # "idle" BY <1>1, <1>8, <1>12 DEF InPlace, Attached, Detached
    <2>2. "ok" \in {"ok", "fail", "inval"} OBVIOUS
    <2> QED BY <1>1, <1>5, <1>9, <1>10, <1>12, <2>1, <2>2, SendAdderGood
  <1> QED BY <1>11, <1>12

LEMMA EntryFailsGood ==
    ASSUME Good(ch), EntryFails
    PROVE  Good(ch')
  <1> DEFINE a == Tail(ch.asked)
             t == [ch EXCEPT !.asked = a]
             e == <<"add", "out", "inval">>
  <1>0. ch \in ChannelType /\ InPlace(ch) BY GoodParts
  <1>1. "out" \in Pipes /\ "in" \in Pipes BY DEF Pipes
  <1>2. ch.asked \in Bunch /\ ch.asked # <<>> BY <1>0 DEF EntryFails, ChannelType
  <1>3. a \in Bunch /\ Len(a) = Len(ch.asked) - 1 /\ Len(ch.asked) \in Nat
    <2>1. a \in Bunch /\ Len(a) = Len(ch.asked) - 1 BY <1>2, Shorter DEF Bunch
    <2> QED BY <1>2, <2>1, BunchSize
  <1>4. ch.asked \in Seq({ch.n}) => a \in Seq({ch.n}) BY <1>2, Shorter
  <1>5. ch' = SendAdder(t, "out", "inval") BY DEF EntryFails
  <1> HIDE DEF a
  <1>6. t \in ChannelType BY <1>0, <1>3, ZenonT(60) DEF ChannelType
  <1>7. /\ t.n = ch.n /\ t.kind = ch.kind /\ t.phase = ch.phase /\ t.result = ch.result
        /\ t.add = ch.add /\ t.con = ch.con /\ t.wa = ch.wa /\ t.buf = ch.buf
        /\ t.ce = ch.ce /\ t.drain = ch.drain /\ t.si = ch.si /\ t.q = ch.q /\ t.shut = ch.shut
        /\ t.left = ch.left /\ t.stored = ch.stored /\ t.said = ch.said
        /\ t.rx = ch.rx /\ t.peer = ch.peer /\ t.eof = ch.eof /\ t.wire = ch.wire /\ t.got = ch.got
        /\ t.armR = ch.armR /\ t.armW = ch.armW /\ t.half = ch.half /\ t.asked = a
    BY <1>0 DEF ChannelType
  <1> HIDE DEF t
  <1>8. InPlace(t) BY <1>0, <1>6, <1>7 DEF InPlace, Targets, Attached, Detached
  <1>9. ASSUME ~LateEntries
        PROVE  /\ Accounted(t)
               /\ t.add["out"] => t.asked = <<>> /\ t.wa["out"] /\ \A d \in Calls : ~In(d, t.q)
    <2>0. Accounted(ch) /\ Asking(ch) BY <1>9, GoodParts DEF Accounted
    <2>1. Len(ch.asked) = 1 /\ ch.kind = "list" /\ ch.phase # "idle"
      BY <2>0, <1>2 DEF Asking, Accounted, Ours
    <2>2. a = <<>> BY <2>1, <1>3 DEF Bunch
    <2>3. Ours(t) BY <2>0, <2>1, <1>4, <1>7 DEF Accounted, Ours
    <2>4. ch.add["out"] => ch.wa["out"] /\ \A d \in Calls : ~In(d, ch.q)
      BY <2>0, <2>1, <1>2 DEF Asking
    <2>5. Asking(t) BY <2>0, <2>2, <2>4, <1>7 DEF Asking
    <2>6. ShutsLate(t) BY <2>0, <1>7 DEF Accounted, ShutsLate, Shutting
    <2>7. Ends(t) BY <2>0, <1>7 DEF Accounted, Ends
    <2>8. Flows(t) BY <2>1, <1>7 DEF Flows
    <2>10. Verdict(t) BY <2>0, <1>7 DEF Accounted, Verdict, Settled, Written0
    <2> QED BY <2>2, <2>3, <2>4, <2>5, <2>6, <2>7, <2>8, <2>10, <1>7 DEF Accounted
  <1>10. Nearly(t) BY <1>8, <1>9 DEF Nearly
  <1>11. CASE ~t.add["out"]
    <2>1. Listed(t) BY <1>11 DEF Listed
    <2>2. Good(t) BY <1>10, <2>1 DEF Good, Nearly
    <2> QED BY <1>5, <1>11, <2>2 DEF SendAdder
  <1>12. CASE t.add["out"]
    <2>1. t.phase # "idle" BY <1>1, <1>8, <1>12 DEF InPlace, Attached, Detached
    <2>2. e \in LoopEvents BY <1>1 DEF LoopEvents
    <2>3. NoStart(t.q) BY <1>8, <2>1 DEF InPlace, Targets, NoStart
    <2>4. Fits(t, e) BY <1>9, <1>12, <2>2, <2>3 DEF Fits
    <2>5. ch' = Send(t, e) BY <1>5, <1>12 DEF SendAdder
    <2> QED BY <1>10, <2>4, <2>5, EventSentNearly
  <1> QED BY <1>11, <1>12

LEMMA ReadReadyGood ==
    ASSUME Good(ch), ReadReady
    PROVE  Good(ch')
  <1> DEFINE t == [ch EXCEPT !.armR = FALSE]
             c == IF ch.broken THEN "fail" ELSE "ok"
             e == <<"read", c>>
  <1>0. ch \in ChannelType /\ InPlace(ch) BY GoodParts
  <1>1. ch' = Send(t, e) /\ ch.armR /\ ch.phase = "run" BY DEF ReadReady
  <1>2. t \in ChannelType BY <1>0, ZenonT(60) DEF ChannelType
  <1>3. Same(t, ch) BY <1>0, <1>2, ZenonT(60) DEF Same, ChannelType
  <1>4. c \in {"ok", "fail"} OBVIOUS
  <1> HIDE DEF c, t
  <1>5. Good(t) /\ t.phase = "run" /\ t.si
    BY <1>0, <1>1, <1>3, SameGood DEF Same, InPlace, Attached
  <1>6. e \in LoopEvents /\ e \notin Calls BY <1>4 DEF LoopEvents, Calls
  <1>7. Fits(t, e) BY <1>5, <1>6, GoodParts DEF Fits
  <1> QED BY <1>1, <1>5, <1>7, EventSent

LEMMA WriteReadyGood ==
    ASSUME Good(ch), WriteReady
    PROVE  Good(ch')
  <1> DEFINE t == [ch EXCEPT !.armW = FALSE]
             c == IF ch.broken THEN "fail" ELSE "ok"
             d == <<"write", c>>
             s == <<"sock">>
  <1>0. ch \in ChannelType /\ InPlace(ch) BY GoodParts
  <1>1. ch' = (IF ch.phase = "closing" THEN Send(t, s) ELSE Send(t, d)) /\ ch.armW
    BY DEF WriteReady
  <1>2. t \in ChannelType BY <1>0, ZenonT(60) DEF ChannelType
  <1>3. Same(t, ch) BY <1>0, <1>2, ZenonT(60) DEF Same, ChannelType
  <1>4. c \in {"ok", "fail"} OBVIOUS
  <1> HIDE DEF c, t
  <1>5. Good(t) /\ t.phase = ch.phase /\ t.si = ch.si BY <1>3, SameGood DEF Same
  <1>6. ch.si \/ ch.phase = "closing" BY <1>0, <1>1 DEF InPlace, Attached
  <1>7. t.phase # "idle" BY <1>0, <1>5, <1>6 DEF InPlace, Attached
  <1>8. NoStart(t.q) BY <1>5, <1>7, GoodParts
  <1>9. CASE ch.phase = "closing"
    <2>1. s \in LoopEvents /\ s \notin Calls BY DEF LoopEvents, Calls
    <2>2. Fits(t, s) BY <1>5, <1>8, <1>9, <2>1 DEF Fits
    <2> QED BY <1>1, <1>5, <1>9, <2>2, EventSent
  <1>10. CASE ch.phase # "closing"
    <2>1. d \in LoopEvents /\ d \notin Calls BY <1>4 DEF LoopEvents, Calls
    <2>2. Fits(t, d) BY <1>5, <1>6, <1>8, <1>10, <2>1 DEF Fits
    <2> QED BY <1>1, <1>5, <1>10, <2>2, EventSent
  <1> QED BY <1>9, <1>10

\* The peer's steps that touch the bytes that come in.
LEMMA PeerGood ==
    ASSUME NEW s, NEW t, Good(s), t \in ChannelType,
           t.n = s.n, t.kind = s.kind, t.phase = s.phase, t.result = s.result,
           t.add = s.add, t.con = s.con, t.buf = s.buf, t.wa = s.wa,
           t.ce = s.ce, t.drain = s.drain, t.si = s.si, t.q = s.q, t.shut = s.shut,
           t.left = s.left, t.asked = s.asked, t.stored = s.stored, t.said = s.said,
           t.wire = s.wire, t.got = s.got,
           t.armR = s.armR, t.armW = s.armW, t.half = s.half,
           t.rx + t.peer = s.rx + s.peer, t.eof => t.peer = 0 \/ s.eof,
           s.eof /\ s.peer = 0 => t.peer = 0
    PROVE  Good(t)
  <1>0. InPlace(s) /\ s \in ChannelType BY GoodParts
  <1>1. InPlace(t) BY <1>0 DEF InPlace, Targets, Attached, Detached
  <1>2. ASSUME ~LateEntries PROVE Accounted(t) /\ Listed(t)
    <2>0. Accounted(s) /\ Listed(s) BY <1>2, GoodParts
    <2>1. Ours(t) BY <2>0 DEF Accounted, Ours
    <2>2. Asking(t) BY <2>0 DEF Accounted, Asking
    <2>3. ShutsLate(t) BY <2>0 DEF Accounted, ShutsLate, Shutting
    <2>4. Ends(t) BY <2>0 DEF Accounted, Ends
    <2>5. Flows(t)
      <3> DEFINE x == Len(s.stored) + Len(s.buf["in"])
      <3>1. Gone(t) = Gone(s) BY DEF Gone, Written0
      <3>2. x \in Nat
        <4>1. s.stored \in Bunch /\ s.buf["in"] \in Bunch BY <1>0 DEF ChannelType, Pipes
        <4> DEFINE a == Len(s.stored)
                   b == Len(s.buf["in"])
        <4>2. a \in Nat /\ b \in Nat BY <4>1, BunchSize
        <4> HIDE DEF a, b
        <4>3. a + b \in Nat BY <4>2
        <4> QED BY <4>3 DEF a, b
      <3>3. Len(t.stored) + Len(t.buf["in"]) = x OBVIOUS
      <3>4. s.rx \in Nat /\ s.peer \in Nat /\ t.rx \in Nat /\ t.peer \in Nat
        BY <1>0 DEF ChannelType
      <3> HIDE DEF x
      <3>5. (x + t.rx) + t.peer = (x + s.rx) + s.peer BY <3>2, <3>4
      <3>6. s.kind = "store" /\ s.add["in"] /\ s.con["in"] =>
              (x + s.rx) + s.peer = Bytes /\ (s.eof => s.peer = 0)
        BY <2>0 DEF Accounted, Flows, x
      <3> QED BY <2>0, <3>1, <3>3, <3>5, <3>6 DEF Accounted, Flows
    <2>6. Listed(t) BY <2>0 DEF Listed, Gone, Written0
    <2>7. Verdict(t) BY <2>0 DEF Accounted, Verdict, Settled, Written0
    <2> QED BY <2>1, <2>2, <2>3, <2>4, <2>5, <2>6, <2>7 DEF Accounted
  <1> QED BY <1>1, <1>2 DEF Good

LEMMA PeerSendsGood ==
    ASSUME Good(ch), PeerSends
    PROVE  Good(ch')
  <1>1. PICK k \in 1..ch.peer : ch' = [ch EXCEPT !.peer = @ - k, !.rx = @ + k] BY DEF PeerSends
  <1> DEFINE a == ch.peer - k
             b == ch.rx + k
             t == [ch EXCEPT !.peer = a, !.rx = b]
  <1>0. ch \in ChannelType BY GoodParts
  <1>2. ch.peer \in Nat /\ ch.rx \in Nat /\ ch.peer > 0 BY <1>0 DEF ChannelType, PeerSends
  <1>3. a \in Nat /\ b \in Nat /\ b + a = ch.rx + ch.peer BY <1>1, <1>2
  <1>4. ch' = t BY <1>1
  <1> HIDE DEF a, b
  <1>5. t \in ChannelType BY <1>0, <1>3, ZenonT(60) DEF ChannelType
  <1>6. /\ t.n = ch.n /\ t.kind = ch.kind /\ t.phase = ch.phase /\ t.result = ch.result
        /\ t.add = ch.add /\ t.con = ch.con /\ t.buf = ch.buf /\ t.wa = ch.wa
        /\ t.ce = ch.ce /\ t.drain = ch.drain /\ t.si = ch.si /\ t.q = ch.q /\ t.shut = ch.shut
        /\ t.left = ch.left /\ t.asked = ch.asked /\ t.stored = ch.stored /\ t.said = ch.said
        /\ t.eof = ch.eof /\ t.wire = ch.wire /\ t.got = ch.got
        /\ t.armR = ch.armR /\ t.armW = ch.armW /\ t.half = ch.half
        /\ t.peer = a /\ t.rx = b
    BY <1>0 DEF ChannelType
  <1> HIDE DEF t
  <1>7. Good(t)
    <2>1. t.rx + t.peer = ch.rx + ch.peer BY <1>3, <1>6
    <2>2. (t.eof => t.peer = 0 \/ ch.eof) /\ (ch.eof /\ ch.peer = 0 => t.peer = 0) BY <1>2, <1>6
    <2> QED BY <1>5, <1>6, <2>1, <2>2, PeerGood
  <1> QED BY <1>4, <1>7

LEMMA PeerEndsGood ==
    ASSUME Good(ch), PeerEnds
    PROVE  Good(ch')
  <1> DEFINE t == [ch EXCEPT !.eof = TRUE]
  <1>0. ch \in ChannelType BY GoodParts
  <1>1. ch' = t /\ ch.peer = 0 BY DEF PeerEnds
  <1>2. t \in ChannelType BY <1>0, ZenonT(60) DEF ChannelType
  <1>3. /\ t.n = ch.n /\ t.kind = ch.kind /\ t.phase = ch.phase /\ t.result = ch.result
        /\ t.add = ch.add /\ t.con = ch.con /\ t.buf = ch.buf /\ t.wa = ch.wa
        /\ t.ce = ch.ce /\ t.drain = ch.drain /\ t.si = ch.si /\ t.q = ch.q /\ t.shut = ch.shut
        /\ t.left = ch.left /\ t.asked = ch.asked /\ t.stored = ch.stored /\ t.said = ch.said
        /\ t.wire = ch.wire /\ t.got = ch.got
        /\ t.armR = ch.armR /\ t.armW = ch.armW /\ t.half = ch.half
        /\ t.peer = ch.peer /\ t.rx = ch.rx
    BY <1>0 DEF ChannelType
  <1> HIDE DEF t
  <1>4. Good(t)
    <2>1. t.rx + t.peer = ch.rx + ch.peer BY <1>3
    <2>2. t.peer = 0 BY <1>1, <1>3
    <2> QED BY <1>2, <1>3, <2>1, <2>2, PeerGood
  <1> QED BY <1>1, <1>4

LEMMA PeerReceivesGood ==
    ASSUME Good(ch), PeerReceives
    PROVE  Good(ch')
  <1> DEFINE g == Append(ch.got, Head(ch.wire))
             w == Tail(ch.wire)
             t == [ch EXCEPT !.got = g, !.wire = w]
  <1>0. ch \in ChannelType /\ InPlace(ch) BY GoodParts
  <1>1. ch' = t /\ ch.wire # <<>> BY DEF PeerReceives
  <1>2. ch.wire \in Bunch /\ ch.got \in Bunch BY <1>0 DEF ChannelType
  <1>3. /\ g \in Bunch /\ Len(g) = Len(ch.got) + 1 /\ w \in Bunch
        /\ Len(w) = Len(ch.wire) - 1 /\ Len(ch.got) \in Nat /\ Len(ch.wire) \in Nat
    <2>1. Head(ch.wire) \in 1..MaxTransfers /\ w \in Bunch /\ Len(w) = Len(ch.wire) - 1
      BY <1>1, <1>2, Shorter DEF Bunch
    <2>2. g \in Bunch /\ Len(g) = Len(ch.got) + 1 BY <1>2, <2>1, Longer DEF Bunch
    <2> QED BY <1>2, <2>1, <2>2, BunchSize
  <1>4. /\ ch.wire \in Seq({ch.n}) => w \in Seq({ch.n})
        /\ ch.wire \in Seq({ch.n}) /\ ch.got \in Seq({ch.n}) => g \in Seq({ch.n})
    BY <1>1, Shorter, Longer
  <1> HIDE DEF g, w
  <1>5. t \in ChannelType BY <1>0, <1>3, ZenonT(60) DEF ChannelType
  <1>6. /\ t.n = ch.n /\ t.kind = ch.kind /\ t.phase = ch.phase /\ t.result = ch.result
        /\ t.add = ch.add /\ t.con = ch.con /\ t.buf = ch.buf /\ t.wa = ch.wa
        /\ t.ce = ch.ce /\ t.drain = ch.drain /\ t.si = ch.si /\ t.q = ch.q /\ t.shut = ch.shut
        /\ t.left = ch.left /\ t.asked = ch.asked /\ t.stored = ch.stored /\ t.said = ch.said
        /\ t.rx = ch.rx /\ t.peer = ch.peer /\ t.eof = ch.eof
        /\ t.armR = ch.armR /\ t.armW = ch.armW /\ t.half = ch.half
        /\ t.got = g /\ t.wire = w
    BY <1>0 DEF ChannelType
  <1> HIDE DEF t
  <1>7. Len(t.wire) <= SendRoom
    <2> DEFINE x == Len(ch.wire)
    <2>1. x <= SendRoom /\ SendRoom \in Nat BY <1>0, BoundsAssumption DEF InPlace
    <2>2. Len(w) = x - 1 /\ x \in Nat BY <1>3
    <2> HIDE DEF x
    <2> QED BY <2>1, <2>2, <1>6
  <1>8. InPlace(t) BY <1>0, <1>5, <1>6, <1>7 DEF InPlace, Targets, Attached, Detached
  <1>9. Written0(t) = Written0(ch)
    <2> DEFINE x == Len(ch.wire)
               y == Len(ch.got)
    <2>1. Len(w) = x - 1 /\ x \in Nat /\ Len(g) = y + 1 /\ y \in Nat BY <1>3
    <2>2. Written0(t) = Len(g) + Len(w) /\ Written0(ch) = y + x BY <1>6 DEF Written0
    <2> HIDE DEF x, y
    <2> QED BY <2>1, <2>2
  <1>10. ASSUME ~LateEntries PROVE Accounted(t) /\ Listed(t)
    <2>0. Accounted(ch) /\ Listed(ch) BY <1>10, GoodParts
    <2>1. Ours(t) BY <2>0, <1>4, <1>6 DEF Accounted, Ours
    <2>2. Asking(t) BY <2>0, <1>6 DEF Accounted, Asking
    <2>3. ShutsLate(t) BY <2>0, <1>6 DEF Accounted, ShutsLate, Shutting
    <2>4. Ends(t) BY <2>0, <1>6 DEF Accounted, Ends
    <2>5. Flows(t) /\ Listed(t)
      <3>1. Gone(t) = Gone(ch) BY <1>6, <1>9 DEF Gone
      <3> QED BY <2>0, <3>1, <1>6 DEF Accounted, Flows, Listed
    <2>6. Verdict(t) BY <2>0, <1>6, <1>9 DEF Accounted, Verdict, Settled
    <2> QED BY <2>1, <2>2, <2>3, <2>4, <2>5, <2>6 DEF Accounted
  <1> QED BY <1>1, <1>8, <1>10 DEF Good

LEMMA FaultsGood ==
    ASSUME Good(ch), Break \/ Spoil
    PROVE  Good(ch')
  <1>0. ch \in ChannelType BY GoodParts
  <1>1. CASE Break
    <2> DEFINE t == [ch EXCEPT !.broken = TRUE]
    <2>1. t \in ChannelType BY <1>0, ZenonT(60) DEF ChannelType
    <2>2. Same(t, ch) BY <1>0, <2>1, ZenonT(60) DEF Same, ChannelType
    <2> HIDE DEF t
    <2>3. Good(t) BY <2>2, SameGood
    <2> QED BY <1>1, <2>3 DEF Break, t
  <1>2. CASE Spoil
    <2> DEFINE t == [ch EXCEPT !.spoilt = TRUE]
    <2>1. t \in ChannelType BY <1>0, ZenonT(60) DEF ChannelType
    <2>2. Same(t, ch) BY <1>0, <2>1, ZenonT(60) DEF Same, ChannelType
    <2> HIDE DEF t
    <2>3. Good(t) BY <2>2, SameGood
    <2> QED BY <1>2, <2>3 DEF Spoil, t
  <1> QED BY <1>1, <1>2

-----------------------------------------------------------------------------
\* The invariant of the channel, and the properties that follow from it.

LEMMA ChannelBegins ==
    ASSUME Init
    PROVE  ChannelInv
  <1> DEFINE e == <<>>
             b == [p \in Pipes |-> e]
  <1>1. ch = Fresh BY DEF Init
  <1>2. e \in Bunch /\ e \in Seq(LoopEvents) /\ e = <<>> BY DEF Bunch
  <1>3. /\ MaxTransfers \in Nat /\ MaxBuffer \in Nat /\ SendRoom \in Nat /\ 0 \in 0..MaxTransfers
    BY BoundsAssumption
  <1>4. b \in [Pipes -> Bunch] BY <1>2
  <1>5. /\ ch.n = 0 /\ ch.kind = "none" /\ ch.phase = "idle" /\ ch.result = "none"
        /\ ch.add = [p \in Pipes |-> FALSE] /\ ch.con = [p \in Pipes |-> FALSE] /\ ch.buf = b
        /\ ch.ce = [p \in Pipes |-> "ok"] /\ ch.drain = [p \in Pipes |-> TRUE]
        /\ ~ch.si /\ ~ch.shut /\ ch.q = <<>> /\ ch.asked = <<>> /\ ch.stored = <<>> /\ ch.said = 0
        /\ ch.wire = <<>> /\ ch.got = <<>> /\ ~ch.armR /\ ~ch.armW /\ ~ch.half
    BY <1>1 DEF Fresh, Both
  <1>6. ch \in ChannelType
    <2>1. Fresh = [n |-> 0, kind |-> "none", phase |-> "idle", result |-> "none",
                   add |-> [p \in Pipes |-> FALSE], con |-> [p \in Pipes |-> FALSE], buf |-> b,
                   wa |-> [p \in Pipes |-> FALSE], wc |-> [p \in Pipes |-> FALSE],
                   ae |-> [p \in Pipes |-> "ok"], ce |-> [p \in Pipes |-> "ok"],
                   drain |-> [p \in Pipes |-> TRUE],
                   si |-> FALSE, wr |-> FALSE, ww |-> FALSE, low |-> FALSE, shut |-> FALSE,
                   q |-> e, left |-> 0, asked |-> e, sent |-> FALSE, stored |-> e, said |-> 0,
                   spoilt |-> FALSE, peer |-> 0, rx |-> 0, eof |-> FALSE, wire |-> e, got |-> e,
                   broken |-> FALSE, armR |-> FALSE, armW |-> FALSE, half |-> FALSE]
      BY DEF Fresh, Both
    <2>2. "ok" \in PipeCodes BY DEF PipeCodes
    <2> HIDE DEF e, b
    <2>3. e \in Bunch /\ e \in Seq(LoopEvents) BY <1>2
    <2> QED BY <1>1, <1>3, <1>4, <2>1, <2>2, <2>3 DEF ChannelType
  <1>7. \A p \in Pipes : ~ch.add[p] /\ ~ch.con[p] /\ ch.buf[p] = <<>> /\ ch.ce[p] = "ok" /\ ch.drain[p]
    BY <1>5
  <1>8. \A d : ~In(d, ch.q) BY <1>5 DEF In
  <1>9. "in" \in Pipes /\ "out" \in Pipes BY DEF Pipes
  <1> HIDE DEF e, b
  <1>10. InPlace(ch)
    <2>1. Targets(ch) BY <1>8 DEF Targets
    <2>2. Attached(ch) BY <1>5, <1>7 DEF Attached, Detached
    <2>3. OnceIn(Dones, ch.q) /\ StartLast(ch.q) BY <1>5 DEF OnceIn, StartLast
    <2>4. Len(ch.buf["in"]) <= MaxBuffer /\ Len(ch.wire) <= SendRoom
      <3>1. ch.buf["in"] = <<>> /\ ch.wire = <<>> BY <1>5, <1>7, <1>9
      <3>2. 0 <= MaxBuffer /\ 0 <= SendRoom BY <1>3
      <3> QED BY <3>1, <3>2
    <2> QED BY <1>6, <2>1, <2>2, <2>3, <2>4 DEF InPlace
  <1>11. Accounted(ch) /\ Listed(ch)
    <2>1. Ours(ch)
      <3>1. <<>> \in Seq({ch.n}) OBVIOUS
      <3> QED BY <3>1, <1>5, <1>7 DEF Ours
    <2>2. Asking(ch) BY <1>5 DEF Asking
    <2>3. ShutsLate(ch)
      <3>1. ~Shutting(ch) BY <1>5, <1>8 DEF Shutting
      <3> QED BY <3>1, <1>8 DEF ShutsLate
    <2>4. Ends(ch) BY <1>5, <1>7, <1>9 DEF Ends
    <2>5. Flows(ch) /\ Listed(ch) BY <1>5 DEF Flows, Listed
    <2>6. Verdict(ch) BY <1>5, <1>8 DEF Verdict
    <2> QED BY <2>1, <2>2, <2>3, <2>4, <2>5, <2>6 DEF Accounted
  <1> QED BY <1>10, <1>11 DEF ChannelInv, Good

LEMMA ChannelStays ==
    ASSUME ChannelInv, [Next]_ch
    PROVE  ChannelInv'
  <1>0. Good(ch) BY DEF ChannelInv
  <1> SUFFICES Good(ch') BY DEF ChannelInv
  <1>1. CASE UNCHANGED ch BY <1>0, <1>1
  <1>2. ASSUME NEW kind \in Kinds, Connect(kind) PROVE Good(ch') BY <1>0, <1>2, ConnectGood
  <1>3. CASE Abandon BY <1>0, <1>3, AbandonGood
  <1>4. CASE HandleEvent BY <1>0, <1>4, EventHandledGood
  <1>5. CASE Entry BY <1>0, <1>5, EntryGood
  <1>6. CASE EntryFails BY <1>0, <1>6, EntryFailsGood
  <1>7. CASE ReadReady BY <1>0, <1>7, ReadReadyGood
  <1>8. CASE WriteReady BY <1>0, <1>8, WriteReadyGood
  <1>9. CASE PeerSends BY <1>0, <1>9, PeerSendsGood
  <1>10. CASE PeerEnds BY <1>0, <1>10, PeerEndsGood
  <1>11. CASE PeerReceives BY <1>0, <1>11, PeerReceivesGood
  <1>12. CASE Break \/ Spoil BY <1>0, <1>12, FaultsGood
  <1> QED BY <1>1, <1>2, <1>3, <1>4, <1>5, <1>6, <1>7, <1>8, <1>9, <1>10, <1>11, <1>12 DEF Next, Network

LEMMA ChannelHolds == Spec => []ChannelInv
  <1>1. Init => ChannelInv BY ChannelBegins
  <1>2. ChannelInv /\ [Next]_ch => ChannelInv' BY ChannelStays
  <1> QED BY <1>1, <1>2, PTL DEF Spec

LEMMA ChannelTyped ==
    ASSUME ChannelInv
    PROVE  TypeOK
  <1>0. ch \in ChannelType /\ InPlace(ch) /\ (~LateEntries => Accounted(ch))
    BY GoodParts DEF ChannelInv
  <1>1. ch.q \in Seq(LoopEvents) BY <1>0 DEF ChannelType
  <1>2. \A i \in DOMAIN ch.q : ch.q[i] \in LoopEvents /\ In(ch.q[i], ch.q)
    BY <1>1 DEF In
  <1>3. LoopEvents \subseteq Events
    <2>1. PipeCodes \subseteq Codes BY DEF PipeCodes, Codes
    <2>2. {"ok", "fail", "inval", "bye"} \subseteq Codes BY DEF Codes
    <2>3. "out" \in Pipes BY DEF Pipes
    <2>4. {"add"} \X Pipes \X {"ok", "fail", "inval"} \subseteq Events BY <2>2 DEF Events
    <2>5. {"con"} \X Pipes \X {"ok", "fail"} \subseteq Events BY <2>2 DEF Events
    <2>6. <<"con", "out", "bye">> \in Events BY <2>2, <2>3 DEF Events
    <2>7. {"pipe"} \X Pipes \X PipeCodes \subseteq Events BY <2>1 DEF Events
    <2>8. {"read", "write"} \X {"ok", "fail"} \subseteq Events BY <2>2 DEF Events
    <2>9. {"done"} \X PipeCodes \subseteq Events BY <2>1 DEF Events
    <2>10. ({"start"} \X Kinds) \cup {<<"shut">>, <<"sock">>} \subseteq Events BY DEF Events
    <2> QED BY <2>4, <2>5, <2>6, <2>7, <2>8, <2>9, <2>10 DEF LoopEvents
  <1>4. DOMAIN ch = DOMAIN Fresh BY <1>0 DEF ChannelType, Fresh
  <1>5. /\ ch.n \in 0..MaxTransfers
        /\ ch.kind \in Kinds \cup {"none"}
        /\ ch.phase \in {"idle", "run", "closing"}
        /\ ch.result \in {"none"} \cup Codes
        /\ {ch.add, ch.con, ch.wa, ch.wc, ch.drain} \subseteq [Pipes -> BOOLEAN]
    BY <1>0 DEF ChannelType, Codes, PipeCodes
  <1>6. ch.ae \in [Pipes -> Codes] /\ ch.ce \in [Pipes -> Codes \cup {"again", "nodata"}]
    <2>1. ch.ae \in [Pipes -> PipeCodes] /\ ch.ce \in [Pipes -> {"ok", "fail", "again", "nodata"}]
      BY <1>0 DEF ChannelType
    <2>2. PipeCodes \subseteq Codes /\ {"ok", "fail", "again", "nodata"} \subseteq Codes \cup {"again", "nodata"}
      BY DEF PipeCodes, Codes
    <2> QED BY <2>1, <2>2
  <1>7. \A p \in Pipes : \A i \in DOMAIN ch.buf[p] : ch.buf[p][i] \in 1..MaxTransfers
    <2> SUFFICES ASSUME NEW p \in Pipes, NEW i \in DOMAIN ch.buf[p]
                 PROVE  ch.buf[p][i] \in 1..MaxTransfers
      OBVIOUS
    <2> DEFINE b == ch.buf[p]
    <2>1. b \in Seq(1..MaxTransfers) BY <1>0 DEF ChannelType, Bunch
    <2>2. i \in DOMAIN b OBVIOUS
    <2> HIDE DEF b
    <2>3. DOMAIN b = 1..Len(b) BY <2>1, LenProperties
    <2>4. b[i] \in 1..MaxTransfers BY <2>1, <2>2, <2>3, ElementOfSeq, Zenon
    <2> QED BY <2>4 DEF b
  <1>8. {ch.si, ch.wr, ch.ww, ch.low, ch.shut, ch.sent, ch.spoilt, ch.eof, ch.broken,
         ch.armR, ch.armW, ch.half} \subseteq BOOLEAN
    BY <1>0 DEF ChannelType
  <1>9. Len(ch.buf["in"]) <= MaxBuffer /\ Targets(ch) /\ OnceIn(Dones, ch.q)
    BY <1>0 DEF InPlace
  <1>10. EventsHaveTargets
    <2>1. ASSUME NEW i \in DOMAIN ch.q
          PROVE  LET e == ch.q[i]
                 IN /\ e[1] = "add" => ch.add[e[2]]
                    /\ e[1] = "con" => ch.con[e[2]]
                    /\ e[1] \in {"read", "write"} => ch.si
                    /\ e[1] = "done" => ch.phase = "run" /\ ~ch.si
                    /\ e[1] = "sock" => ch.phase = "closing"
      <3> DEFINE e == ch.q[i]
      <3>1. e \in LoopEvents /\ In(e, ch.q) BY <1>2
      <3> HIDE DEF e
      <3>2. e[1] = "add" => ch.add[e[2]]
        <4> SUFFICES ASSUME e[1] = "add" PROVE ch.add[e[2]] OBVIOUS
        <4>1. PICK p \in Pipes, x \in Codes : e = <<"add", p, x>>
          BY <3>1 DEF LoopEvents, Codes
        <4> QED BY <3>1, <4>1, <1>9 DEF Targets
      <3>3. e[1] = "con" => ch.con[e[2]]
        <4> SUFFICES ASSUME e[1] = "con" PROVE ch.con[e[2]] OBVIOUS
        <4>1. PICK p \in Pipes, x \in Codes : e = <<"con", p, x>>
          BY <3>1 DEF LoopEvents, Codes, Pipes
        <4> QED BY <3>1, <4>1, <1>9 DEF Targets
      <3>4. e[1] \in {"read", "write"} => ch.si
        <4> SUFFICES ASSUME e[1] \in {"read", "write"} PROVE ch.si OBVIOUS
        <4>1. PICK x \in Codes : e = <<"read", x>> \/ e = <<"write", x>>
          BY <3>1 DEF LoopEvents, Codes
        <4> QED BY <3>1, <4>1, <1>9 DEF Targets
      <3>5. e[1] = "done" => ch.phase = "run" /\ ~ch.si
        <4> SUFFICES ASSUME e[1] = "done" PROVE ch.phase = "run" /\ ~ch.si OBVIOUS
        <4>1. PICK x \in Codes : e = <<"done", x>> BY <3>1 DEF LoopEvents, Codes, PipeCodes
        <4> QED BY <3>1, <4>1, <1>9 DEF Targets
      <3>6. e[1] = "sock" => ch.phase = "closing"
        <4> SUFFICES ASSUME e[1] = "sock" PROVE ch.phase = "closing" OBVIOUS
        <4>1. e = <<"sock">> BY <3>1 DEF LoopEvents
        <4> QED BY <3>1, <4>1, <1>9 DEF Targets
      <3> QED BY <3>2, <3>3, <3>4, <3>5, <3>6 DEF e
    <2>2. ASSUME NEW i \in DOMAIN ch.q, NEW j \in DOMAIN ch.q,
                 ch.q[i][1] = "done", ch.q[j][1] = "done"
          PROVE  i = j
      <3>1. \A k \in DOMAIN ch.q : ch.q[k][1] = "done" => ch.q[k] \in Dones
        BY <1>2 DEF LoopEvents, Dones, Codes, PipeCodes
      <3> QED BY <1>9, <2>2, <3>1 DEF OnceIn
    <2> QED BY <2>1, <2>2 DEF EventsHaveTargets
  <1>11. OneEntryAsked
    <2> SUFFICES ASSUME ~LateEntries PROVE Len(ch.asked) <= 1 BY DEF OneEntryAsked
    <2>1. ch.asked # <<>> => Len(ch.asked) = 1 BY <1>0 DEF Accounted, Asking
    <2>2. ch.asked = <<>> => Len(ch.asked) = 0 OBVIOUS
    <2> DEFINE n == Len(ch.asked)
    <2>3. n = 0 \/ n = 1 BY <2>1, <2>2
    <2> HIDE DEF n
    <2>4. n <= 1 BY <2>3
    <2> QED BY <2>4 DEF n
  <1> QED BY <1>2, <1>3, <1>4, <1>5, <1>6, <1>7, <1>8, <1>9, <1>10, <1>11 DEF TypeOK

\* Every field keeps its type; the socket's buffer is never overfilled; an event
\* in the queue of the channel finds the operator, the socket or the data socket
\* it is for, and the end of the channel is told once (pipe.cpp, channel.cpp,
\* buffer_operator/detail/base.hpp).
THEOREM EventsFindTheirTargets == Spec => []TypeOK
  <1>1. ChannelInv => TypeOK BY ChannelTyped
  <1> QED BY <1>1, ChannelHolds, PTL

\* A sequence of one value is known by its length.
LEMMA AllAlike ==
    ASSUME NEW n, NEW m \in Nat, NEW s \in Seq({n}), Len(s) = m
    PROVE  s = [i \in 1..m |-> n]
  OBVIOUS

LEMMA SettledIsWhole ==
    ASSUME ChannelInv, ~LateEntries
    PROVE  CompleteWhenOk
  <1> SUFFICES ASSUME ch.result = "ok"
               PROVE  /\ ch.kind \in {"send", "list"} => ch.got \o ch.wire = Whole(Bytes)
                      /\ ch.kind = "store" => ch.stored = Whole(Bytes)
                      /\ ch.kind = "talk" /\ ch.left = 0 => ch.got \o ch.wire = Whole(ch.said)
    BY DEF CompleteWhenOk
  <1> DEFINE w == ch.got \o ch.wire
  <1>0. Accounted(ch) /\ ch \in ChannelType BY GoodParts DEF ChannelInv
  <1>1. Settled(ch) BY <1>0 DEF Accounted, Verdict
  <1>2. ch.got \in Seq({ch.n}) /\ ch.wire \in Seq({ch.n}) /\ ch.stored \in Seq({ch.n})
    BY <1>0 DEF Accounted, Ours
  <1>3. w \in Seq({ch.n}) /\ Len(w) = Written0(ch) BY <1>2, Joined DEF Written0
  <1>4. Bytes \in Nat /\ ch.said \in Nat BY <1>0, BoundsAssumption DEF ChannelType
  <1> HIDE DEF w
  <1>5. ch.kind \in {"send", "list"} => w = Whole(Bytes)
    BY <1>1, <1>3, <1>4, AllAlike DEF Settled, Whole
  <1>6. ch.kind = "store" => ch.stored = Whole(Bytes)
    BY <1>1, <1>2, <1>4, AllAlike DEF Settled, Whole
  <1>7. ch.kind = "talk" /\ ch.left = 0 => w = Whole(ch.said)
    BY <1>1, <1>3, <1>4, AllAlike DEF Settled, Whole
  <1> QED BY <1>5, <1>6, <1>7 DEF w

\* While no entry comes to a listing that is over: a transfer that ended without
\* an error moved every byte, once, in order, and no other transfer's; a control
\* connection that was shut down sent every reply before (pipe::add_to_buffer,
\* socket_adapter::on_shutdown_event, session::on_channel_done_event).
THEOREM TransfersAreWhole == ~LateEntries => (Spec => []CompleteWhenOk)
  <1>1. ASSUME ~LateEntries PROVE Spec => []CompleteWhenOk
    <2>1. ChannelInv => CompleteWhenOk BY <1>1, SettledIsWhole
    <2> QED BY <2>1, ChannelHolds, PTL
  <1> QED BY <1>1
=============================================================================
