--------------------------- MODULE SharingProofs ---------------------------
(***************************************************************************)
(* What Sharing promises, for every field: two shares recover the secret,  *)
(* a reshare keeps it, and shares of different deals do not mix.  And what *)
(* Parties promises, for every field, every number of deals and whatever   *)
(* calls are lost or served in between: its invariants, from the plan that *)
(* every run follows.                                                      *)
(***************************************************************************)
EXTENDS Parties, TLAPS

\* The axioms, in the form the steps below cite them.
LEMMA Closed ==
    /\ \A a \in Scalar : Negative(a) \in Scalar /\ Inverse(a) \in Scalar
    /\ \A a, b \in Scalar : Plus(a, b) \in Scalar /\ Times(a, b) \in Scalar
    /\ Zero \in Scalar /\ One \in Scalar
BY ScalarsAreAField

\* Addition: a commutative group.
LEMMA PlusLaws ==
    /\ \A a, b \in Scalar : Plus(a, b) = Plus(b, a)
    /\ \A a, b, c \in Scalar : Plus(a, Plus(b, c)) = Plus(Plus(a, b), c)
    /\ \A a \in Scalar : Plus(a, Zero) = a
    /\ \A a \in Scalar : Plus(a, Negative(a)) = Zero
BY ScalarsAreAField

\* Multiplication: commutative, with inverses.
LEMMA TimesLaws ==
    /\ \A a, b \in Scalar : Times(a, b) = Times(b, a)
    /\ \A a, b, c \in Scalar : Times(a, Times(b, c)) = Times(Times(a, b), c)
    /\ \A a \in Scalar : Times(a, One) = a
    /\ \A a \in Scalar : a # Zero => Times(a, Inverse(a)) = One
BY ScalarsAreAField

\* Multiplication distributes over addition.
LEMMA Distributes ==
    \A a, b, c \in Scalar : Times(a, Plus(b, c)) = Plus(Times(a, b), Times(a, c))
BY ScalarsAreAField

-----------------------------------------------------------------------------
(* Rings                                                                    *)

\* A summand can be cancelled.
LEMMA Cancel ==
    ASSUME NEW a \in Scalar, NEW b \in Scalar, NEW c \in Scalar,
           Plus(a, b) = Plus(a, c)
    PROVE  b = c
<1>1. Plus(Negative(a), Plus(a, b)) = b
  BY Closed, PlusLaws
<1>2. Plus(Negative(a), Plus(a, c)) = c
  BY Closed, PlusLaws
<1> QED BY <1>1, <1>2

\* A product with zero is zero.
LEMMA TimesZero ==
    ASSUME NEW a \in Scalar
    PROVE  Times(a, Zero) = Zero
<1>1. Times(a, Plus(Zero, Zero)) = Plus(Times(a, Zero), Times(a, Zero))
  BY Closed, Distributes
<1>2. Plus(Zero, Zero) = Zero
  BY Closed, PlusLaws
<1>3. Plus(Times(a, Zero), Zero) = Times(a, Zero)
  BY Closed, PlusLaws
<1>4. Times(a, Zero) \in Scalar
  BY Closed
<1> QED BY <1>1, <1>2, <1>3, <1>4, Closed, Cancel

\* Minus of a product.
LEMMA TimesNegative ==
    ASSUME NEW a \in Scalar, NEW b \in Scalar
    PROVE  Times(a, Negative(b)) = Negative(Times(a, b))
<1>1. Plus(Times(a, b), Times(a, Negative(b))) = Times(a, Plus(b, Negative(b)))
  BY Closed, Distributes
<1>2. Times(a, Plus(b, Negative(b))) = Zero
  BY Closed, PlusLaws, TimesZero
<1>3. Plus(Times(a, b), Negative(Times(a, b))) = Zero
  BY Closed, PlusLaws
<1> QED BY <1>1, <1>2, <1>3, Closed, Cancel

\* A product with a factor that is not zero is zero only if the other is.
LEMMA NoZeroDivisors ==
    ASSUME NEW a \in Scalar, NEW b \in Scalar, a # Zero, Times(a, b) = Zero
    PROVE  b = Zero
<1>1. Times(Inverse(a), Times(a, b)) = b
  <2>1. Times(Inverse(a), Times(a, b)) = Times(Times(Inverse(a), a), b)
    BY Closed, TimesLaws
  <2>2. Times(Inverse(a), a) = One
    BY Closed, TimesLaws
  <2>3. Times(One, b) = b
    BY Closed, TimesLaws
  <2> QED BY <2>1, <2>2, <2>3
<1>2. Times(Inverse(a), Zero) = Zero
  BY Closed, TimesZero
<1> QED BY <1>1, <1>2

\* A factor that is not zero can be cancelled.
LEMMA CancelFactor ==
    ASSUME NEW a \in Scalar, NEW b \in Scalar, NEW c \in Scalar,
           a # Zero, Times(a, b) = Times(a, c)
    PROVE  b = c
<1>1. Times(a, Plus(b, Negative(c))) = Zero
  <2>1. Times(a, Plus(b, Negative(c))) = Plus(Times(a, b), Times(a, Negative(c)))
    BY Closed, Distributes
  <2>2. Times(a, Negative(c)) = Negative(Times(a, c))
    BY TimesNegative
  <2> QED BY <2>1, <2>2, Closed, PlusLaws
<1>2. Plus(b, Negative(c)) = Zero
  BY <1>1, Closed, NoZeroDivisors
<1>3. Plus(Negative(c), b) = Plus(Negative(c), c)
  BY <1>2, Closed, PlusLaws
<1> QED BY <1>3, Closed, Cancel

\* The sum of two products with one factor.
LEMMA Factor ==
    ASSUME NEW a \in Scalar, NEW b \in Scalar, NEW c \in Scalar
    PROVE  Plus(Times(a, c), Times(b, c)) = Times(Plus(a, b), c)
<1>1. Times(c, Plus(a, b)) = Plus(Times(c, a), Times(c, b))
  BY Distributes
<1>2. Times(c, a) = Times(a, c) /\ Times(c, b) = Times(b, c)
  BY TimesLaws
<1>3. Times(c, Plus(a, b)) = Times(Plus(a, b), c)
  BY Closed, TimesLaws
<1> QED BY <1>1, <1>2, <1>3

\* Sums of four are rearranged in pairs.
LEMMA Regroup ==
    ASSUME NEW a \in Scalar, NEW b \in Scalar, NEW c \in Scalar, NEW d \in Scalar
    PROVE  Plus(Plus(a, b), Plus(c, d)) = Plus(Plus(a, c), Plus(b, d))
<1>1. Plus(Plus(a, b), Plus(c, d)) = Plus(a, Plus(b, Plus(c, d)))
  BY Closed, PlusLaws
<1>2. Plus(b, Plus(c, d)) = Plus(c, Plus(b, d))
  <2>1. Plus(b, Plus(c, d)) = Plus(Plus(b, c), d)
    BY PlusLaws
  <2>2. Plus(b, c) = Plus(c, b)
    BY PlusLaws
  <2>3. Plus(Plus(c, b), d) = Plus(c, Plus(b, d))
    BY PlusLaws
  <2> QED BY <2>1, <2>2, <2>3
<1>3. Plus(a, Plus(c, Plus(b, d))) = Plus(Plus(a, c), Plus(b, d))
  BY Closed, PlusLaws
<1> QED BY <1>1, <1>2, <1>3

-----------------------------------------------------------------------------
(* The indices and the weights                                              *)

\* No index is zero and no two are the same.
LEMMA Indices ==
    /\ \A p \in Party : Index(p) \in Scalar /\ Index(p) # Zero
    /\ \A p, q \in Party : p # q => Index(p) # Index(q)
<1>1. One \in Scalar /\ Two \in Scalar /\ Three \in Scalar
  BY Closed DEF Two, Three
<1>2. One # Zero /\ Two # Zero /\ Three # Zero
  BY ScalarsAreAField, CharacteristicIsAboveThree
<1>3. Two # One
  <2>1. SUFFICES ASSUME Two = One PROVE FALSE
    OBVIOUS
  <2>2. Plus(One, One) = Plus(One, Zero)
    BY <2>1, Closed, PlusLaws DEF Two
  <2> QED BY <2>2, <1>2, Closed, Cancel
<1>4. Three # Two
  <2>1. SUFFICES ASSUME Three = Two PROVE FALSE
    OBVIOUS
  <2>2. Plus(Two, One) = Plus(Two, Zero)
    BY <2>1, <1>1, PlusLaws DEF Three
  <2> QED BY <2>2, <1>1, <1>2, Closed, Cancel
<1>5. Three # One
  <2>1. SUFFICES ASSUME Three = One PROVE FALSE
    OBVIOUS
  <2>2. Plus(One, Two) = Plus(One, Zero)
    <3>1. Plus(One, Two) = Three
      BY <1>1, PlusLaws DEF Three
    <3>2. Plus(One, Zero) = One
      BY <1>1, PlusLaws
    <3> QED BY <3>1, <3>2, <2>1
  <2> QED BY <2>2, <1>1, <1>2, Closed, Cancel
<1> QED BY <1>1, <1>2, <1>3, <1>4, <1>5, PartiesDiffer DEF Index, Party

\* How far the index of q is from the index of p.
Difference(p, q) == Plus(Index(q), Negative(Index(p)))

\* Two indices differ by a scalar that is not zero, and the differences of
\* the two orders cancel.
LEMMA Differences ==
    ASSUME NEW p \in Party, NEW q \in Party, p # q
    PROVE  /\ Difference(p, q) \in Scalar
           /\ Difference(p, q) # Zero
           /\ Difference(q, p) = Negative(Difference(p, q))
<1> DEFINE x == Index(p)
           y == Index(q)
<1>0. x \in Scalar /\ y \in Scalar /\ x # y
  BY Indices
<1> HIDE DEF x, y
<1>1. Plus(y, Negative(x)) \in Scalar /\ Plus(x, Negative(y)) \in Scalar
  BY <1>0, Closed
<1>2. Plus(y, Negative(x)) # Zero
  <2>1. SUFFICES ASSUME Plus(y, Negative(x)) = Zero PROVE FALSE
    OBVIOUS
  <2>2. Plus(Negative(x), y) = Plus(Negative(x), x)
    BY <2>1, <1>0, Closed, PlusLaws
  <2> QED BY <2>2, <1>0, Closed, Cancel
<1>3. Plus(x, Negative(y)) = Negative(Plus(y, Negative(x)))
  <2>1. Plus(Plus(y, Negative(x)), Plus(x, Negative(y))) = Zero
    <3>1. Plus(Plus(y, Negative(x)), Plus(x, Negative(y)))
             = Plus(Plus(y, x), Plus(Negative(x), Negative(y)))
      BY <1>0, Closed, Regroup
    <3>2. Plus(Plus(y, x), Plus(Negative(x), Negative(y)))
             = Plus(Plus(x, y), Plus(Negative(x), Negative(y)))
      BY <1>0, PlusLaws
    <3>3. Plus(Plus(x, y), Plus(Negative(x), Negative(y)))
             = Plus(Plus(x, Negative(x)), Plus(y, Negative(y)))
      BY <1>0, Closed, Regroup
    <3> QED BY <3>1, <3>2, <3>3, <1>0, Closed, PlusLaws
  <2>2. Plus(Plus(y, Negative(x)), Negative(Plus(y, Negative(x)))) = Zero
    BY <1>1, PlusLaws
  <2> QED BY <2>1, <2>2, <1>1, Closed, Cancel
<1> QED BY <1>1, <1>2, <1>3 DEF Difference, x, y

\* The weight of p over {p, q}, spelled with the difference of the indices.
LEMMA Weights ==
    ASSUME NEW p \in Party, NEW q \in Party, p # q
    PROVE  /\ LagrangeAtZero(p, q) \in Scalar
           /\ LagrangeAtZero(p, q) # Zero
           /\ Plus(LagrangeAtZero(p, q), LagrangeAtZero(q, p)) = One
           /\ Plus(Times(LagrangeAtZero(p, q), Index(p)),
                   Times(LagrangeAtZero(q, p), Index(q))) = Zero
<1> DEFINE x == Index(p)
           y == Index(q)
           D == Difference(p, q)
           E == Difference(q, p)
           d == Inverse(D)
           e == Inverse(E)
<1>1. x \in Scalar /\ y \in Scalar /\ x # Zero /\ y # Zero
  BY Indices
<1>2. D \in Scalar /\ D # Zero /\ E = Negative(D) /\ D = Plus(y, Negative(x))
  BY Differences DEF Difference
<1>3. E \in Scalar /\ E # Zero
  BY Differences
<1>4. LagrangeAtZero(p, q) = Times(y, d) /\ LagrangeAtZero(q, p) = Times(x, e)
  BY DEF LagrangeAtZero, Difference
<1> HIDE DEF x, y, D, E
<1>5. d \in Scalar /\ e \in Scalar /\ Times(D, d) = One /\ Times(E, e) = One
  BY <1>2, <1>3, Closed, TimesLaws
<1> HIDE DEF d, e
<1>6. d # Zero
  <2>1. SUFFICES ASSUME d = Zero PROVE FALSE
    OBVIOUS
  <2> QED BY <2>1, <1>2, <1>5, TimesZero, ScalarsAreAField
<1>7. e = Negative(d)
  <2>1. Times(E, Negative(d)) = One
    <3>1. Times(E, Negative(d)) = Negative(Times(E, d))
      BY <1>3, <1>5, TimesNegative
    <3>2. Times(E, d) = Negative(Times(D, d))
      <4>1. Times(d, Negative(D)) = Negative(Times(d, D))
        BY <1>2, <1>5, TimesNegative
      <4>2. Times(d, Negative(D)) = Times(E, d) /\ Times(d, D) = Times(D, d)
        BY <1>2, <1>3, <1>5, TimesLaws
      <4> QED BY <4>1, <4>2
    <3>3. Negative(Negative(One)) = One
      <4>1. Plus(Negative(One), Negative(Negative(One))) = Plus(Negative(One), One)
        BY Closed, PlusLaws
      <4> QED BY <4>1, Closed, Cancel
    <3> QED BY <3>1, <3>2, <3>3, <1>5
  <2>2. Times(E, Negative(d)) = Times(E, e)
    BY <2>1, <1>5
  <2> QED BY <2>2, <1>3, <1>5, Closed, CancelFactor
<1>8. Times(x, e) = Negative(Times(x, d))
  BY <1>7, <1>1, <1>5, TimesNegative
<1>9. Times(Negative(x), d) = Negative(Times(x, d))
  <2>1. Times(d, Negative(x)) = Negative(Times(d, x))
    BY <1>1, <1>5, TimesNegative
  <2>2. Times(d, Negative(x)) = Times(Negative(x), d) /\ Times(d, x) = Times(x, d)
    BY <1>1, <1>5, Closed, TimesLaws
  <2> QED BY <2>1, <2>2
<1>10. Plus(Times(y, d), Times(x, e)) = One
  <2>1. Plus(Times(y, d), Times(Negative(x), d)) = Times(Plus(y, Negative(x)), d)
    BY <1>1, <1>5, Closed, Factor
  <2> QED BY <2>1, <1>2, <1>5, <1>8, <1>9
<1>11. Plus(Times(Times(y, d), x), Times(Times(x, e), y)) = Zero
  <2>1. Times(Times(x, e), y) = Negative(Times(Times(y, d), x))
    <3>1. Times(y, Negative(Times(x, d))) = Negative(Times(y, Times(x, d)))
      BY <1>1, <1>5, Closed, TimesNegative
    <3>2. Times(Times(x, e), y) = Times(y, Times(x, e))
      BY <1>1, <1>5, Closed, TimesLaws
    <3>3. Times(y, Times(x, d)) = Times(Times(y, d), x)
      <4>1. Times(x, d) = Times(d, x)
        BY <1>1, <1>5, TimesLaws
      <4>2. Times(y, Times(d, x)) = Times(Times(y, d), x)
        BY <1>1, <1>5, TimesLaws
      <4> QED BY <4>1, <4>2
    <3> QED BY <3>1, <3>2, <3>3, <1>8
  <2> QED BY <2>1, <1>1, <1>5, Closed, PlusLaws
<1>12. Times(y, d) \in Scalar /\ Times(y, d) # Zero
  BY <1>1, <1>5, <1>6, Closed, NoZeroDivisors
<1> QED BY <1>4, <1>10, <1>11, <1>12 DEF x, y

\* Two points, one of the line with slope m and one of the line with slope n
\* and the same constant, interpolate to the constant and a multiple of the
\* difference of the slopes that is zero for equal slopes only.
LEMMA Interpolation ==
    ASSUME NEW p \in Party, NEW q \in Party, p # q,
           NEW c \in Scalar, NEW m \in Scalar, NEW n \in Scalar
    PROVE  \E k \in Scalar :
             /\ k # Zero
             /\ Reconstruct(p, Line(c, m)[p], q, Line(c, n)[q])
                  = Plus(c, Times(k, Plus(m, Negative(n))))
<1> DEFINE x == Index(p)
           y == Index(q)
           w == LagrangeAtZero(p, q)
           v == LagrangeAtZero(q, p)
           k == Times(w, x)
<1>1. x \in Scalar /\ y \in Scalar /\ x # Zero
  BY Indices
<1>2. /\ w \in Scalar /\ v \in Scalar /\ w # Zero
      /\ Plus(w, v) = One /\ Plus(Times(w, x), Times(v, y)) = Zero
  BY Weights
<1>3. Reconstruct(p, Line(c, m)[p], q, Line(c, n)[q])
        = Plus(Times(w, Plus(c, Times(m, x))), Times(v, Plus(c, Times(n, y))))
  BY DEF Reconstruct, Line
<1> HIDE DEF x, y, w, v
<1>4. k \in Scalar /\ k # Zero
  BY <1>1, <1>2, Closed, NoZeroDivisors
<1>5. /\ Times(w, Plus(c, Times(m, x))) = Plus(Times(w, c), Times(w, Times(m, x)))
      /\ Times(v, Plus(c, Times(n, y))) = Plus(Times(v, c), Times(v, Times(n, y)))
  <2>1. Times(m, x) \in Scalar /\ Times(n, y) \in Scalar
    BY <1>1, Closed
  <2> QED BY <2>1, <1>2, Distributes
<1>6. Plus(Plus(Times(w, c), Times(w, Times(m, x))),
           Plus(Times(v, c), Times(v, Times(n, y))))
        = Plus(Plus(Times(w, c), Times(v, c)),
               Plus(Times(w, Times(m, x)), Times(v, Times(n, y))))
  <2>1. /\ Times(w, c) \in Scalar /\ Times(w, Times(m, x)) \in Scalar
        /\ Times(v, c) \in Scalar /\ Times(v, Times(n, y)) \in Scalar
    BY <1>1, <1>2, Closed
  <2> QED BY <2>1, Regroup
<1>7. Plus(Times(w, c), Times(v, c)) = c
  <2>1. Plus(Times(w, c), Times(v, c)) = Times(One, c)
    BY <1>2, Factor
  <2> QED BY <2>1, Closed, TimesLaws
<1>8. Times(w, Times(m, x)) = Times(k, m)
  <2>1. Times(m, x) = Times(x, m)
    BY <1>1, TimesLaws
  <2> QED BY <2>1, <1>1, <1>2, TimesLaws
<1>9. Times(v, Times(n, y)) = Times(k, Negative(n))
  <2>1. Times(v, y) = Negative(k)
    <3>1. Plus(k, Times(v, y)) = Plus(k, Negative(k))
      BY <1>2, <1>4, PlusLaws
    <3> QED BY <3>1, <1>1, <1>2, <1>4, Closed, Cancel
  <2>2. Times(v, Times(n, y)) = Times(n, Times(v, y))
    <3>1. Times(v, Times(n, y)) = Times(Times(n, y), v)
      BY <1>1, <1>2, Closed, TimesLaws
    <3>2. Times(Times(n, y), v) = Times(n, Times(y, v))
      BY <1>1, <1>2, TimesLaws
    <3>3. Times(y, v) = Times(v, y)
      BY <1>1, <1>2, TimesLaws
    <3> QED BY <3>1, <3>2, <3>3
  <2>3. Times(n, Negative(k)) = Negative(Times(n, k))
    BY <1>4, TimesNegative
  <2>4. Times(k, Negative(n)) = Negative(Times(k, n))
    BY <1>4, TimesNegative
  <2>5. Times(n, k) = Times(k, n)
    BY <1>4, TimesLaws
  <2> QED BY <2>1, <2>2, <2>3, <2>4, <2>5
<1>10. Plus(Times(k, m), Times(k, Negative(n))) = Times(k, Plus(m, Negative(n)))
  BY <1>4, Closed, Distributes
<1>11. Reconstruct(p, Line(c, m)[p], q, Line(c, n)[q])
         = Plus(c, Times(k, Plus(m, Negative(n))))
  BY <1>3, <1>5, <1>6, <1>7, <1>8, <1>9, <1>10
<1> HIDE DEF k
<1> QED BY <1>4, <1>11

-----------------------------------------------------------------------------
(* What the shares are for                                                  *)

\* Any two shares of one deal recover its secret, in every field in which
\* the three indices differ (backend.rs reconstruct()).
THEOREM TwoSharesRecover ==
    \A p, q \in Party, c, m \in Scalar :
        p # q => Reconstruct(p, Line(c, m)[p], q, Line(c, m)[q]) = c
<1> SUFFICES ASSUME NEW p \in Party, NEW q \in Party, p # q,
                    NEW c \in Scalar, NEW m \in Scalar
             PROVE  Reconstruct(p, Line(c, m)[p], q, Line(c, m)[q]) = c
  OBVIOUS
<1>1. PICK k \in Scalar : Reconstruct(p, Line(c, m)[p], q, Line(c, m)[q])
                            = Plus(c, Times(k, Plus(m, Negative(m))))
  BY Interpolation
<1>2. Times(k, Plus(m, Negative(m))) = Zero
  BY PlusLaws, TimesZero
<1> QED BY <1>1, <1>2, PlusLaws

\* A share of one deal and a share of another deal of the same secret recover
\* it only if the two deals are the same line, which fresh slopes are not:
\* an old recovery file is of no use with a new share, and a reshare from it
\* deals another secret, which its parties notice.
THEOREM MixedSharesMiss ==
    \A p, q \in Party, c, m, n \in Scalar :
        /\ p # q
        /\ Reconstruct(p, Line(c, m)[p], q, Line(c, n)[q]) = c
        => m = n
<1> SUFFICES ASSUME NEW p \in Party, NEW q \in Party, p # q,
                    NEW c \in Scalar, NEW m \in Scalar, NEW n \in Scalar,
                    Reconstruct(p, Line(c, m)[p], q, Line(c, n)[q]) = c
             PROVE  m = n
  OBVIOUS
<1>1. PICK k \in Scalar :
        /\ k # Zero
        /\ Reconstruct(p, Line(c, m)[p], q, Line(c, n)[q])
             = Plus(c, Times(k, Plus(m, Negative(n))))
  BY Interpolation
<1>2. Plus(m, Negative(n)) \in Scalar
  BY Closed
<1>3. Plus(c, Times(k, Plus(m, Negative(n)))) = Plus(c, Zero)
  BY <1>1, PlusLaws
<1>4. Times(k, Plus(m, Negative(n))) = Zero
  BY <1>2, <1>3, Closed, Cancel
<1>5. Plus(m, Negative(n)) = Zero
  BY <1>1, <1>2, <1>4, NoZeroDivisors
<1>6. Plus(Negative(n), m) = Plus(Negative(n), n)
  BY <1>5, Closed, PlusLaws
<1> QED BY <1>6, Closed, Cancel

\* A reshare keeps the secret: whichever two parties survive, whatever slopes
\* they draw, what the three parties are dealt in sum is a line with the old
\* constant (start_reshare(), reshare_row()).
THEOREM ReshareKeepsSecret ==
    ASSUME NEW p \in Party, NEW q \in Party, NEW j \in Party,
           p # q, j # p, j # q,
           NEW c \in Scalar, NEW m \in Scalar, NEW r \in Scalar, NEW s \in Scalar
    PROVE  LET dealt(t) == [i \in Party |->
                  IF i = p THEN ReshareRow(p, Line(c, m)[p], q, r)[t]
                  ELSE IF i = q THEN ReshareRow(q, Line(c, m)[q], p, s)[t]
                  ELSE JoinerRow[t]]
           IN  \A t \in Party : SumOf(dealt(t)) = Line(c, Plus(r, s))[t]
<1> DEFINE A == Times(LagrangeAtZero(p, q), Line(c, m)[p])
           B == Times(LagrangeAtZero(q, p), Line(c, m)[q])
<1> SUFFICES ASSUME NEW t \in Party
             PROVE  SumOf([i \in Party |->
                      IF i = p THEN ReshareRow(p, Line(c, m)[p], q, r)[t]
                      ELSE IF i = q THEN ReshareRow(q, Line(c, m)[q], p, s)[t]
                      ELSE JoinerRow[t]])
                    = Line(c, Plus(r, s))[t]
  OBVIOUS
<1> DEFINE x == Index(t)
           u == Plus(A, Times(r, x))
           w == Plus(B, Times(s, x))
<1>1. /\ ReshareRow(p, Line(c, m)[p], q, r)[t] = u
      /\ ReshareRow(q, Line(c, m)[q], p, s)[t] = w
      /\ JoinerRow[t] = Zero
      /\ Line(c, Plus(r, s))[t] = Plus(c, Times(Plus(r, s), x))
  BY DEF ReshareRow, JoinerRow, Line
<1>2. A \in Scalar /\ B \in Scalar /\ Plus(A, B) = c
  <2>1. Line(c, m)[p] \in Scalar /\ Line(c, m)[q] \in Scalar
    BY Indices, Closed DEF Line
  <2>2. Plus(A, B) = c
    BY TwoSharesRecover DEF Reconstruct
  <2> QED BY <2>1, <2>2, Weights, Closed
<1>3. x \in Scalar
  BY Indices
<1> HIDE DEF A, B, x
<1>4. u \in Scalar /\ w \in Scalar
  BY <1>2, <1>3, Closed
<1>5. Plus(u, w) = Plus(c, Times(Plus(r, s), x))
  <2>1. Plus(u, w) = Plus(Plus(A, B), Plus(Times(r, x), Times(s, x)))
    BY <1>2, <1>3, Closed, Regroup
  <2>2. Plus(Times(r, x), Times(s, x)) = Times(Plus(r, s), x)
    BY <1>3, Factor
  <2> QED BY <2>1, <2>2, <1>2
<1> HIDE DEF u, w
<1>6. /\ Plus(u, Plus(w, Zero)) = Plus(u, w)
      /\ Plus(u, Plus(Zero, w)) = Plus(u, w)
      /\ Plus(w, Plus(u, Zero)) = Plus(u, w)
      /\ Plus(w, Plus(Zero, u)) = Plus(u, w)
      /\ Plus(Zero, Plus(u, w)) = Plus(u, w)
      /\ Plus(Zero, Plus(w, u)) = Plus(u, w)
  BY <1>4, Closed, PlusLaws
<1>7. SumOf([i \in Party |-> IF i = p THEN u ELSE IF i = q THEN w ELSE Zero])
        = Plus(u, w)
  BY <1>6, PartiesDiffer DEF SumOf, Party
<1> QED BY <1>1, <1>5, <1>7

-----------------------------------------------------------------------------
(* What a deal settles                                                      *)

\* The point of p on the line that three lines add up to.
Point(c, m, p) == Line(SumOf(c), SumOf(m))[p]

\* The share p has at the end.
Outcome(deal, c, m, p) ==
    [party |-> p, point |-> Point(c, m, p), deal |-> deal, key |-> SumOf(c)]

\* What a session of the deal has heard is what was dealt.
Follows(s, deal, expected, c, m) ==
    /\ s.kind = "deal" /\ s.deal = deal /\ s.expected = expected
    /\ \A q \in Party : s.fragments[q] \in {None, Line(c[q], m[q])[s.me]}
    /\ s.fragments[s.me] # None
    /\ s.round # 1 => AllFragments(s.fragments)
    /\ \A q \in Party : s.proofs[q] \in {None, Point(c, m, q)}
    /\ s.round = 4 => /\ s.share = Outcome(deal, c, m, s.me)
                      /\ expected \in {None, SumOf(c)}

\* What a message of the deal says is what was dealt.
Says(e, c, m) ==
    /\ e.round = 1 => e.to \in Party /\ e.body = Line(c[e.from], m[e.from])[e.to]
    /\ e.round = 2 /\ e.to = Everyone => e.body = Point(c, m, e.from)
    /\ e.round = 2 /\ e.to # Everyone => e.body = None
    /\ e.round = 3 => e.body = None

\* A session that has heard from a server or two yet to come.
Unheard(s) ==
    /\ s.round = 1
    /\ s.fragments[Server] = None
    /\ \A q \in Party : s.proofs[q] = None

\* A signing session works from its party's share with the other party.
Signs(s, pair, d) ==
    /\ s.kind = "sign" /\ s.me \in pair /\ s.with \in pair \ {s.me}
    /\ s.held.deal = d[s.me]
    /\ s.round = 4 => d[s.me] = d[s.with]

\* Its messages name the deal of the share.
Tells(e, pair, d) ==
    /\ e.from \in pair /\ e.to \in (pair \ {e.from}) \union {Everyone}
    /\ e.body = d[e.from]

\* A session of a deal has everything its round needs.
Ready(s) ==
    /\ s.round <= 2 => s.zero2 = {}
    /\ s.round <= 3 => s.private3 = {}
    /\ s.round \in {2, 3} => s.proofs[s.me] # None
    /\ s.round = 3 => /\ \A q \in Party : s.proofs[q] # None
                      /\ s.zero2 = Others(s.me)
                      /\ s.bip3 = {s.me}

-----------------------------------------------------------------------------
(* Lines                                                                    *)

\* Lines and sums of scalars are scalars.
LEMMA LineTypes ==
    /\ \A a, b \in Scalar : Line(a, b) \in [Party -> Scalar]
    /\ \A c \in [Party -> Scalar] : SumOf(c) \in Scalar
<1>1. \A a, b \in Scalar : Line(a, b) \in [Party -> Scalar]
  BY Indices, Closed DEF Line
<1>2. \A c \in [Party -> Scalar] : SumOf(c) \in Scalar
  BY Closed DEF SumOf, Party
<1> QED BY <1>1, <1>2

\* So are the points.
LEMMA PointType ==
    ASSUME NEW c \in [Party -> Scalar], NEW m \in [Party -> Scalar], NEW p \in Party
    PROVE  /\ Point(c, m, p) \in Scalar /\ SumOf(c) \in Scalar
           /\ \A q \in Party : Line(c[q], m[q])[p] \in Scalar
<1>1. c[p] \in Scalar /\ \A q \in Party : c[q] \in Scalar /\ m[q] \in Scalar
  OBVIOUS
<1>2. SumOf(c) \in Scalar /\ SumOf(m) \in Scalar
  BY LineTypes
<1>3. Line(SumOf(c), SumOf(m)) \in [Party -> Scalar]
  BY <1>2, LineTypes
<1>4. \A q \in Party : Line(c[q], m[q]) \in [Party -> Scalar]
  BY <1>1, LineTypes
<1> QED BY <1>2, <1>3, <1>4 DEF Point

\* What three lines deal to a party adds up to its point.
LEMMA SumOfLines ==
    ASSUME NEW c \in [Party -> Scalar], NEW m \in [Party -> Scalar], NEW p \in Party,
           NEW f, \A q \in Party : f[q] = Line(c[q], m[q])[p]
    PROVE  SumOf(f) = Point(c, m, p)
<1> DEFINE x == Index(p)
           e == c[Extension]
           r == c[Recovery]
           s == c[Server]
           i == m[Extension]
           j == m[Recovery]
           k == m[Server]
<1>1. /\ x \in Scalar /\ e \in Scalar /\ r \in Scalar /\ s \in Scalar
      /\ i \in Scalar /\ j \in Scalar /\ k \in Scalar
  BY Indices DEF Party
<1>2. /\ f[Extension] = Plus(e, Times(i, x))
      /\ f[Recovery] = Plus(r, Times(j, x))
      /\ f[Server] = Plus(s, Times(k, x))
  BY DEF Line, Party
<1>3. Point(c, m, p) = Plus(Plus(e, Plus(r, s)), Times(Plus(i, Plus(j, k)), x))
  BY DEF Point, SumOf, Line
<1> HIDE DEF x, e, r, s, i, j, k
<1>4. /\ Times(i, x) \in Scalar /\ Times(j, x) \in Scalar /\ Times(k, x) \in Scalar
      /\ Plus(r, s) \in Scalar /\ Plus(j, k) \in Scalar
  BY <1>1, Closed
<1>5. Plus(Plus(r, Times(j, x)), Plus(s, Times(k, x))) = Plus(Plus(r, s), Times(Plus(j, k), x))
  BY <1>1, <1>4, Regroup, Factor
<1>6. Plus(Plus(e, Times(i, x)), Plus(Plus(r, s), Times(Plus(j, k), x)))
        = Plus(Plus(e, Plus(r, s)), Plus(Times(i, x), Times(Plus(j, k), x)))
  <2> DEFINE ix == Times(i, x)
             rs == Plus(r, s)
             jkx == Times(Plus(j, k), x)
  <2>1. ix \in Scalar /\ rs \in Scalar /\ jkx \in Scalar
    BY <1>1, <1>4, Closed
  <2> HIDE DEF ix, rs, jkx
  <2>2. Plus(Plus(e, ix), Plus(rs, jkx)) = Plus(Plus(e, rs), Plus(ix, jkx))
    BY <1>1, <2>1, Regroup
  <2> QED BY <2>2 DEF ix, rs, jkx
<1>7. Plus(Times(i, x), Times(Plus(j, k), x)) = Times(Plus(i, Plus(j, k)), x)
  BY <1>1, <1>4, Factor
<1> QED BY <1>2, <1>3, <1>5, <1>6, <1>7 DEF SumOf

\* Any two points of the sum give the sum of the constants.
LEMMA PointsRecover ==
    ASSUME NEW c \in [Party -> Scalar], NEW m \in [Party -> Scalar],
           NEW p \in Party, NEW q \in Party, p # q
    PROVE  Reconstruct(p, Point(c, m, p), q, Point(c, m, q)) = SumOf(c)
<1>1. SumOf(c) \in Scalar /\ SumOf(m) \in Scalar
  BY LineTypes
<1> QED BY <1>1, TwoSharesRecover DEF Point

\* So the last phase finds the public key of that constant.
LEMMA OneKey ==
    ASSUME NEW c \in [Party -> Scalar], NEW m \in [Party -> Scalar],
           NEW f, \A q \in Party : f[q] = Point(c, m, q)
    PROVE  /\ JointKey(f) = SumOf(c)
           /\ Reconstruct(Recovery, f[Recovery], Server, f[Server]) = SumOf(c)
BY PointsRecover, PartiesDiffer DEF JointKey, Party

\* What a share says at the end of a deal fits it.
LEMMA OutcomeType ==
    ASSUME NEW c \in [Party -> Scalar], NEW m \in [Party -> Scalar], NEW p \in Party,
           NEW deal \in 1..MaxDeals
    PROVE  Outcome(deal, c, m, p) \in Shares
BY PointType DEF Outcome, Shares

-----------------------------------------------------------------------------
(* Inboxes                                                                  *)

\* The message of a sender is one of the inbox.
LEMMA Heard ==
    ASSUME NEW inbox, NEW p \in Senders(inbox)
    PROVE  \E e \in inbox : e.from = p /\ BodyFrom(p, inbox) = e.body
BY DEF Senders, BodyFrom

\* Messages that say what is known leave what is known, and more of it.
LEMMA MergeKeeps ==
    ASSUME NEW S, NEW old \in [Party -> Maybe(S)], NEW v,
           \A q \in Party : old[q] \in {None, v[q]},
           NEW inbox, \A e \in inbox : e.from \in Party /\ e.body = v[e.from] /\ e.body \in Maybe(S)
    PROVE  /\ Merge(old, inbox) \in [Party -> Maybe(S)]
           /\ \A q \in Party : Merge(old, inbox)[q] \in {None, v[q]}
           /\ \A q \in Party \ Senders(inbox) : Merge(old, inbox)[q] = old[q]
           /\ \A q \in Senders(inbox) : q \in Party /\ Merge(old, inbox)[q] = v[q]
<1>1. \A q \in Senders(inbox) : q \in Party /\ BodyFrom(q, inbox) = v[q] /\ v[q] \in Maybe(S)
  BY Heard
<1>2. \A q \in Party : Merge(old, inbox)[q] = IF q \in Senders(inbox) THEN v[q] ELSE old[q]
  BY <1>1 DEF Merge
<1>3. Merge(old, inbox) \in [Party -> Maybe(S)]
  <2>1. \A q \in Party : (IF q \in Senders(inbox) THEN BodyFrom(q, inbox) ELSE old[q]) \in Maybe(S)
    BY <1>1
  <2> QED BY <2>1 DEF Merge
<1> QED BY <1>1, <1>2, <1>3

-----------------------------------------------------------------------------
(* One session of a deal                                                    *)

\* The reply is for the next round of the same party.
Advanced(s, r) ==
    /\ r \in Replies
    /\ r.session.me = s.me
    /\ r.session.round = s.round + 1
    /\ \A e \in r.out : e.from = s.me /\ e.round = s.round + 1

\* The reply keeps to the deal.
Keeps(s, r, deal, expected, c, m) ==
    /\ Advanced(s, r)
    /\ r.session \in DealSessions
    /\ Follows(r.session, deal, expected, c, m)
    /\ \A e \in r.out : Says(e, c, m)

\* An inbox that a session of the deal accepts.
Welcome(s, inbox, c, m) ==
    /\ inbox \subseteq Messages
    /\ \A e \in inbox : Accepts(s, e) /\ e.from # s.me /\ Says(e, c, m)

\* A message is well formed.
LEMMA MessageType ==
    \A round \in 1..3, from \in Party, to \in Party \union {Everyone}, body \in Maybe(Scalar) :
        Message(round, from, to, body) \in Messages
BY DEF Message, Messages

\* What a message holds.
LEMMA MessageFields ==
    \A round, from, to, body :
        LET e == Message(round, from, to, body)
        IN  e.round = round /\ e.from = from /\ e.to = to /\ e.body = body
BY DEF Message

\* The first round of a session.
LEMMA StartStep ==
    ASSUME NEW c \in [Party -> Scalar], NEW m \in [Party -> Scalar], NEW p \in Party,
           NEW deal \in 1..MaxDeals, NEW expected \in Maybe(Scalar)
    PROVE  LET r == StartWith(p, Line(c[p], m[p]), expected, deal)
           IN  /\ r \in Replies /\ r.session \in DealSessions
               /\ r.session.me = p /\ r.session.round = 1
               /\ Follows(r.session, deal, expected, c, m)
               /\ p # Server => Unheard(r.session)
               /\ \A e \in r.out : e.from = p /\ e.round = 1 /\ Says(e, c, m)
               /\ Ready(r.session)
               /\ \A q \in Others(p) : \E e \in r.out : e.from = p /\ e.to = q
<1> DEFINE row == Line(c[p], m[p])
           r == StartWith(p, row, expected, deal)
           t == r.session
           own == [Nobody EXCEPT ![p] = row[p]]
<1>1. \A q \in Party : row[q] \in Scalar
  BY LineTypes
<1>2. /\ own \in [Party -> Maybe(Scalar)] /\ own[p] = row[p]
      /\ \A q \in Party : q # p => own[q] = None
  BY <1>1 DEF Nobody, Maybe
<1>3. Nobody \in [Party -> Maybe(Scalar)] /\ \A q \in Party : Nobody[q] = None
  BY DEF Nobody, Maybe
<1>4. t = [kind |-> "deal", me |-> p, round |-> 1, deal |-> deal,
           expected |-> expected, fragments |-> own,
           proofs |-> Nobody, zero2 |-> {}, private3 |-> {}, bip3 |-> {},
           share |-> None]
  BY DEF StartWith
<1>5. r.out = {Message(1, p, q, row[q]) : q \in Others(p)}
  BY DEF StartWith
<1>6. r = [session |-> t, out |-> r.out]
  BY DEF StartWith
<1> HIDE DEF r, t, own, row
<1>7. t \in DealSessions
  BY <1>2, <1>3, <1>4 DEF DealSessions, Maybe
<1>8. r.out \subseteq Messages
  BY <1>1, <1>5, MessageType DEF Others, Maybe
<1>9. r \in Replies
  BY <1>6, <1>7, <1>8 DEF Replies, Sessions
<1>10. Follows(t, deal, expected, c, m)
  BY <1>1, <1>2, <1>3, <1>4, NoneIsNoValue DEF Follows, row
<1>11. p # Server => Unheard(t)
  BY <1>2, <1>3, <1>4 DEF Unheard, Party
<1>12. \A e \in r.out : e.from = p /\ e.round = 1 /\ Says(e, c, m)
  BY <1>5, MessageFields DEF Says, Others, row
<1>13. \A q \in Others(p) : \E e \in r.out : e.from = p /\ e.to = q
  <2> TAKE q \in Others(p)
  <2>1. Message(1, p, q, row[q]) \in r.out
    BY <1>5
  <2> QED BY <2>1, MessageFields
<1>14. Ready(t)
  BY <1>4 DEF Ready
<1>15. QED
  BY <1>4, <1>7, <1>9, <1>10, <1>11, <1>12, <1>13, <1>14 DEF r, t, row

\* With a message of everybody else the fragments are complete.
LEMMA AllHeard ==
    ASSUME NEW c \in [Party -> Scalar], NEW m \in [Party -> Scalar], NEW deal, NEW expected,
           NEW s \in DealSessions, Follows(s, deal, expected, c, m), s.round = 1,
           NEW inbox, Welcome(s, inbox, c, m), Others(s.me) \subseteq Senders(inbox)
    PROVE  AllFragments(Merge(s.fragments, inbox))
<1> SUFFICES ASSUME NEW q \in Party
             PROVE  Merge(s.fragments, inbox)[q] # None
  BY DEF AllFragments
<1>1. s.me \in Party
  BY DEF DealSessions
<1>2. \A e \in inbox : e.body # None
  <2> SUFFICES ASSUME NEW e \in inbox PROVE e.body # None
    OBVIOUS
  <2>1. e.from \in Party /\ e.round = 1 /\ e.to \in {s.me, Everyone} /\ Says(e, c, m)
    BY DEF Welcome, Accepts, Messages
  <2>2. e.to = s.me /\ e.body = Line(c[e.from], m[e.from])[e.to]
    BY <2>1, EveryoneIsNoParty DEF Says
  <2> QED BY <2>1, <2>2, <1>1, PointType, NoneIsNoValue
<1>3. CASE q \in Senders(inbox)
  BY <1>2, <1>3, Heard DEF Merge
<1>4. CASE q \notin Senders(inbox)
  BY <1>4 DEF Merge, Others, Follows
<1>5. QED
  BY <1>3, <1>4

\* The second round adds up the fragments.
LEMMA Round2Step ==
    ASSUME NEW c \in [Party -> Scalar], NEW m \in [Party -> Scalar],
           NEW deal \in 1..MaxDeals, NEW expected \in Maybe(Scalar),
           NEW s \in DealSessions, Follows(s, deal, expected, c, m), s.round = 1,
           NEW inbox, Welcome(s, inbox, c, m), AllFragments(Merge(s.fragments, inbox))
    PROVE  LET r == Round2(s, inbox)
           IN  /\ Keeps(s, r, deal, expected, c, m)
               /\ Ready(s) => Ready(r.session)
               /\ \A q \in Others(s.me) : \E e \in r.out : e.from = s.me /\ e.to = q
               /\ \E e \in r.out : e.from = s.me /\ e.to = Everyone
<1> DEFINE r == Round2(s, inbox)
           t == r.session
           v == [q \in Party |-> Line(c[q], m[q])[s.me]]
           f == Merge(s.fragments, inbox)
           point == SumOf(f)
           g == [s.proofs EXCEPT ![s.me] = point]
<1>1. s.me \in Party /\ s.fragments \in [Party -> Maybe(Scalar)] /\ s.proofs \in [Party -> Maybe(Scalar)]
  BY DEF DealSessions
<1>2. v \in [Party -> Scalar] /\ \A q \in Party : v[q] = Line(c[q], m[q])[s.me]
  BY <1>1, PointType
<1>3. \A e \in inbox : e.from \in Party /\ e.to = s.me /\ e.body = v[e.from] /\ e.body \in Maybe(Scalar)
  <2> SUFFICES ASSUME NEW e \in inbox
               PROVE  e.from \in Party /\ e.to = s.me /\ e.body = v[e.from] /\ e.body \in Maybe(Scalar)
    OBVIOUS
  <2>1. e.from \in Party /\ e.round = 1 /\ e.to \in {s.me, Everyone} /\ Says(e, c, m)
    BY DEF Welcome, Accepts, Messages
  <2>2. e.to = s.me /\ e.body = Line(c[e.from], m[e.from])[e.to]
    BY <2>1, EveryoneIsNoParty DEF Says
  <2> QED BY <2>1, <2>2, <1>2 DEF Maybe
<1>4. \A q \in Party : s.fragments[q] \in {None, v[q]}
  BY <1>2 DEF Follows
<1> HIDE DEF v
<1>5. f \in [Party -> Maybe(Scalar)] /\ \A q \in Party : f[q] \in {None, v[q]}
  BY <1>1, <1>3, <1>4, MergeKeeps
<1>6. AllFragments(f)
  OBVIOUS
<1>7. point = Point(c, m, s.me) /\ point \in Scalar
  <2>1. \A q \in Party : f[q] = Line(c[q], m[q])[s.me]
    BY <1>2, <1>5, <1>6 DEF AllFragments
  <2> HIDE DEF f
  <2>2. SumOf(f) = Point(c, m, s.me)
    BY <2>1, <1>1, SumOfLines
  <2> QED BY <2>2, <1>1, PointType
<1>8. /\ t = [s EXCEPT !.round = 2, !.fragments = f, !.proofs = g]
      /\ r.out = {Message(2, s.me, Everyone, point)} \union
                 {Message(2, s.me, p, None) : p \in Others(s.me)}
      /\ r = [session |-> t, out |-> r.out]
  BY <1>1, <1>6 DEF Round2, DealSessions
<1> HIDE DEF r, t, f, point
<1>9. /\ g \in [Party -> Maybe(Scalar)] /\ g[s.me] = point
      /\ \A q \in Party : q # s.me => g[q] = s.proofs[q]
  BY <1>1, <1>7 DEF Maybe
<1> HIDE DEF g
<1>10. /\ t \in DealSessions /\ t.kind = s.kind /\ t.me = s.me /\ t.round = 2 /\ t.deal = s.deal
       /\ t.expected = s.expected /\ t.fragments = f /\ t.proofs = g
       /\ t.zero2 = s.zero2 /\ t.private3 = s.private3
  <2> DEFINE S(d) == [s EXCEPT !.round = d, !.fragments = f, !.proofs = g]
  <2>1. \A d \in 1..4 : S(d) \in DealSessions
    BY <1>5, <1>9 DEF DealSessions
  <2>2. t = S(2)
    BY <1>8
  <2>3. t \in DealSessions
    BY <2>1, <2>2
  <2> QED BY <2>3, <1>8 DEF DealSessions
<1>11. r.out \subseteq Messages
  <2>1. Message(2, s.me, Everyone, point) \in Messages
    <3>1. point \in Maybe(Scalar) /\ Everyone \in Party \union {Everyone} /\ 2 \in 1..3
      BY <1>7 DEF Maybe
    <3> QED BY <3>1, <1>1, MessageType
  <2>2. \A p \in Others(s.me) : Message(2, s.me, p, None) \in Messages
    BY <1>1, MessageType DEF Maybe, Others
  <2> QED BY <1>8, <2>1, <2>2
<1>12. r \in Replies
  BY <1>8, <1>10, <1>11 DEF Replies, Sessions
<1>13. Follows(t, deal, expected, c, m)
  BY <1>1, <1>2, <1>5, <1>6, <1>7, <1>9, <1>10 DEF Follows, AllFragments
<1>14. \A e \in r.out : e.from = s.me /\ e.round = 2 /\ Says(e, c, m)
  BY <1>1, <1>7, <1>8, EveryoneIsNoParty, MessageFields DEF Says, Others
<1>15. /\ \A q \in Others(s.me) : \E e \in r.out : e.from = s.me /\ e.to = q
       /\ \E e \in r.out : e.from = s.me /\ e.to = Everyone
  <2>1. /\ Message(2, s.me, Everyone, point) \in r.out
        /\ \A q \in Others(s.me) : Message(2, s.me, q, None) \in r.out
    BY <1>8
  <2> QED BY <2>1, MessageFields
<1>16. Ready(s) => Ready(t)
  BY <1>7, <1>9, <1>10, NoneIsNoValue DEF Ready
<1>17. QED
  BY <1>10, <1>12, <1>13, <1>14, <1>15, <1>16 DEF Keeps, Advanced, r, t

\* The third round collects the points.
LEMMA Round3Step ==
    ASSUME NEW c \in [Party -> Scalar], NEW m \in [Party -> Scalar],
           NEW deal \in 1..MaxDeals, NEW expected \in Maybe(Scalar),
           NEW s \in DealSessions, Follows(s, deal, expected, c, m), s.round = 2,
           NEW inbox, Welcome(s, inbox, c, m)
    PROVE  LET r == Round3(s, inbox)
           IN  /\ Keeps(s, r, deal, expected, c, m)
               /\ r # Refused
               /\ Ready(s) /\ Others(s.me) \subseteq Senders(Public(inbox))
                           /\ Others(s.me) \subseteq Senders(Private(inbox)) => Ready(r.session)
               /\ \A q \in Others(s.me) : \E e \in r.out : e.from = s.me /\ e.to = q
               /\ \E e \in r.out : e.from = s.me /\ e.to = Everyone
<1> DEFINE r == Round3(s, inbox)
           t == r.session
           v == [q \in Party |-> Point(c, m, q)]
           g == Merge(s.proofs, Public(inbox))
           z == s.zero2 \union Senders(Private(inbox))
           b == {s.me}
<1>1. /\ s.me \in Party /\ s.proofs \in [Party -> Maybe(Scalar)] /\ s.zero2 \subseteq Party
  BY DEF DealSessions
<1>2. v \in [Party -> Scalar] /\ \A q \in Party : v[q] = Point(c, m, q)
  BY PointType
<1> HIDE DEF v
<1>3. \A e \in Public(inbox) :
         e.from \in Party /\ e.body = v[e.from] /\ e.body \in Maybe(Scalar)
  <2> SUFFICES ASSUME NEW e \in Public(inbox)
               PROVE  e.from \in Party /\ e.body = v[e.from] /\ e.body \in Maybe(Scalar)
    OBVIOUS
  <2>1. e \in inbox /\ e.to = Everyone
    BY DEF Public
  <2>2. e.from \in Party /\ e.round = 2 /\ Says(e, c, m)
    BY <2>1 DEF Welcome, Accepts, Messages
  <2>3. e.body = Point(c, m, e.from)
    BY <2>1, <2>2 DEF Says
  <2> QED BY <2>2, <2>3, <1>2 DEF Maybe
<1>4. \A q \in Party : s.proofs[q] \in {None, v[q]}
  BY <1>2 DEF Follows
<1>5. /\ g \in [Party -> Maybe(Scalar)] /\ \A q \in Party : g[q] \in {None, v[q]}
      /\ \A q \in Party \ Senders(Public(inbox)) : g[q] = s.proofs[q]
      /\ \A q \in Senders(Public(inbox)) : q \in Party /\ g[q] = v[q]
  BY <1>1, <1>3, <1>4, MergeKeeps
<1>6. z \subseteq Party /\ Senders(Private(inbox)) \subseteq Others(s.me)
  <2>1. \A e \in inbox : e.from \in Party /\ e.from # s.me
    BY DEF Welcome, Messages
  <2> QED BY <1>1, <2>1 DEF Senders, Private, Others
<1>7. /\ t = [s EXCEPT !.round = 3, !.proofs = g, !.zero2 = z, !.bip3 = b]
      /\ r.out = {Message(3, s.me, Everyone, None)} \union
                 {Message(3, s.me, p, None) : p \in Others(s.me)}
      /\ r = [session |-> t, out |-> r.out]
  BY <1>1 DEF Round3, DealSessions
<1>8. z = s.zero2 \union Senders(Private(inbox)) /\ b = {s.me}
  OBVIOUS
<1> HIDE DEF r, t, g, z, b
<1>9. /\ t \in DealSessions /\ t.kind = s.kind /\ t.me = s.me /\ t.round = 3 /\ t.deal = s.deal
      /\ t.expected = s.expected /\ t.fragments = s.fragments /\ t.proofs = g
      /\ t.zero2 = z /\ t.private3 = s.private3 /\ t.bip3 = b
  <2> DEFINE S(d) == [s EXCEPT !.round = d, !.proofs = g, !.zero2 = z, !.bip3 = b]
  <2>1. \A d \in 1..4 : S(d) \in DealSessions
    BY <1>1, <1>5, <1>6, <1>8 DEF DealSessions
  <2>2. t = S(3)
    BY <1>7
  <2>3. t \in DealSessions
    BY <2>1, <2>2
  <2> QED BY <2>3, <1>7 DEF DealSessions
<1>10. r.out \subseteq Messages
  <2>1. None \in Maybe(Scalar) /\ Everyone \in Party \union {Everyone} /\ 3 \in 1..3
    BY DEF Maybe
  <2>2. Message(3, s.me, Everyone, None) \in Messages
    BY <1>1, <2>1, MessageType
  <2>3. \A p \in Others(s.me) : Message(3, s.me, p, None) \in Messages
    BY <1>1, <2>1, MessageType DEF Others
  <2> QED BY <1>7, <2>2, <2>3
<1>11. r \in Replies
  BY <1>7, <1>9, <1>10 DEF Replies, Sessions
<1>12. Follows(t, deal, expected, c, m)
  BY <1>2, <1>5, <1>9 DEF Follows, AllFragments
<1>13. \A e \in r.out : e.from = s.me /\ e.round = 3 /\ Says(e, c, m)
  BY <1>7, MessageFields DEF Says
<1>14. /\ \A q \in Others(s.me) : \E e \in r.out : e.from = s.me /\ e.to = q
       /\ \E e \in r.out : e.from = s.me /\ e.to = Everyone
  <2>1. /\ Message(3, s.me, Everyone, None) \in r.out
        /\ \A q \in Others(s.me) : Message(3, s.me, q, None) \in r.out
    BY <1>7
  <2> QED BY <2>1, MessageFields
<1>15. ASSUME Ready(s), Others(s.me) \subseteq Senders(Public(inbox)),
              Others(s.me) \subseteq Senders(Private(inbox))
       PROVE  Ready(t)
  <2>1. \A q \in Others(s.me) : g[q] # None
    BY <1>2, <1>5, <1>15, NoneIsNoValue
  <2>2. g[s.me] # None
    BY <1>1, <1>2, <1>5, <1>15, NoneIsNoValue DEF Ready
  <2>3. z = Others(s.me)
    BY <1>6, <1>8, <1>15 DEF Ready
  <2> QED BY <2>1, <2>2, <2>3, <1>8, <1>9, <1>15 DEF Ready, Others
<1>16. r # Refused
  BY <1>11, NoneIsNoValue DEF Refused
<1>17. QED
  BY <1>9, <1>11, <1>12, <1>13, <1>14, <1>15, <1>16 DEF Keeps, Advanced, r, t

\* The last round gives the share.
LEMMA Round4Step ==
    ASSUME NEW c \in [Party -> Scalar], NEW m \in [Party -> Scalar],
           NEW deal \in 1..MaxDeals, NEW expected \in Maybe(Scalar),
           NEW s \in DealSessions, Follows(s, deal, expected, c, m), s.round = 3,
           NEW inbox, Welcome(s, inbox, c, m)
    PROVE  LET r == Round4(s, inbox)
           IN  /\ r # Refused => Keeps(s, r, deal, expected, c, m) /\ r.out = {}
               /\ /\ Ready(s)
                  /\ Others(s.me) \subseteq Senders(Public(inbox))
                  /\ Others(s.me) \subseteq Senders(Private(inbox))
                  /\ expected \in {None, SumOf(c)}
                  => r # Refused
<1> DEFINE r == Round4(s, inbox)
           b == s.bip3 \union Senders(Public(inbox))
           h == s.private3 \union Senders(Private(inbox))
           heard == [s EXCEPT !.bip3 = b, !.private3 = h]
           share == Outcome(deal, c, m, s.me)
           t == [heard EXCEPT !.round = 4, !.share = share]
<1>1. /\ s.me \in Party /\ s.proofs \in [Party -> Maybe(Scalar)]
      /\ s.fragments \in [Party -> Maybe(Scalar)]
      /\ s.bip3 \subseteq Party /\ s.private3 \subseteq Party
  BY DEF DealSessions
<1>2. b \subseteq Party /\ Senders(Public(inbox)) \subseteq Others(s.me)
      /\ h \subseteq Party /\ Senders(Private(inbox)) \subseteq Others(s.me)
  <2>1. \A e \in inbox : e.from \in Party /\ e.from # s.me
    BY DEF Welcome, Messages
  <2> QED BY <1>1, <2>1 DEF Senders, Private, Public, Others
<1>3. b = s.bip3 \union Senders(Public(inbox)) /\ h = s.private3 \union Senders(Private(inbox))
  OBVIOUS
<1>4. r = IF /\ \A p \in Party : heard.proofs[p] # None
             /\ Phase4Accepts(heard) /\ KeyIsExpected(heard)
          THEN [session |->
                  [heard EXCEPT !.round = 4,
                     !.share = [party |-> s.me, point |-> SumOf(s.fragments),
                                deal |-> s.deal, key |-> JointKey(heard.proofs)]],
                out |-> {}]
          ELSE Refused
  BY <1>1 DEF Round4, DealSessions
<1> HIDE DEF r, b, h
<1>5. /\ heard \in DealSessions /\ heard.me = s.me /\ heard.proofs = s.proofs
      /\ heard.zero2 = s.zero2 /\ heard.private3 = h /\ heard.bip3 = b
      /\ heard.expected = expected
  BY <1>2, <1>1 DEF DealSessions, Follows
<1>6. SumOf(s.fragments) = Point(c, m, s.me)
  <2>1. \A q \in Party : s.fragments[q] = Line(c[q], m[q])[s.me]
    BY DEF Follows, AllFragments
  <2> QED BY <2>1, <1>1, SumOfLines
<1>7. ASSUME \A p \in Party : s.proofs[p] # None
      PROVE  /\ JointKey(s.proofs) = SumOf(c)
             /\ JointKey(s.proofs)
                  = Reconstruct(Recovery, s.proofs[Recovery], Server, s.proofs[Server])
  <2>1. \A q \in Party : s.proofs[q] = Point(c, m, q)
    BY <1>7 DEF Follows
  <2> QED BY <2>1, OneKey
<1>8. ASSUME r # Refused
      PROVE  Keeps(s, r, deal, expected, c, m) /\ r.out = {}
  <2>1. /\ \A p \in Party : s.proofs[p] # None
        /\ KeyIsExpected(heard)
    BY <1>4, <1>5, <1>8
  <2>2. JointKey(s.proofs) = SumOf(c) /\ expected \in {None, SumOf(c)}
    BY <2>1, <1>5, <1>7 DEF KeyIsExpected
  <2>3. [party |-> s.me, point |-> SumOf(s.fragments),
         deal |-> s.deal, key |-> JointKey(heard.proofs)] = share
    BY <2>2, <1>5, <1>6 DEF Outcome, Follows
  <2> HIDE DEF heard, share
  <2>4. r = [session |-> t, out |-> {}]
    BY <2>3, <1>4, <1>8
  <2> USE DEF heard
  <2>5. share \in Maybe(Shares)
    BY <1>1, OutcomeType DEF Maybe, share
  <2>6. t = [s EXCEPT !.bip3 = b, !.private3 = h, !.round = 4, !.share = share]
    BY DEF DealSessions
  <2> HIDE DEF t
  <2>7. /\ t \in DealSessions /\ t.kind = s.kind /\ t.me = s.me /\ t.round = 4 /\ t.deal = s.deal
        /\ t.expected = s.expected /\ t.fragments = s.fragments /\ t.proofs = s.proofs
        /\ t.share = share
    <3> DEFINE S(d) == [s EXCEPT !.bip3 = b, !.private3 = h, !.round = d, !.share = share]
    <3>1. \A d \in 1..4 : S(d) \in DealSessions
      BY <1>2, <2>5 DEF DealSessions
    <3>2. t = S(4)
      BY <2>6
    <3>3. t \in DealSessions
      BY <3>1, <3>2
    <3> QED BY <3>3, <2>6 DEF DealSessions
  <2>8. Follows(t, deal, expected, c, m)
    BY <2>2, <2>7 DEF Follows, AllFragments, share
  <2>9. r \in Replies /\ r.out = {} /\ r.session = t
    BY <2>4, <2>7 DEF Replies, Sessions
  <2> QED BY <2>7, <2>8, <2>9 DEF Keeps, Advanced
<1>9. ASSUME Ready(s),
             Others(s.me) \subseteq Senders(Public(inbox)),
             Others(s.me) \subseteq Senders(Private(inbox)),
             expected \in {None, SumOf(c)}
      PROVE  r # Refused
  <2>1. (\A p \in Party : s.proofs[p] # None) /\ s.zero2 = Others(s.me) /\ s.bip3 = {s.me}
        /\ s.private3 = {}
    BY <1>9 DEF Ready
  <2>2. b = Party /\ h = Others(s.me)
    BY <2>1, <1>1, <1>2, <1>3, <1>9 DEF Others
  <2>3. Phase4Accepts(heard) /\ KeyIsExpected(heard)
    BY <2>1, <2>2, <1>5, <1>7, <1>9 DEF Phase4Accepts, KeyIsExpected
  <2> DEFINE u == [heard EXCEPT !.round = 4,
                     !.share = [party |-> s.me, point |-> SumOf(s.fragments),
                                deal |-> s.deal, key |-> JointKey(heard.proofs)]]
  <2>4. r = [session |-> u, out |-> {}]
    BY <2>1, <2>3, <1>4, <1>5
  <2>5. u \in DealSessions
    <3>1. [party |-> s.me, point |-> SumOf(s.fragments),
           deal |-> s.deal, key |-> JointKey(heard.proofs)] = share
      BY <2>1, <1>5, <1>6, <1>7 DEF Outcome, Follows
    <3>2. share \in Maybe(Shares)
      BY <1>1, OutcomeType DEF Maybe
    <3> HIDE DEF share, heard
    <3>3. u = [heard EXCEPT !.round = 4, !.share = share]
      BY <3>1
    <3> HIDE DEF u
    <3> DEFINE S(d) == [heard EXCEPT !.round = d, !.share = share]
    <3>4. \A d \in 1..4 : S(d) \in DealSessions
      BY <3>2, <1>5 DEF DealSessions
    <3>5. u = S(4)
      BY <3>3
    <3> QED BY <3>4, <3>5
  <2> HIDE DEF u
  <2>6. r \in Replies
    BY <2>4, <2>5 DEF Replies, Sessions
  <2> QED BY <2>6, NoneIsNoValue DEF Refused
<1>10. QED
  BY <1>8, <1>9 DEF r

\* An inbox with all that a round needs.
Served(s, inbox) ==
    /\ \A e \in inbox : Accepts(s, e)
    /\ Others(s.me) \subseteq Senders(Private(inbox))
    /\ s.round # 1 => Others(s.me) \subseteq Senders(Public(inbox))

\* The messages are for all that the next round of the others needs.
Speaks(s, r) ==
    s.round # 3 =>
        /\ \A q \in Others(s.me) : \E e \in r.out : e.from = s.me /\ e.to = q
        /\ \E e \in r.out : e.from = s.me /\ e.to = Everyone

\* A session that hears what was dealt goes on with it; with all that its
\* round needs it does not fail.
LEMMA DealAdvance ==
    ASSUME NEW c \in [Party -> Scalar], NEW m \in [Party -> Scalar],
           NEW deal \in 1..MaxDeals, NEW expected \in Maybe(Scalar),
           NEW s \in DealSessions, Follows(s, deal, expected, c, m),
           NEW inbox, inbox \subseteq Messages,
           \A e \in inbox : e.from # s.me /\ Says(e, c, m)
    PROVE  LET r == Advance(s, inbox)
           IN  /\ r # Refused => Keeps(s, r, deal, expected, c, m) /\ Speaks(s, r)
                                 /\ s.round \in 1..3 /\ (s.round = 3 => r.out = {})
               /\ /\ Ready(s) /\ Served(s, inbox) /\ s.round # 4
                  /\ s.round = 3 => expected \in {None, SumOf(c)}
                  => r # Refused /\ Ready(r.session)
<1> DEFINE r == Advance(s, inbox)
<1>1. s.kind = "deal" /\ s.round \in 1..4
  BY DEF DealSessions
<1>2. CASE \E e \in inbox : ~ Accepts(s, e)
  BY <1>2 DEF Advance, Served
<1>3. CASE ~ \E e \in inbox : ~ Accepts(s, e)
  <2>1. Welcome(s, inbox, c, m)
    BY <1>3 DEF Welcome
  <2>2. CASE s.round = 1
    <3>1. r = Round2(s, inbox)
      BY <2>2, <1>1, <1>3 DEF Advance
    <3>2. CASE AllFragments(Merge(s.fragments, inbox))
      <4>1. Keeps(s, r, deal, expected, c, m) /\ (Ready(s) => Ready(r.session)) /\ Speaks(s, r)
        BY <3>1, <3>2, <2>1, <2>2, Round2Step DEF Speaks
      <4>2. r # Refused
        BY <4>1, NoneIsNoValue DEF Keeps, Advanced, Refused
      <4> QED BY <4>1, <4>2, <2>2
    <3>3. CASE ~ AllFragments(Merge(s.fragments, inbox))
      <4>1. r = Refused
        BY <3>1, <3>3 DEF Round2
      <4>2. Served(s, inbox) => Others(s.me) \subseteq Senders(inbox)
        BY DEF Served, Senders, Private
      <4>3. ~ Served(s, inbox)
        BY <4>2, <3>3, <2>1, <2>2, AllHeard
      <4> QED BY <4>1, <4>3
    <3> QED BY <3>2, <3>3
  <2>3. CASE s.round = 2
    <3>1. r = Round3(s, inbox)
      BY <2>3, <1>1, <1>3 DEF Advance
    <3> HIDE DEF r
    <3>2. Keeps(s, r, deal, expected, c, m) /\ r # Refused /\ Speaks(s, r)
      <4>1. Keeps(s, r, deal, expected, c, m) /\ r # Refused
        BY <3>1, <2>1, <2>3, Round3Step
      <4>2. Speaks(s, r)
        BY <3>1, <2>1, <2>3, Round3Step DEF Speaks
      <4> QED BY <4>1, <4>2
    <3>3. Ready(s) /\ Served(s, inbox) => Ready(r.session)
      BY <3>1, <2>1, <2>3, Round3Step DEF Served
    <3> QED BY <3>2, <3>3, <2>3 DEF r
  <2>4. CASE s.round = 3
    <3>1. r = Round4(s, inbox)
      BY <2>4, <1>1, <1>3 DEF Advance
    <3>2. r # Refused => Keeps(s, r, deal, expected, c, m) /\ Speaks(s, r) /\ r.out = {}
      BY <3>1, <2>1, <2>4, Round4Step DEF Speaks
    <3>3. Ready(s) /\ Served(s, inbox) /\ expected \in {None, SumOf(c)} => r # Refused
      BY <3>1, <2>1, <2>4, Round4Step DEF Served
    <3>4. r # Refused => Ready(r.session)
      BY <3>2, <2>4 DEF Keeps, Advanced, Ready
    <3> QED BY <3>2, <3>3, <3>4, <2>4
  <2>5. CASE s.round = 4
    <3>1. r = Refused
      BY <2>5, <1>1, <1>3 DEF Advance
    <3> QED BY <3>1, <2>5
  <2> QED BY <1>1, <2>2, <2>3, <2>4, <2>5
<1> QED BY <1>2, <1>3

-----------------------------------------------------------------------------
(* One session of a signature                                               *)

\* The reply keeps to the shares.
Stands(s, r, pair, d) ==
    /\ Advanced(s, r)
    /\ r.session \in SignSessions
    /\ Signs(r.session, pair, d)
    /\ \A e \in r.out : Tells(e, pair, d)
    /\ s.round # 3 => \E e \in r.out : e.from = s.me /\ e.to \in {s.with, Everyone}
    /\ s.round = 3 => r.out = {}

\* The first round of a signature.
SignStarts(r, x, y, d) ==
    /\ r \in Replies /\ r.session \in SignSessions
    /\ r.session.me = x /\ r.session.round = 1
    /\ Signs(r.session, {x, y}, d)
    /\ \A e \in r.out : e.from = x /\ e.round = 1 /\ Tells(e, {x, y}, d)
    /\ \E e \in r.out : e.from = x /\ e.to = y

\* A party starts to sign with its share.
LEMMA StartSignStep ==
    ASSUME NEW d \in [Party -> 1..MaxDeals], NEW x \in Party, NEW y \in Party, x # y,
           NEW held \in Shares, held.deal = d[x]
    PROVE  SignStarts(StartSign(held, x, y), x, y, d)
<1> DEFINE r == StartSign(held, x, y)
           t == r.session
<1>1. /\ t = [kind |-> "sign", me |-> x, with |-> y, round |-> 1, held |-> held, broadcasts |-> {}]
      /\ r.out = {Message(1, x, y, held.deal)}
      /\ r = [session |-> t, out |-> r.out]
  BY DEF StartSign
<1> HIDE DEF r, t
<1>2. t \in SignSessions
  BY <1>1 DEF SignSessions
<1>3. r.out \subseteq Messages
  BY <1>1 DEF Message, Messages
<1>4. r \in Replies
  BY <1>1, <1>2, <1>3 DEF Replies, Sessions
<1>5. Signs(t, {x, y}, d)
  BY <1>1 DEF Signs
<1>6. \A e \in r.out : e.from = x /\ e.to = y /\ e.round = 1 /\ e.body = d[x]
  BY <1>1, MessageFields
<1>7. \E e \in r.out : e.from = x /\ e.to = y
  BY <1>1, <1>6
<1>8. \A e \in r.out : Tells(e, {x, y}, d)
  BY <1>6 DEF Tells
<1>9. t.me = x /\ t.round = 1
  BY <1>1
<1>10. QED
  BY <1>2, <1>4, <1>5, <1>6, <1>7, <1>8, <1>9 DEF SignStarts, r, t

\* A later round of it: the same session but for the round and what it heard.
NextSign(s, heard, to) ==
    [session |-> [s EXCEPT !.round = s.round + 1, !.broadcasts = heard],
     out |-> IF s.round = 3 THEN {} ELSE {Message(s.round + 1, s.me, to, s.held.deal)}]

\* It keeps to the shares.
LEMMA SignReply ==
    ASSUME NEW d \in [Party -> 1..MaxDeals], NEW x \in Party, NEW y \in Party, x # y,
           NEW s \in SignSessions, Signs(s, {x, y}, d), s.round \in 1..3,
           NEW heard, heard \subseteq 1..MaxDeals,
           NEW to, to \in {s.with, Everyone},
           s.round = 3 => d[x] = d[y]
    PROVE  LET r == NextSign(s, heard, to)
           IN  Stands(s, r, {x, y}, d) /\ r # Refused
<1> DEFINE r == NextSign(s, heard, to)
           t == r.session
<1>1. /\ s.me \in Party /\ s.with \in Party /\ s.with # s.me /\ s.held \in Shares
      /\ s.me \in {x, y} /\ s.with \in {x, y} /\ s.held.deal = d[s.me]
      /\ d[s.me] \in 1..MaxDeals
  BY DEF SignSessions, Signs
<1>2. /\ t = [s EXCEPT !.round = s.round + 1, !.broadcasts = heard]
      /\ r.out = IF s.round = 3 THEN {} ELSE {Message(s.round + 1, s.me, to, s.held.deal)}
      /\ r = [session |-> t, out |-> r.out]
  BY DEF NextSign
<1> HIDE DEF r, t
<1>3. /\ t \in SignSessions /\ t.kind = s.kind /\ t.me = s.me /\ t.with = s.with
      /\ t.round = s.round + 1 /\ t.held = s.held
  <2> DEFINE S(n) == [s EXCEPT !.round = n, !.broadcasts = heard]
  <2>1. \A n \in 1..4 : S(n) \in SignSessions
    BY DEF SignSessions
  <2>2. s.round + 1 \in 1..4 /\ t = S(s.round + 1)
    BY <1>2
  <2>3. t \in SignSessions
    BY <2>1, <2>2
  <2> QED BY <2>3, <1>2 DEF SignSessions
<1>4. Signs(t, {x, y}, d)
  BY <1>1, <1>3 DEF Signs
<1>5. s.round # 3 => s.round + 1 \in 1..3
  OBVIOUS
<1>6. \A e \in r.out : /\ s.round # 3 /\ e.from = s.me /\ e.round = s.round + 1 /\ e.to = to
                       /\ e.body = d[s.me]
  BY <1>1, <1>2, MessageFields
<1>7. r.out \subseteq Messages
  <2>1. CASE s.round = 3
    BY <2>1, <1>2
  <2>2. CASE s.round # 3
    <3>1. to \in Party \union {Everyone} /\ s.held.deal \in Maybe(Scalar) \union (1..MaxDeals)
      BY <1>1
    <3>2. Message(s.round + 1, s.me, to, s.held.deal) \in Messages
      BY <3>1, <2>2, <1>1, <1>5 DEF Message, Messages
    <3> QED BY <3>2, <2>2, <1>2
  <2> QED BY <2>1, <2>2
<1>8. r \in Replies
  BY <1>2, <1>3, <1>7 DEF Replies, Sessions
<1>9. \A e \in r.out : Tells(e, {x, y}, d)
  BY <1>1, <1>6 DEF Tells
<1>10. s.round # 3 => \E e \in r.out : e.from = s.me /\ e.to \in {s.with, Everyone}
  <2> SUFFICES ASSUME s.round # 3
               PROVE  \E e \in r.out : e.from = s.me /\ e.to \in {s.with, Everyone}
    OBVIOUS
  <2>1. Message(s.round + 1, s.me, to, s.held.deal) \in r.out
    BY <1>2
  <2> QED BY <2>1, MessageFields
<1>11. s.round = 3 => r.out = {}
  BY <1>2
<1>12. r # Refused
  BY <1>8, NoneIsNoValue DEF Refused
<1>13. Advanced(s, r)
  BY <1>3, <1>6, <1>8 DEF Advanced, t
<1>14. QED
  BY <1>3, <1>4, <1>9, <1>10, <1>11, <1>12, <1>13 DEF Stands, r, t

\* A session that hears the deals of the shares fails only if they differ or
\* the other party is silent.
LEMMA SignAdvance ==
    ASSUME NEW d \in [Party -> 1..MaxDeals], NEW x \in Party, NEW y \in Party, x # y,
           NEW s \in SignSessions, Signs(s, {x, y}, d),
           NEW inbox, inbox \subseteq Messages,
           \A e \in inbox : e.from # s.me /\ Tells(e, {x, y}, d)
    PROVE  LET r == Advance(s, inbox)
           IN  /\ r # Refused => Stands(s, r, {x, y}, d) /\ s.round \in 1..3
               /\ /\ d[x] = d[y] /\ inbox # {} /\ s.round # 4
                  /\ \A e \in inbox : Accepts(s, e)
                  => r # Refused
<1> DEFINE r == Advance(s, inbox)
           bodies == {e.body : e \in inbox}
<1>1. /\ s.kind = "sign" /\ s.round \in 1..4 /\ s.me \in {x, y} /\ s.with \in {x, y}
      /\ s.with # s.me /\ s.held.deal = d[s.me] /\ s.held.deal \in 1..MaxDeals
      /\ s.broadcasts \subseteq 1..MaxDeals
  BY DEF SignSessions, Signs, Shares
<1>2. \A e \in inbox : e.body = d[s.with]
  BY <1>1 DEF Tells
<1>3. d[x] = d[y] <=> d[s.me] = d[s.with]
  BY <1>1
<1>4. inbox # {} => bodies = {d[s.with]}
  BY <1>2
<1>5. bodies = {s.held.deal} => d[x] = d[y]
  <2>1. bodies = {s.held.deal} => inbox # {}
    OBVIOUS
  <2> QED BY <2>1, <1>1, <1>3, <1>4
<1>6. d[x] = d[y] /\ inbox # {} => bodies = {s.held.deal}
  BY <1>1, <1>3, <1>4
<1>7. Phase3Accepts(s, inbox) <=> bodies = {s.held.deal}
  BY DEF Phase3Accepts
<1>8. bodies = {s.held.deal} => bodies \subseteq 1..MaxDeals
  BY <1>1
<1> HIDE DEF bodies
<1>9. ASSUME NEW heard, heard \subseteq 1..MaxDeals, NEW to \in {s.with, Everyone},
              s.round \in 1..3, s.round = 3 => d[x] = d[y]
       PROVE  Stands(s, NextSign(s, heard, to), {x, y}, d) /\ NextSign(s, heard, to) # Refused
  BY <1>9, SignReply
<1>10. CASE \E e \in inbox : ~ Accepts(s, e)
  BY <1>10 DEF Advance
<1>11. CASE ~ \E e \in inbox : ~ Accepts(s, e)
  <2>1. CASE s.round = 1
    <3>1. r = SignRound2(s, inbox)
      BY <2>1, <1>1, <1>11 DEF Advance
    <3>2. [s EXCEPT !.round = 2] = [s EXCEPT !.round = 2, !.broadcasts = s.broadcasts]
      BY DEF SignSessions
    <3>3. r = NextSign(s, s.broadcasts, s.with)
      <4>1. s.round + 1 = 2 /\ s.round # 3
        BY <2>1
      <4> QED BY <4>1, <3>1, <3>2 DEF SignRound2, NextSign
    <3> HIDE DEF r
    <3>4. LET n == NextSign(s, s.broadcasts, s.with) IN Stands(s, n, {x, y}, d) /\ n # Refused
      BY <2>1, <1>1, <1>9
    <3> QED BY <3>3, <3>4, <2>1 DEF r
  <2>2. CASE s.round = 2
    <3>1. r = SignRound3(s, inbox)
      BY <2>2, <1>1, <1>11 DEF Advance
    <3>2. CASE ~ Phase3Accepts(s, inbox)
      BY <3>1, <3>2, <1>6, <1>7 DEF SignRound3
    <3>3. CASE Phase3Accepts(s, inbox)
      <4> DEFINE heard == {s.held.deal}
      <4>1. r = NextSign(s, heard, Everyone)
        BY <3>1, <3>3, <2>2 DEF SignRound3, NextSign
      <4>2. heard \subseteq 1..MaxDeals
        BY <1>1
      <4> HIDE DEF r, heard
      <4>3. Everyone \in {s.with, Everyone} /\ s.round \in 1..3
            /\ (s.round = 3 => d[x] = d[y])
        BY <2>2
      <4>4. /\ Stands(s, NextSign(s, heard, Everyone), {x, y}, d)
            /\ NextSign(s, heard, Everyone) # Refused
        BY <4>2, <4>3, <1>9
      <4> QED BY <4>1, <4>4, <2>2 DEF r
    <3> QED BY <3>2, <3>3
  <2>3. CASE s.round = 3
    <3>1. r = SignRound4(s, inbox)
      BY <2>3, <1>1, <1>11 DEF Advance
    <3>2. CASE inbox = {} \/ ~ Phase3Accepts(s, inbox)
      BY <3>1, <3>2, <1>6, <1>7 DEF SignRound4
    <3>3. CASE ~ (inbox = {} \/ ~ Phase3Accepts(s, inbox))
      <4> DEFINE heard == s.broadcasts \union bodies
      <4>1. r = NextSign(s, heard, s.with)
        BY <3>1, <3>3, <2>3 DEF SignRound4, NextSign, SignSessions, bodies
      <4>2. heard \subseteq 1..MaxDeals
        BY <1>1, <1>7, <1>8, <3>3
      <4> HIDE DEF r, heard
      <4>3. d[x] = d[y]
        BY <1>5, <1>7, <3>3
      <4>4. LET n == NextSign(s, heard, s.with) IN Stands(s, n, {x, y}, d) /\ n # Refused
        <5>1. s.round \in 1..3 /\ s.with \in {s.with, Everyone}
          BY <2>3
        <5> QED BY <5>1, <4>2, <4>3, <1>9
      <4> QED BY <4>1, <4>4, <2>3 DEF r
    <3> QED BY <3>2, <3>3
  <2>4. CASE s.round = 4
    <3>1. r = Refused
      BY <2>4, <1>1, <1>11 DEF Advance
    <3> QED BY <3>1, <2>4
  <2> QED BY <1>1, <2>1, <2>2, <2>3, <2>4
<1> QED BY <1>10, <1>11

-----------------------------------------------------------------------------
(* A run's plan: what its sessions are about, whichever kind it is          *)

Plans ==
    [kind : {"dkg", "reshare", "sign", "offline"}, deal : 0..MaxDeals, expected : Maybe(Scalar),
     c : [Party -> Scalar], m : [Party -> Scalar],
     first : Party, second : Party, d : [Party -> 1..MaxDeals]]

Deals(plan) == plan.kind \in {"dkg", "reshare"}

Sound(plan) == IF Deals(plan) THEN plan.deal \in 1..MaxDeals ELSE plan.first # plan.second

Participants(plan) == IF Deals(plan) THEN Party ELSE {plan.first, plan.second}

\* The shares that the run starts from belong together.
Matches(plan) ==
    IF Deals(plan) THEN plan.expected \in {None, SumOf(plan.c)}
                   ELSE plan.d[plan.first] = plan.d[plan.second]

\* A session and a message that keep to the plan.
Fair(s, plan) ==
    IF Deals(plan) THEN s \in DealSessions /\ Follows(s, plan.deal, plan.expected, plan.c, plan.m)
                   ELSE s \in SignSessions /\ Signs(s, {plan.first, plan.second}, plan.d)

Truthful(e, plan) ==
    IF Deals(plan) THEN Says(e, plan.c, plan.m) ELSE Tells(e, {plan.first, plan.second}, plan.d)

\* A session that has everything its round needs but the inbox.
Prepared(s, plan) == Deals(plan) => Ready(s)

\* An inbox that has the rest.
Suffices(s, inbox, plan) == IF Deals(plan) THEN Served(s, inbox)
                            ELSE inbox # {} /\ \A e \in inbox : Accepts(s, e)

\* The messages of `round`: all by `senders`, and to everybody who needs them.
Complete(messages, round, senders, plan) ==
    /\ \A e \in messages : e.round = round /\ e.from \in senders
    /\ \A q \in senders, p \in Participants(plan) : p # q =>
         IF Deals(plan)
         THEN /\ \E e \in messages : e.from = q /\ e.to = p
              /\ round # 1 => \E e \in messages : e.from = q /\ e.to = Everyone
         ELSE \E e \in messages : e.from = q /\ e.to \in {p, Everyone}

\* A session that keeps to the plan goes on with it; with all that its round
\* needs it does not fail, and says all that the next round needs.
LEMMA OneAdvance ==
    ASSUME NEW plan \in Plans, Sound(plan), NEW s, Fair(s, plan),
           NEW inbox, inbox \subseteq Messages,
           \A e \in inbox : e.from # s.me /\ Truthful(e, plan)
    PROVE  LET r == Advance(s, inbox)
           IN  /\ r # Refused =>
                    /\ Advanced(s, r) /\ Fair(r.session, plan)
                    /\ \A e \in r.out : Truthful(e, plan)
                    /\ s.round \in 1..3
                    /\ s.round = 3 => r.out = {}
                    /\ s.round # 3 => Complete(r.out, s.round + 1, {s.me}, plan)
               /\ Prepared(s, plan) /\ Suffices(s, inbox, plan) /\ Matches(plan) /\ s.round # 4
                  => r # Refused
               /\ Prepared(s, plan) /\ Suffices(s, inbox, plan) /\ r # Refused
                  => Prepared(r.session, plan)
<1> DEFINE r == Advance(s, inbox)
<1>1. /\ plan.c \in [Party -> Scalar] /\ plan.m \in [Party -> Scalar]
      /\ plan.expected \in Maybe(Scalar) /\ plan.d \in [Party -> 1..MaxDeals]
      /\ plan.first \in Party /\ plan.second \in Party
  BY DEF Plans
<1>2. CASE Deals(plan)
  <2>1. /\ s \in DealSessions /\ Follows(s, plan.deal, plan.expected, plan.c, plan.m)
        /\ plan.deal \in 1..MaxDeals
        /\ \A e \in inbox : e.from # s.me /\ Says(e, plan.c, plan.m)
    BY <1>2 DEF Fair, Sound, Truthful
  <2>2. /\ r # Refused => Keeps(s, r, plan.deal, plan.expected, plan.c, plan.m) /\ Speaks(s, r)
                          /\ s.round \in 1..3 /\ (s.round = 3 => r.out = {})
        /\ /\ Ready(s) /\ Served(s, inbox) /\ s.round # 4
           /\ s.round = 3 => plan.expected \in {None, SumOf(plan.c)}
           => r # Refused /\ Ready(r.session)
    BY <2>1, <1>1, DealAdvance
  <2> HIDE DEF r
  <2>3. ASSUME r # Refused
        PROVE  /\ Advanced(s, r) /\ Fair(r.session, plan)
               /\ \A e \in r.out : Truthful(e, plan)
               /\ s.round \in 1..3
               /\ s.round = 3 => r.out = {}
    BY <2>2, <2>3, <1>2 DEF Keeps, Fair, Truthful
  <2>4. ASSUME r # Refused, s.round # 3
        PROVE  Complete(r.out, s.round + 1, {s.me}, plan)
    <3>1. \A e \in r.out : e.from = s.me /\ e.round = s.round + 1
      BY <2>3, <2>4 DEF Advanced
    <3>2. /\ \A q \in Others(s.me) : \E e \in r.out : e.from = s.me /\ e.to = q
          /\ \E e \in r.out : e.from = s.me /\ e.to = Everyone
      BY <2>2, <2>4 DEF Speaks
    <3> QED BY <3>1, <3>2, <1>2 DEF Complete, Participants, Others
  <2>5. Prepared(s, plan) /\ Suffices(s, inbox, plan) /\ Matches(plan) /\ s.round # 4
          => r # Refused
    BY <2>2, <1>2 DEF Prepared, Suffices, Matches
  <2>6. ASSUME Prepared(s, plan), Suffices(s, inbox, plan), r # Refused
        PROVE  Prepared(r.session, plan)
    <3>1. CASE s.round = 3
      <4>1. r.session.round = 4
        BY <2>3, <2>6, <3>1 DEF Advanced
      <4> QED BY <4>1 DEF Prepared, Ready
    <3>2. CASE s.round # 3
      <4>1. s.round # 4
        BY <2>3, <2>6
      <4> QED BY <4>1, <2>2, <2>6, <3>2, <1>2 DEF Prepared, Suffices
    <3> QED BY <3>1, <3>2
  <2> QED BY <2>3, <2>4, <2>5, <2>6 DEF r
<1>3. CASE ~ Deals(plan)
  <2> DEFINE x == plan.first
             y == plan.second
  <2>1. /\ s \in SignSessions /\ Signs(s, {x, y}, plan.d) /\ x # y
        /\ \A e \in inbox : e.from # s.me /\ Tells(e, {x, y}, plan.d)
    BY <1>3 DEF Fair, Sound, Truthful
  <2>2. /\ r # Refused => Stands(s, r, {x, y}, plan.d) /\ s.round \in 1..3
        /\ /\ plan.d[x] = plan.d[y] /\ inbox # {} /\ s.round # 4
           /\ \A e \in inbox : Accepts(s, e)
           => r # Refused
    BY <2>1, <1>1, SignAdvance
  <2> HIDE DEF r
  <2>3. ASSUME r # Refused
        PROVE  /\ Advanced(s, r) /\ Fair(r.session, plan)
               /\ \A e \in r.out : Truthful(e, plan)
               /\ s.round \in 1..3
               /\ s.round = 3 => r.out = {}
    BY <2>2, <2>3, <1>3 DEF Stands, Fair, Truthful
  <2>4. ASSUME r # Refused, s.round # 3
        PROVE  Complete(r.out, s.round + 1, {s.me}, plan)
    <3>1. \A e \in r.out : e.from = s.me /\ e.round = s.round + 1
      BY <2>3, <2>4 DEF Advanced
    <3>2. \E e \in r.out : e.from = s.me /\ e.to \in {s.with, Everyone}
      BY <2>2, <2>4 DEF Stands
    <3>3. {x, y} = {s.me, s.with}
      BY <2>1 DEF Signs
    <3> QED BY <3>1, <3>2, <3>3, <1>3 DEF Complete, Participants
  <2>5. Prepared(s, plan) /\ Suffices(s, inbox, plan) /\ Matches(plan) /\ s.round # 4
          => r # Refused
    BY <2>2, <1>3 DEF Suffices, Matches
  <2>6. Prepared(r.session, plan)
    BY <1>3 DEF Prepared
  <2> QED BY <2>3, <2>4, <2>5, <2>6 DEF r
<1>4. QED
  BY <1>2, <1>3

\* The messages of all participants are all that any of them needs.
LEMMA InboxSuffices ==
    ASSUME NEW plan \in Plans, Sound(plan), NEW s, Fair(s, plan),
           NEW messages, messages \subseteq Messages,
           \A e \in messages : Truthful(e, plan),
           Complete(messages, s.round, Participants(plan), plan)
    PROVE  Suffices(s, InboxFor(s.me, messages), plan)
<1> DEFINE inbox == InboxFor(s.me, messages)
<1>1. \A e \in inbox : e \in messages /\ e.from # s.me /\ e.to \in {s.me, Everyone}
                       /\ e.round = s.round /\ e.from \in Participants(plan)
  BY DEF InboxFor, Complete
<1>2. CASE Deals(plan)
  <2>1. s \in DealSessions /\ s.me \in Party /\ s.kind = "deal" /\ Participants(plan) = Party
    BY <1>2 DEF Fair, DealSessions, Participants
  <2>2. \A e \in inbox : Accepts(s, e)
    BY <1>1, <2>1 DEF Accepts
  <2>3. \A q \in Others(s.me) :
          /\ \E e \in messages : e.from = q /\ e.to = s.me
          /\ s.round # 1 => \E e \in messages : e.from = q /\ e.to = Everyone
    BY <1>2, <2>1 DEF Complete, Others
  <2>4. Others(s.me) \subseteq Senders(Private(inbox))
    BY <2>1, <2>3, EveryoneIsNoParty DEF Senders, Private, InboxFor, Others
  <2>5. s.round # 1 => Others(s.me) \subseteq Senders(Public(inbox))
    BY <2>3 DEF Senders, Public, InboxFor, Others
  <2> QED BY <2>2, <2>4, <2>5, <1>2 DEF Suffices, Served
<1>3. CASE ~ Deals(plan)
  <2>1. /\ s.kind = "sign" /\ s.me \in {plan.first, plan.second}
        /\ s.with \in {plan.first, plan.second} /\ s.with # s.me
        /\ Participants(plan) = {plan.first, plan.second}
    BY <1>3 DEF Fair, Signs, Participants
  <2>2. \A e \in inbox : Accepts(s, e)
    BY <1>1, <2>1 DEF Accepts
  <2>3. \E e \in messages : e.from = s.with /\ e.to \in {s.me, Everyone}
    BY <1>3, <2>1 DEF Complete
  <2>4. inbox # {}
    BY <2>1, <2>3 DEF InboxFor
  <2> QED BY <2>2, <2>4, <1>3 DEF Suffices
<1>4. QED
  BY <1>2, <1>3

-----------------------------------------------------------------------------
(* The invariant                                                            *)

Dealing == run.kind \in {"dkg", "reshare"}
Going == run.at \in {"open", "advance", "send"}
Sent == run.flying \union run.next

\* The key a deal must have, and where the server keeps its share of it.
Expected == IF run.kind = "dkg" THEN None ELSE vault.key
Stored == IF run.kind = "dkg" THEN live ELSE staged

\* The two who sign.
First == IF run.kind = "sign" THEN vault.party ELSE Extension
Second == IF run.kind = "sign" THEN Server ELSE Recovery

\* A reshare deals the points of the shares it starts from, the server's from
\* the moment its session is open.
FromShares(plan) ==
    /\ plan.c[Extension] = Zero
    /\ plan.c[Recovery] = Times(LagrangeAtZero(Recovery, Server), vault.point)
    /\ run.at # "open" =>
         plan.c[Server] = Times(LagrangeAtZero(Server, Recovery), live.point)

\* The plan is for this run.
PlanOfRun(plan) ==
    /\ plan \in Plans /\ Sound(plan) /\ plan.kind = run.kind
    /\ Dealing => plan.deal = run.deal /\ plan.expected = Expected
    /\ run.kind = "reshare" => FromShares(plan)
    /\ ~ Dealing => /\ plan.first = First /\ plan.second = Second
                    /\ run.fits <=> Matches(plan)
    /\ run.kind = "sign" => plan.d[Server] = live.deal

\* Everybody keeps to it.
KeptTo(plan) ==
    /\ \A p \in Locals : Fair(run.local[p], plan)
    /\ session # None => Fair(session, plan)
    /\ \A e \in Sent : Truthful(e, plan)
    /\ Dealing /\ run.at = "open" =>
         /\ \A p \in Locals : Unheard(run.local[p])
         /\ \A e \in Sent : e.round = 1 /\ e.from # Server

\* What the driver hands over is what was planned.
Delivered(plan) ==
    run.at = "returned" =>
        /\ run.fits
        /\ Dealing => LocalsDone /\ Stored = Outcome(run.deal, plan.c, plan.m, Server)

\* Whose messages are in flight.
Talking == IF run.kind = "offline" \/ run.at = "open" THEN Locals ELSE Locals \union {Server}

\* Undisturbed, all sessions are in the same round, the local ones ahead while
\* the server's turn is to come, and all messages are there.
InStep(plan) ==
    /\ run.count \in 0..2
    /\ run.at = "open" => run.count = 0
    /\ \A p \in Locals :
         /\ run.local[p].round = IF run.at = "send" THEN run.count + 2 ELSE run.count + 1
         /\ Prepared(run.local[p], plan)
    /\ run.kind # "offline" /\ run.at # "open" =>
         session # None /\ session.round = run.count + 1 /\ Prepared(session, plan)
    /\ Complete(run.flying, run.count + 1, Talking, plan)
    /\ run.at = "send" => IF run.count = 2 THEN run.next = {}
                          ELSE Complete(run.next, run.count + 2, Locals, plan)

Planned(plan) ==
    /\ PlanOfRun(plan) /\ KeptTo(plan) /\ Delivered(plan)
    /\ Going /\ ~ run.disturbed => InStep(plan)

Agreed ==
    run # None /\ (Going \/ run.at = "returned") => \E plan \in Plans : Planned(plan)

\* Who takes part, and that the server has no session before it is asked.
Cast ==
    run # None =>
        /\ Going => run.count < MaxRounds
        /\ run.at = "open" => session = None /\ run.next = {} /\ run.kind # "offline"
        /\ run.at = "send" => run.kind # "offline"
        /\ run.kind = "offline" => session = None
        /\ Locals = IF run.kind = "sign" THEN {vault.party} ELSE {Extension, Recovery}

\* Shares are kept by the parties they are for.
Owned ==
    /\ vault # None => vault.party # Server
    /\ \A f \in files : f.party = Recovery
    /\ live # None => live.party = Server
    /\ staged # None => staged.party = Server

\* Deals are numbered, and what a run starts from is older than what it deals.
Numbered ==
    /\ \A h \in Held : h.deal <= deals
    /\ vault = None => files = {} /\ staged = None
    /\ run # None =>
         /\ run.kind = "dkg" => vault = None /\ run.fits
         /\ run.kind # "dkg" => vault # None
         /\ run.kind \in {"reshare", "sign"} => live # None
         /\ Dealing => /\ run.deal = deals /\ run.deal \in 1..MaxDeals
                       /\ \A h \in files \union ({vault} \ {None}) : h.deal # run.deal
         /\ run.kind = "reshare" =>
              /\ live.deal # run.deal
              /\ run.fits <=> Reconstruct(Recovery, vault.point, Server, live.point) = vault.key

Inv ==
    /\ TypeOK /\ Cast /\ Owned /\ Numbered /\ SharesFit /\ Agreed
    /\ OutcomeFollowsShares

-----------------------------------------------------------------------------
(* A run and its plan                                                       *)

\* Once the server's line is known, a run is from shares that belong together
\* just when its plan can succeed.
LEMMA FitsMatches ==
    ASSUME TypeOK, Numbered, run # None, NEW plan, PlanOfRun(plan), run.at # "open"
    PROVE  run.fits <=> Matches(plan)
<1>0. plan.kind = run.kind /\ run.kind \in {"dkg", "reshare", "sign", "offline"}
  BY DEF PlanOfRun, Plans
<1>1. CASE run.kind = "dkg"
  <2>1. plan.expected = None
    BY <1>1 DEF PlanOfRun, Dealing, Expected
  <2> QED BY <1>0, <1>1, <2>1 DEF Matches, Deals, Numbered
<1>2. CASE run.kind = "reshare"
  <2>1. /\ vault \in Shares /\ live \in Shares
    BY <1>2 DEF TypeOK, Numbered, Maybe
  <2>2. vault.key \in Scalar /\ vault.point \in Scalar /\ live.point \in Scalar
    BY <2>1 DEF Shares
  <2>3. plan.expected = vault.key /\ FromShares(plan)
    BY <1>2 DEF PlanOfRun, Dealing, Expected
  <2> DEFINE a == Times(LagrangeAtZero(Recovery, Server), vault.point)
             b == Times(LagrangeAtZero(Server, Recovery), live.point)
  <2>4. a \in Scalar /\ b \in Scalar
    BY <2>2, Weights, Closed, PartiesDiffer DEF Party
  <2>5. SumOf(plan.c) = Plus(Zero, Plus(a, b))
    BY <2>3 DEF FromShares, SumOf
  <2>6. Reconstruct(Recovery, vault.point, Server, live.point) = Plus(a, b)
    BY DEF Reconstruct
  <2> HIDE DEF a, b
  <2>7. Plus(Zero, Plus(a, b)) = Plus(a, b)
    BY <2>4, Closed, PlusLaws
  <2>8. Matches(plan) <=> vault.key = SumOf(plan.c)
    BY <1>0, <1>2, <2>2, <2>3, NoneIsNoValue DEF Matches, Deals
  <2> QED BY <1>2, <2>5, <2>6, <2>7, <2>8 DEF Numbered
<1>3. CASE run.kind \in {"sign", "offline"}
  BY <1>3 DEF PlanOfRun, Dealing
<1>4. QED
  BY <1>0, <1>1, <1>2, <1>3

\* While the server takes part everybody's messages are in flight.
LEMMA AllTalk ==
    ASSUME TypeOK, Cast, run # None, NEW plan, PlanOfRun(plan), run.at # "open"
    PROVE  Talking = Participants(plan)
<1>1. Locals = IF run.kind = "sign" THEN {vault.party} ELSE {Extension, Recovery}
  BY DEF Cast
<1>2. plan.kind = run.kind /\ run.kind \in {"dkg", "reshare", "sign", "offline"}
  BY DEF PlanOfRun, Plans
<1>3. CASE run.kind \in {"dkg", "reshare"}
  BY <1>1, <1>2, <1>3 DEF Talking, Participants, Deals, Party
<1>4. CASE run.kind \in {"sign", "offline"}
  BY <1>1, <1>2, <1>4 DEF Talking, Participants, Deals, PlanOfRun, Dealing, First, Second
<1>5. QED
  BY <1>2, <1>3, <1>4

\* A plan outlives what changes neither the run's shares nor its kind.
LEMMA PlanStays ==
    ASSUME NEW plan, PlanOfRun(plan), run.at # "open",
           run'.kind = run.kind, run'.deal = run.deal, run'.fits = run.fits, vault' = vault,
           run.kind \in {"reshare", "sign"} => live' = live
    PROVE  PlanOfRun(plan)'
BY DEF PlanOfRun, FromShares, Dealing, Expected, First, Second

\* The messages of several are complete if each one's are.
LEMMA CompleteUnion ==
    ASSUME NEW plan, NEW round, NEW S, NEW out, NEW messages,
           \A p \in S : Complete(out[p], round, {p}, plan) /\ out[p] \subseteq messages,
           \A e \in messages : \E p \in S : e \in out[p]
    PROVE  Complete(messages, round, S, plan)
<1>1. \A e \in messages : e.round = round /\ e.from \in S
  BY DEF Complete
<1>2. ASSUME NEW q \in S, NEW p \in Participants(plan), p # q
      PROVE  IF Deals(plan)
             THEN /\ \E e \in messages : e.from = q /\ e.to = p
                  /\ round # 1 => \E e \in messages : e.from = q /\ e.to = Everyone
             ELSE \E e \in messages : e.from = q /\ e.to \in {p, Everyone}
  <2>1. Complete(out[q], round, {q}, plan) /\ out[q] \subseteq messages
    OBVIOUS
  <2>2. IF Deals(plan)
        THEN /\ \E e \in out[q] : e.from = q /\ e.to = p
             /\ round # 1 => \E e \in out[q] : e.from = q /\ e.to = Everyone
        ELSE \E e \in out[q] : e.from = q /\ e.to \in {p, Everyone}
    BY <2>1, <1>2 DEF Complete
  <2> QED BY <2>1, <2>2
<1>3. QED
  BY <1>1, <1>2 DEF Complete

\* So are those of two groups together.
LEMMA CompleteBoth ==
    ASSUME NEW plan, NEW round, NEW S, NEW T, NEW A, NEW B,
           Complete(A, round, S, plan), Complete(B, round, T, plan)
    PROVE  Complete(A \union B, round, S \union T, plan)
<1>1. \A e \in A \union B : e.round = round /\ e.from \in S \union T
  BY DEF Complete
<1>2. ASSUME NEW q \in S \union T, NEW p \in Participants(plan), p # q
      PROVE  IF Deals(plan)
             THEN /\ \E e \in A \union B : e.from = q /\ e.to = p
                  /\ round # 1 => \E e \in A \union B : e.from = q /\ e.to = Everyone
             ELSE \E e \in A \union B : e.from = q /\ e.to \in {p, Everyone}
  <2>1. CASE q \in S
    BY <2>1, <1>2 DEF Complete
  <2>2. CASE q \in T
    BY <2>2, <1>2 DEF Complete
  <2> QED BY <2>1, <2>2
<1>3. QED
  BY <1>1, <1>2 DEF Complete

-----------------------------------------------------------------------------
(* A run begins                                                             *)

\* The first round of a party.
Begun(r, p, plan) ==
    /\ r \in Replies /\ r.session.me = p /\ r.session.round = 1
    /\ Fair(r.session, plan) /\ Prepared(r.session, plan)
    /\ \A e \in r.out : e.from = p /\ e.round = 1 /\ Truthful(e, plan)
    /\ Complete(r.out, 1, {p}, plan)
    /\ Deals(plan) /\ p # Server => Unheard(r.session)

\* A party of a deal begins with its line.
LEMMA DealBegun ==
    ASSUME NEW plan \in Plans, Sound(plan), Deals(plan), NEW p \in Party
    PROVE  Begun(StartWith(p, Line(plan.c[p], plan.m[p]), plan.expected, plan.deal), p, plan)
<1> DEFINE r == StartWith(p, Line(plan.c[p], plan.m[p]), plan.expected, plan.deal)
<1>1. /\ plan.c \in [Party -> Scalar] /\ plan.m \in [Party -> Scalar]
      /\ plan.expected \in Maybe(Scalar) /\ plan.deal \in 1..MaxDeals
  BY DEF Plans, Sound
<1>2. /\ r \in Replies /\ r.session \in DealSessions
      /\ r.session.me = p /\ r.session.round = 1
      /\ Follows(r.session, plan.deal, plan.expected, plan.c, plan.m)
      /\ p # Server => Unheard(r.session)
      /\ \A e \in r.out : e.from = p /\ e.round = 1 /\ Says(e, plan.c, plan.m)
      /\ Ready(r.session)
      /\ \A q \in Others(p) : \E e \in r.out : e.from = p /\ e.to = q
  BY <1>1, StartStep
<1> HIDE DEF r
<1>3. Fair(r.session, plan) /\ Prepared(r.session, plan)
  BY <1>2 DEF Fair, Prepared
<1>4. \A e \in r.out : Truthful(e, plan)
  BY <1>2 DEF Truthful
<1>5. Complete(r.out, 1, {p}, plan)
  BY <1>2 DEF Complete, Others, Participants
<1>6. Begun(r, p, plan)
  BY <1>2, <1>3, <1>4, <1>5 DEF Begun
<1> QED BY <1>6 DEF r

\* A party that signs begins with its share.
LEMMA SignBegun ==
    ASSUME NEW plan \in Plans, Sound(plan), ~ Deals(plan),
           NEW p \in Party, NEW q \in Party, p # q, {p, q} = {plan.first, plan.second},
           NEW held \in Shares, held.deal = plan.d[p]
    PROVE  Begun(StartSign(held, p, q), p, plan)
<1> DEFINE r == StartSign(held, p, q)
<1> DEFINE d == plan.d
<1>1. d \in [Party -> 1..MaxDeals] /\ held.deal = d[p]
  BY DEF Plans
<1> HIDE DEF d
<1>2. SignStarts(r, p, q, d)
  BY <1>1, StartSignStep
<1> HIDE DEF r
<1>3. Fair(r.session, plan) /\ Prepared(r.session, plan)
  BY <1>2 DEF SignStarts, Fair, Prepared, d
<1>4. \A e \in r.out : Truthful(e, plan)
  BY <1>2 DEF SignStarts, Truthful, d
<1>5. Complete(r.out, 1, {p}, plan)
  BY <1>2 DEF SignStarts, Complete, Participants
<1>6. Begun(r, p, plan)
  BY <1>2, <1>3, <1>4, <1>5 DEF SignStarts, Begun
<1> QED BY <1>6 DEF r

\* What a run is when it begins.
Begins(plan, started, fits) ==
    /\ run = None /\ session' = None
    /\ run' \in Runs /\ run'.kind = plan.kind /\ run'.count = 0 /\ run'.next = {}
    /\ run'.fits = fits /\ run'.disturbed = FALSE
    /\ Deals(plan) => run'.deal = deals + 1
    /\ run'.at = IF plan.kind = "offline" THEN "advance" ELSE "open"
    /\ Locals' = DOMAIN started
    /\ \A p \in Party : run'.local[p] # None => run'.local[p].me = p
    /\ KeptTo(plan)' /\ Delivered(plan)' /\ InStep(plan)'

\* With the first rounds of its local parties it is that.
LEMMA BeginStep ==
    ASSUME NEW plan \in Plans, Sound(plan), NEW started, DOMAIN started \subseteq Party \ {Server},
           \A p \in DOMAIN started : Begun(started[p], p, plan),
           NEW fits \in BOOLEAN, Begin(plan.kind, started, fits),
           deals \in Nat, Deals(plan) => deals + 1 \in 1..MaxDeals
    PROVE  Begins(plan, started, fits)
<1> DEFINE local == [p \in Party |-> IF p \in DOMAIN started THEN started[p].session ELSE None]
           flying == UNION {started[p].out : p \in DOMAIN started}
<1>1. \A p \in DOMAIN started : /\ started[p].session \in Sessions /\ started[p].out \subseteq Messages
                                /\ started[p].session # None
  <2> TAKE p \in DOMAIN started
  <2>1. started[p] \in [session : Sessions, out : SUBSET Messages]
    BY DEF Begun, Replies
  <2> QED BY <2>1, NoneIsNoValue
<1>2. /\ local \in [Party -> Maybe(Sessions)]
      /\ \A p \in Party : local[p] # None <=> p \in DOMAIN started
      /\ \A p \in DOMAIN started : p \in Party /\ local[p] = started[p].session
  BY <1>1 DEF Maybe
<1>3. flying \subseteq Messages /\ \A e \in flying : \E p \in DOMAIN started : e \in started[p].out
  BY <1>1
<1>4. /\ run = None /\ session' = None
      /\ run' = [kind |-> plan.kind,
                 deal |-> IF plan.kind \in {"dkg", "reshare"} THEN deals + 1 ELSE 0,
                 at |-> IF plan.kind = "offline" THEN "advance" ELSE "open",
                 local |-> local, flying |-> flying, next |-> {}, count |-> 0,
                 fits |-> fits, disturbed |-> FALSE]
  BY DEF Begin
<1>5. Complete(flying, 1, DOMAIN started, plan)
  <2> DEFINE out == [p \in DOMAIN started |-> started[p].out]
  <2>1. \A p \in DOMAIN started : Complete(out[p], 1, {p}, plan)
    BY DEF Begun
  <2>2. \A p \in DOMAIN started : out[p] \subseteq flying
    OBVIOUS
  <2>3. \A e \in flying : \E p \in DOMAIN started : e \in out[p]
    OBVIOUS
  <2> HIDE DEF out, flying
  <2> QED BY <2>1, <2>2, <2>3, CompleteUnion
<1> HIDE DEF local, flying
<1>6. /\ run'.kind = plan.kind /\ run'.count = 0 /\ run'.next = {}
      /\ run'.disturbed = FALSE /\ run'.local = local /\ run'.flying = flying
      /\ Deals(plan) => run'.deal = deals + 1
      /\ run'.at = IF plan.kind = "offline" THEN "advance" ELSE "open"
  BY <1>4 DEF Deals
<1>7. run'.fits = fits
  BY <1>4
<1>8. Locals' = DOMAIN started
  BY <1>2, <1>6 DEF Locals
<1>9. run' \in Runs
  <2>1. /\ plan.kind \in {"dkg", "reshare", "sign", "offline"}
        /\ (IF plan.kind \in {"dkg", "reshare"} THEN deals + 1 ELSE 0) \in 0..MaxDeals
        /\ 0 \in 0..MaxRounds
    BY BoundsAreNaturals DEF Plans, Deals
  <2> QED BY <2>1, <1>2, <1>3, <1>4 DEF Runs
<1>10. \A p \in Party : run'.local[p] # None => run'.local[p].me = p
  BY <1>2, <1>6 DEF Begun
<1>11. KeptTo(plan)'
  <2>1. (\A p \in Locals : Fair(run.local[p], plan) /\ (Deals(plan) => Unheard(run.local[p])))'
    BY <1>2, <1>6, <1>8 DEF Begun
  <2>2. (\A e \in Sent : Truthful(e, plan) /\ e.round = 1 /\ e.from # Server)'
    <3>1. Sent' = flying
      BY <1>6 DEF Sent
    <3>2. \A e \in flying : Truthful(e, plan) /\ e.round = 1 /\ e.from # Server
      BY <1>3 DEF Begun
    <3> QED BY <3>1, <3>2
  <2> QED BY <2>1, <2>2, <1>4, <1>6 DEF KeptTo, Dealing, Deals
<1>12. Delivered(plan)'
  BY <1>6 DEF Delivered
<1>13. InStep(plan)'
  <2>1. Talking' = DOMAIN started
    BY <1>6, <1>8 DEF Talking
  <2>2. \A p \in DOMAIN started : run'.local[p].round = 1 /\ Prepared(run'.local[p], plan)
    BY <1>2, <1>6 DEF Begun
  <2> QED BY <2>1, <2>2, <1>5, <1>6, <1>8 DEF InStep
<1>14. QED
  BY <1>4, <1>6, <1>7, <1>8, <1>9, <1>10, <1>11, <1>12, <1>13 DEF Begins

\* So what is known of a run holds when it begins.
LEMMA BeginInv ==
    ASSUME TypeOK, NEW plan \in Plans, Sound(plan), NEW started,
           DOMAIN started = IF plan.kind = "sign" THEN {vault.party} ELSE {Extension, Recovery},
           DOMAIN started \subseteq Party \ {Server},
           \A p \in DOMAIN started : Begun(started[p], p, plan),
           NEW fits \in BOOLEAN, Begin(plan.kind, started, fits),
           Deals(plan) => deals + 1 \in 1..MaxDeals,
           {vault', live', staged'} \subseteq Maybe(Shares), files' \subseteq Shares,
           deals' \in 0..MaxDeals, vault' = vault,
           run'.kind = plan.kind => PlanOfRun(plan)'
    PROVE  TypeOK' /\ Cast' /\ Agreed' /\ OutcomeFollowsShares'
<1>0. deals \in Nat
  BY BoundsAreNaturals DEF TypeOK
<1>1. Begins(plan, started, fits)
  BY <1>0, BeginStep
<1>2. /\ run = None /\ session' = None
      /\ run' \in Runs /\ run'.kind = plan.kind /\ run'.count = 0 /\ run'.next = {}
      /\ run'.fits = fits /\ run'.disturbed = FALSE
      /\ run'.at = IF plan.kind = "offline" THEN "advance" ELSE "open"
      /\ Locals' = DOMAIN started
      /\ \A p \in Party : run'.local[p] # None => run'.local[p].me = p
      /\ KeptTo(plan)' /\ Delivered(plan)' /\ InStep(plan)'
  BY <1>1 DEF Begins
<1>3. TypeOK'
  BY <1>2 DEF TypeOK, Maybe
<1>4. Cast'
  BY <1>2, BoundsAreNaturals DEF Cast, Going
<1>5. Planned(plan)'
  BY <1>2 DEF Planned
<1>6. Agreed'
  BY <1>5 DEF Agreed
<1>7. OutcomeFollowsShares'
  BY <1>2 DEF OutcomeFollowsShares
<1>8. QED
  BY <1>3, <1>4, <1>6, <1>7

\* A joiner's row is a line, too.
LEMMA JoinerLine == JoinerRow = Line(Zero, Zero)
<1>1. \A p \in Party : Plus(Zero, Times(Zero, Index(p))) = Zero
  <2> TAKE p \in Party
  <2>1. Index(p) \in Scalar /\ Zero \in Scalar
    BY Indices, Closed
  <2>2. Times(Zero, Index(p)) = Times(Index(p), Zero)
    BY <2>1, TimesLaws
  <2>3. Times(Index(p), Zero) = Zero
    BY <2>1, TimesZero
  <2> QED BY <2>1, <2>2, <2>3, PlusLaws
<1> QED BY <1>1 DEF JoinerRow, Line

\* A number that bounds the deals so far is smaller than the next.
LEMMA NextDeal ==
    ASSUME TypeOK, Numbered, deals < MaxDeals
    PROVE  /\ deals + 1 \in 1..MaxDeals
           /\ \A h \in Held : h.deal # deals + 1 /\ h.deal <= deals + 1
<1>1. deals + 1 \in 1..MaxDeals
  BY BoundsAreNaturals DEF TypeOK
<1>2. Held \subseteq Shares
  BY DEF TypeOK, Held, Maybe
<1>3. \A h \in Held : h.deal \in 1..MaxDeals
  BY <1>2 DEF Shares
<1> QED BY <1>1, <1>3 DEF Numbered, TypeOK

\* Key generation.
LEMMA BeginDkgInv == ASSUME Inv, BeginDkg PROVE Inv'
<1> USE DEF Inv
<1>0. vault = None /\ deals < MaxDeals /\ deals' = deals + 1 /\ live' = None
      /\ vault' = vault /\ files' = files /\ staged' = staged /\ files = {} /\ staged = None
  BY DEF BeginDkg, Numbered
<1>1. PICK c \in [{Extension, Recovery} -> Draws], m \in [{Extension, Recovery} -> Draws] :
         Begin("dkg",
               [p \in {Extension, Recovery} |->
                    StartWith(p, Line(c[p], m[p]), None, deals + 1)],
               TRUE)
  BY DEF BeginDkg
<1> DEFINE C == [p \in Party |-> IF p = Server THEN Zero ELSE c[p]]
           M == [p \in Party |-> IF p = Server THEN Zero ELSE m[p]]
<1>2. deals + 1 \in 1..MaxDeals /\ deals + 1 \in 0..MaxDeals
  BY <1>0, NextDeal, BoundsAreNaturals
<1>3. C \in [Party -> Scalar] /\ M \in [Party -> Scalar]
  <2>1. \A p \in Party : p # Server => p \in {Extension, Recovery}
    BY DEF Party
  <2> QED BY <2>1, Closed, DrawsAreScalars
<1>4. \A p \in {Extension, Recovery} : C[p] = c[p] /\ M[p] = m[p]
  BY PartiesDiffer DEF Party
<1> HIDE DEF C, M
<1>5. PICK plan \in Plans : /\ plan.kind = "dkg" /\ plan.deal = deals + 1
                           /\ plan.expected = None /\ plan.c = C /\ plan.m = M
  <2> DEFINE D == [p \in Party |-> deals + 1]
             w == [kind |-> "dkg", deal |-> deals + 1, expected |-> None, c |-> C, m |-> M,
                   first |-> Extension, second |-> Recovery, d |-> D]
  <2>1. D \in [Party -> 1..MaxDeals]
    BY <1>2
  <2> HIDE DEF D
  <2>2. w \in Plans
    BY <1>2, <1>3, <2>1 DEF Plans, Maybe, Party
  <2> QED BY <2>2
<1>6. Sound(plan) /\ Deals(plan)
  BY <1>2, <1>5 DEF Sound, Deals
<1>7. PICK started :
        /\ DOMAIN started = {Extension, Recovery}
        /\ \A p \in {Extension, Recovery} :
             started[p] = StartWith(p, Line(plan.c[p], plan.m[p]), plan.expected, plan.deal)
        /\ Begin(plan.kind, started, TRUE)
  <2> DEFINE started == [p \in {Extension, Recovery} |->
                           StartWith(p, Line(c[p], m[p]), None, deals + 1)]
  <2>1. \A p \in {Extension, Recovery} :
             started[p] = StartWith(p, Line(plan.c[p], plan.m[p]), plan.expected, plan.deal)
    BY <1>4, <1>5
  <2>2. Begin(plan.kind, started, TRUE)
    BY <1>1, <1>5
  <2>3. DOMAIN started = {Extension, Recovery}
    OBVIOUS
  <2> HIDE DEF started
  <2> QED BY <2>1, <2>2, <2>3
<1>8. \A p \in {Extension, Recovery} : p \in Party \ {Server}
  BY PartiesDiffer DEF Party
<1>9. \A p \in DOMAIN started : Begun(started[p], p, plan)
  <2> TAKE p \in DOMAIN started
  <2>1. Begun(StartWith(p, Line(plan.c[p], plan.m[p]), plan.expected, plan.deal), p, plan)
    BY <1>5, <1>6, <1>7, <1>8, DealBegun
  <2> QED BY <2>1, <1>7
<1>10. Begin(plan.kind, started, TRUE)
  BY <1>7
<1>11. deals \in Nat
  BY BoundsAreNaturals DEF TypeOK
<1>12. /\ run = None /\ run'.kind = "dkg" /\ run'.deal = deals + 1 /\ run'.fits = TRUE
       /\ run'.at = "open"
  BY <1>2, <1>5, <1>6, <1>7, <1>8, <1>9, <1>10, <1>11, BeginStep DEF Begins
<1>13. PlanOfRun(plan)'
  <2>1. Dealing' /\ Expected' = None /\ run'.kind # "reshare" /\ run'.kind # "sign"
    BY <1>12 DEF Dealing, Expected
  <2>2. plan.kind = run'.kind /\ plan.deal = run'.deal /\ plan.expected = None
    BY <1>5, <1>12
  <2> QED BY <2>1, <2>2, <1>5, <1>6 DEF PlanOfRun
<1>14. TypeOK' /\ Cast' /\ Agreed' /\ OutcomeFollowsShares'
  <2>1. {vault', live', staged'} \subseteq Maybe(Shares) /\ files' \subseteq Shares
        /\ deals' \in 0..MaxDeals
    BY <1>0, <1>2 DEF TypeOK, Maybe
  <2>2. /\ DOMAIN started = IF plan.kind = "sign" THEN {vault.party} ELSE {Extension, Recovery}
        /\ DOMAIN started \subseteq Party \ {Server} /\ TRUE \in BOOLEAN
    BY <1>5, <1>7, <1>8
  <2>3. TypeOK /\ vault' = vault /\ (Deals(plan) => deals + 1 \in 1..MaxDeals)
    BY <1>0, <1>2
  <2> HIDE DEF Inv
  <2> QED BY <2>1, <2>2, <2>3, <1>5, <1>6, <1>9, <1>10, <1>13, BeginInv
<1>15. Held' = {}
  BY <1>0 DEF Held
<1>16. Numbered'
  BY <1>0, <1>2, <1>12, <1>15 DEF Numbered, Dealing
<1>17. Owned' /\ SharesFit'
  BY <1>0, <1>15 DEF Owned, SharesFit
<1>18. QED
  BY <1>14, <1>16, <1>17

\* What a beginning run leaves alone.
LEMMA SameShares ==
    ASSUME Owned, SharesFit, vault' = vault, live' = live, staged' = staged, files' = files
    PROVE  Held' = Held /\ Owned' /\ SharesFit'
<1>1. Held' = Held
  BY DEF Held
<1> QED BY <1>1 DEF Owned, SharesFit

\* A reshare.
LEMMA BeginReshareInv == ASSUME Inv, BeginReshare PROVE Inv'
<1> USE DEF Inv
<1>0. /\ vault # None /\ live # None /\ deals < MaxDeals /\ deals' = deals + 1
      /\ vault.party = Recovery
      /\ vault' = vault /\ live' = live /\ files' = files /\ staged' = staged
  BY DEF BeginReshare, wallet
<1>1. vault \in Shares /\ live \in Shares /\ vault.point \in Scalar /\ vault.key \in Scalar
  BY <1>0 DEF TypeOK, Maybe, Shares
<1>2. deals + 1 \in 1..MaxDeals /\ deals + 1 \in 0..MaxDeals
      /\ \A h \in Held : h.deal # deals + 1 /\ h.deal <= deals + 1
  BY <1>0, NextDeal, BoundsAreNaturals
<1>3. PICK slope \in Draws :
         Begin("reshare",
               [p \in {Extension, Recovery} |->
                  StartWith(p, IF p = Extension THEN JoinerRow
                               ELSE ReshareRow(Recovery, vault.point, Server, slope),
                            vault.key, deals + 1)],
               Reconstruct(Recovery, vault.point, Server, live.point) = vault.key)
  BY DEF BeginReshare
<1> DEFINE weighted == Times(LagrangeAtZero(Recovery, Server), vault.point)
           C == [p \in Party |-> IF p = Recovery THEN weighted ELSE Zero]
           M == [p \in Party |-> IF p = Recovery THEN slope ELSE Zero]
<1>4. weighted \in Scalar /\ slope \in Scalar
  BY <1>1, Weights, Closed, PartiesDiffer, DrawsAreScalars DEF Party
<1>5. ReshareRow(Recovery, vault.point, Server, slope) = Line(weighted, slope)
  BY DEF ReshareRow
<1> HIDE DEF weighted
<1>6. C \in [Party -> Scalar] /\ M \in [Party -> Scalar]
  BY <1>4, Closed
<1>7. /\ C[Extension] = Zero /\ C[Recovery] = weighted
      /\ M[Extension] = Zero /\ M[Recovery] = slope
  BY PartiesDiffer DEF Party
<1> HIDE DEF C, M
<1>8. PICK plan \in Plans : /\ plan.kind = "reshare" /\ plan.deal = deals + 1
                           /\ plan.expected = vault.key /\ plan.c = C /\ plan.m = M
  <2> DEFINE D == [p \in Party |-> deals + 1]
             w == [kind |-> "reshare", deal |-> deals + 1, expected |-> vault.key, c |-> C, m |-> M,
                   first |-> Extension, second |-> Recovery, d |-> D]
  <2>1. D \in [Party -> 1..MaxDeals]
    BY <1>2
  <2> HIDE DEF D
  <2>2. w \in Plans
    BY <1>1, <1>2, <1>6, <2>1 DEF Plans, Maybe, Party
  <2> QED BY <2>2
<1>9. Sound(plan) /\ Deals(plan)
  BY <1>2, <1>8 DEF Sound, Deals
<1>10. PICK started :
        /\ DOMAIN started = {Extension, Recovery}
        /\ \A p \in {Extension, Recovery} :
             started[p] = StartWith(p, Line(plan.c[p], plan.m[p]), plan.expected, plan.deal)
        /\ Begin("reshare", started,
                 Reconstruct(Recovery, vault.point, Server, live.point) = vault.key)
  <2> DEFINE s == [p \in {Extension, Recovery} |->
                  StartWith(p, IF p = Extension THEN JoinerRow
                               ELSE ReshareRow(Recovery, vault.point, Server, slope),
                            vault.key, deals + 1)]
  <2>1. \A p \in {Extension, Recovery} :
             s[p] = StartWith(p, Line(plan.c[p], plan.m[p]), plan.expected, plan.deal)
    <3>1. s[Extension] = StartWith(Extension, Line(Zero, Zero), vault.key, deals + 1)
      BY JoinerLine
    <3>2. s[Recovery] = StartWith(Recovery, Line(weighted, slope), vault.key, deals + 1)
      BY <1>5, PartiesDiffer
    <3> HIDE DEF s
    <3> QED BY <3>1, <3>2, <1>7, <1>8
  <2>2. DOMAIN s = {Extension, Recovery}
    OBVIOUS
  <2>3. Begin("reshare", s,
              Reconstruct(Recovery, vault.point, Server, live.point) = vault.key)
    BY <1>3
  <2> HIDE DEF s
  <2> QED BY <2>1, <2>2, <2>3
<1>11. PICK fits \in BOOLEAN :
         /\ fits = (Reconstruct(Recovery, vault.point, Server, live.point) = vault.key)
         /\ Begin(plan.kind, started, fits)
  BY <1>8, <1>10
<1>12. \A p \in {Extension, Recovery} : p \in Party \ {Server}
  BY PartiesDiffer DEF Party
<1>13. \A p \in DOMAIN started : Begun(started[p], p, plan)
  <2> TAKE p \in DOMAIN started
  <2>1. Begun(StartWith(p, Line(plan.c[p], plan.m[p]), plan.expected, plan.deal), p, plan)
    BY <1>8, <1>9, <1>10, <1>12, DealBegun
  <2> QED BY <2>1, <1>10
<1>14. /\ DOMAIN started = IF plan.kind = "sign" THEN {vault.party} ELSE {Extension, Recovery}
       /\ DOMAIN started \subseteq Party \ {Server}
  BY <1>8, <1>10, <1>12
<1>15. deals \in Nat
  BY BoundsAreNaturals DEF TypeOK
<1>16. /\ run = None /\ run'.kind = "reshare" /\ run'.deal = deals + 1 /\ run'.fits = fits
       /\ run'.at = "open"
  BY <1>2, <1>8, <1>9, <1>11, <1>13, <1>14, <1>15, BeginStep DEF Begins
<1>17. PlanOfRun(plan)'
  <2>1. Dealing' /\ Expected' = vault.key /\ run'.kind # "sign"
    BY <1>0, <1>16 DEF Dealing, Expected
  <2>2. plan.kind = run'.kind /\ plan.deal = run'.deal /\ plan.expected = vault.key
    BY <1>8, <1>16
  <2>3. FromShares(plan)'
    BY <1>0, <1>7, <1>8, <1>16 DEF FromShares, weighted
  <2> QED BY <2>1, <2>2, <2>3, <1>8, <1>9 DEF PlanOfRun
<1>18. TypeOK' /\ Cast' /\ Agreed' /\ OutcomeFollowsShares'
  <2>1. {vault', live', staged'} \subseteq Maybe(Shares) /\ files' \subseteq Shares
        /\ deals' \in 0..MaxDeals
    BY <1>0, <1>2 DEF TypeOK, Maybe
  <2>2. TypeOK /\ vault' = vault /\ (Deals(plan) => deals + 1 \in 1..MaxDeals)
    BY <1>0, <1>2
  <2> HIDE DEF Inv
  <2> QED BY <2>1, <2>2, <1>8, <1>9, <1>11, <1>13, <1>14, <1>17, BeginInv
<1>19. Held' = Held /\ Owned' /\ SharesFit'
  BY <1>0, SameShares
<1>20. Numbered'
  <2>1. \A h \in files \union ({vault} \ {None}) : h \in Held
    BY DEF Held
  <2>2. live \in Held
    BY <1>0 DEF Held
  <2>3. \A h \in Held' : h.deal <= deals'
    BY <1>0, <1>2, <1>19
  <2>4. \A h \in files' \union ({vault'} \ {None}) : h.deal # run'.deal
    BY <2>1, <1>0, <1>2, <1>16
  <2>5. run'.deal = deals' /\ run'.deal \in 1..MaxDeals /\ live'.deal # run'.deal
    BY <2>2, <1>0, <1>2, <1>16
  <2>6. run'.fits <=> (Reconstruct(Recovery, vault.point, Server, live.point) = vault.key)'
    BY <1>0, <1>11, <1>16
  <2> HIDE DEF Inv
  <2> QED BY <2>3, <2>4, <2>5, <2>6, <1>0, <1>16 DEF Numbered, Dealing
<1>21. QED
  BY <1>18, <1>19, <1>20

\* A signature begins with a plan of its two shares.
LEMMA SignPlan ==
    ASSUME NEW kind \in {"sign", "offline"}, NEW x \in Party, NEW y \in Party, x # y,
           NEW i \in 1..MaxDeals, NEW j \in 1..MaxDeals
    PROVE  \E plan \in Plans :
             /\ plan.kind = kind /\ plan.first = x /\ plan.second = y
             /\ plan.d[x] = i /\ plan.d[y] = j
             /\ Sound(plan) /\ ~ Deals(plan) /\ (Matches(plan) <=> i = j)
<1> DEFINE zeros == [p \in Party |-> Zero]
           D == [p \in Party |-> IF p = x THEN i ELSE j]
           w == [kind |-> kind, deal |-> 0, expected |-> None, c |-> zeros, m |-> zeros,
                 first |-> x, second |-> y, d |-> D]
<1>1. zeros \in [Party -> Scalar] /\ D \in [Party -> 1..MaxDeals] /\ D[x] = i /\ D[y] = j
  BY Closed
<1> HIDE DEF zeros, D
<1>2. w \in Plans
  BY <1>1, BoundsAreNaturals DEF Plans, Maybe
<1>3. w.kind = kind /\ w.first = x /\ w.second = y /\ w.d[x] = i /\ w.d[y] = j
  BY <1>1
<1> HIDE DEF w
<1>4. Sound(w) /\ ~ Deals(w) /\ (Matches(w) <=> i = j)
  BY <1>3 DEF Sound, Deals, Matches
<1> QED BY <1>2, <1>3, <1>4

\* A signature leaves the wallet alone.
LEMMA SignNumbered ==
    ASSUME Numbered, Held' = Held, vault' = vault, live' = live, staged' = staged, files' = files,
           deals' = deals, run'.kind \in {"sign", "offline"}, vault # None,
           run'.kind = "sign" => live # None
    PROVE  Numbered'
BY DEF Numbered, Dealing

\* With the server.
LEMMA BeginSignInv == ASSUME Inv, BeginSign PROVE Inv'
<1> USE DEF Inv
<1>0. /\ vault # None /\ live # None /\ deals' = deals
      /\ vault' = vault /\ live' = live /\ files' = files /\ staged' = staged
      /\ Begin("sign", [p \in {vault.party} |-> StartSign(vault, p, Server)],
               vault.deal = live.deal)
  BY DEF BeginSign, wallet
<1>1. vault \in Shares /\ live \in Shares /\ vault.party \in Party /\ vault.party # Server
      /\ vault.deal \in 1..MaxDeals /\ live.deal \in 1..MaxDeals
  BY <1>0 DEF TypeOK, Maybe, Shares, Owned
<1>2. Server \in Party
  BY DEF Party
<1>3. PICK plan \in Plans :
        /\ plan.kind = "sign" /\ plan.first = vault.party /\ plan.second = Server
        /\ plan.d[vault.party] = vault.deal /\ plan.d[Server] = live.deal
        /\ Sound(plan) /\ ~ Deals(plan) /\ (Matches(plan) <=> vault.deal = live.deal)
  BY <1>1, <1>2, SignPlan
<1>4. PICK started :
        /\ DOMAIN started = {vault.party}
        /\ started[vault.party] = StartSign(vault, vault.party, Server)
        /\ Begin("sign", started, vault.deal = live.deal)
  <2> DEFINE s == [p \in {vault.party} |-> StartSign(vault, p, Server)]
  <2>1. /\ DOMAIN s = {vault.party}
        /\ s[vault.party] = StartSign(vault, vault.party, Server)
    OBVIOUS
  <2>2. Begin("sign", s, vault.deal = live.deal)
    BY <1>0
  <2> HIDE DEF s
  <2> QED BY <2>1, <2>2
<1>4a. PICK fits \in BOOLEAN :
         /\ fits = (vault.deal = live.deal)
         /\ Begin(plan.kind, started, fits)
  BY <1>3, <1>4
<1>5. \A p \in DOMAIN started : Begun(started[p], p, plan)
  <2>1. Begun(StartSign(vault, vault.party, Server), vault.party, plan)
    BY <1>1, <1>2, <1>3, SignBegun
  <2> QED BY <2>1, <1>4
<1>6. /\ DOMAIN started = IF plan.kind = "sign" THEN {vault.party} ELSE {Extension, Recovery}
      /\ DOMAIN started \subseteq Party \ {Server}
  BY <1>1, <1>3, <1>4
<1>7. deals \in Nat
  BY BoundsAreNaturals DEF TypeOK
<1>8. /\ run = None /\ run'.kind = "sign" /\ run'.fits = fits
  BY <1>3, <1>4a, <1>5, <1>6, <1>7, BeginStep DEF Begins
<1>9. PlanOfRun(plan)'
  <2>1. ~ Dealing' /\ First' = vault.party /\ Second' = Server
    BY <1>0, <1>8 DEF Dealing, First, Second
  <2> QED BY <2>1, <1>0, <1>3, <1>4a, <1>8 DEF PlanOfRun
<1>10. TypeOK' /\ Cast' /\ Agreed' /\ OutcomeFollowsShares'
  <2>1. {vault', live', staged'} \subseteq Maybe(Shares) /\ files' \subseteq Shares
        /\ deals' \in 0..MaxDeals
    BY <1>0 DEF TypeOK, Maybe
  <2>2. TypeOK /\ vault' = vault
    BY <1>0
  <2> HIDE DEF Inv
  <2> QED BY <2>1, <2>2, <1>3, <1>4a, <1>5, <1>6, <1>9, BeginInv
<1>11. Held' = Held /\ Owned' /\ SharesFit'
  BY <1>0, SameShares
<1>12. Numbered'
  BY <1>0, <1>8, <1>11, SignNumbered
<1>13. QED
  BY <1>10, <1>11, <1>12

\* With a recovery file.
LEMMA BeginOfflineInv == ASSUME Inv, BeginOffline PROVE Inv'
<1> USE DEF Inv
<1>0. /\ vault # None /\ deals' = deals
      /\ vault' = vault /\ live' = live /\ files' = files /\ staged' = staged
  BY DEF BeginOffline, wallet
<1>1. PICK f \in files :
         Begin("offline",
               [p \in {Extension, Recovery} |->
                  IF p = Extension THEN StartSign(vault, Extension, Recovery)
                                   ELSE StartSign(f, Recovery, Extension)],
               vault.deal = f.deal)
  BY DEF BeginOffline
<1>2. /\ vault \in Shares /\ f \in Shares /\ vault.deal \in 1..MaxDeals /\ f.deal \in 1..MaxDeals
      /\ Extension \in Party \ {Server} /\ Recovery \in Party \ {Server} /\ Extension # Recovery
  BY <1>0, PartiesDiffer DEF TypeOK, Maybe, Shares, Party
<1>3. PICK plan \in Plans :
        /\ plan.kind = "offline" /\ plan.first = Extension /\ plan.second = Recovery
        /\ plan.d[Extension] = vault.deal /\ plan.d[Recovery] = f.deal
        /\ Sound(plan) /\ ~ Deals(plan) /\ (Matches(plan) <=> vault.deal = f.deal)
  BY <1>2, SignPlan
<1>4. PICK started :
        /\ DOMAIN started = {Extension, Recovery}
        /\ started[Extension] = StartSign(vault, Extension, Recovery)
        /\ started[Recovery] = StartSign(f, Recovery, Extension)
        /\ Begin("offline", started, vault.deal = f.deal)
  <2> DEFINE s == [p \in {Extension, Recovery} |->
                  IF p = Extension THEN StartSign(vault, Extension, Recovery)
                                   ELSE StartSign(f, Recovery, Extension)]
  <2>1. /\ DOMAIN s = {Extension, Recovery}
        /\ s[Extension] = StartSign(vault, Extension, Recovery)
        /\ s[Recovery] = StartSign(f, Recovery, Extension)
    BY <1>2
  <2>2. Begin("offline", s, vault.deal = f.deal)
    BY <1>1
  <2> HIDE DEF s
  <2> QED BY <2>1, <2>2
<1>4a. PICK fits \in BOOLEAN :
         /\ fits = (vault.deal = f.deal)
         /\ Begin(plan.kind, started, fits)
  BY <1>3, <1>4
<1>5. \A p \in DOMAIN started : Begun(started[p], p, plan)
  <2>1. Begun(StartSign(vault, Extension, Recovery), Extension, plan)
    BY <1>2, <1>3, SignBegun
  <2>2. Begun(StartSign(f, Recovery, Extension), Recovery, plan)
    BY <1>2, <1>3, SignBegun
  <2> QED BY <2>1, <2>2, <1>4
<1>6. /\ DOMAIN started = IF plan.kind = "sign" THEN {vault.party} ELSE {Extension, Recovery}
      /\ DOMAIN started \subseteq Party \ {Server}
  BY <1>2, <1>3, <1>4
<1>7. deals \in Nat
  BY BoundsAreNaturals DEF TypeOK
<1>8. /\ run = None /\ run'.kind = "offline" /\ run'.fits = fits
  BY <1>3, <1>4a, <1>5, <1>6, <1>7, BeginStep DEF Begins
<1>9. PlanOfRun(plan)'
  <2>1. ~ Dealing' /\ First' = Extension /\ Second' = Recovery
    BY <1>8 DEF Dealing, First, Second
  <2> QED BY <2>1, <1>3, <1>4a, <1>8 DEF PlanOfRun
<1>10. TypeOK' /\ Cast' /\ Agreed' /\ OutcomeFollowsShares'
  <2>1. {vault', live', staged'} \subseteq Maybe(Shares) /\ files' \subseteq Shares
        /\ deals' \in 0..MaxDeals
    BY <1>0 DEF TypeOK, Maybe
  <2>2. TypeOK /\ vault' = vault
    BY <1>0
  <2> HIDE DEF Inv
  <2> QED BY <2>1, <2>2, <1>3, <1>4a, <1>5, <1>6, <1>9, BeginInv
<1>11. Held' = Held /\ Owned' /\ SharesFit'
  BY <1>0, SameShares
<1>12. Numbered'
  BY <1>0, <1>8, <1>11, SignNumbered
<1>13. QED
  BY <1>10, <1>11, <1>12

-----------------------------------------------------------------------------
(* The server's session is opened                                           *)

\* As long as nobody has heard from the server its line may be any.
LEMMA ServersLine ==
    ASSUME NEW plan \in Plans, Sound(plan), Deals(plan), NEW a \in Scalar, NEW b \in Scalar
    PROVE  \E other \in Plans :
             /\ other.kind = plan.kind /\ other.deal = plan.deal
             /\ other.expected = plan.expected
             /\ other.c[Server] = a /\ other.m[Server] = b
             /\ \A p \in {Extension, Recovery} : other.c[p] = plan.c[p]
             /\ Sound(other) /\ Deals(other) /\ Participants(other) = Participants(plan)
             /\ \A s : Fair(s, plan) /\ Unheard(s) => Fair(s, other)
             /\ \A e \in Messages : e.round = 1 /\ e.from # Server /\ Truthful(e, plan)
                                    => Truthful(e, other)
<1> DEFINE C == [plan.c EXCEPT ![Server] = a]
           M == [plan.m EXCEPT ![Server] = b]
           w == [kind |-> plan.kind, deal |-> plan.deal, expected |-> plan.expected,
                 c |-> C, m |-> M, first |-> plan.first, second |-> plan.second, d |-> plan.d]
<1>1. plan.c \in [Party -> Scalar] /\ plan.m \in [Party -> Scalar]
  BY DEF Plans
<1>2. C \in [Party -> Scalar] /\ M \in [Party -> Scalar] /\ C[Server] = a /\ M[Server] = b
      /\ \A p \in Party : p # Server => C[p] = plan.c[p] /\ M[p] = plan.m[p]
  BY <1>1 DEF Party
<1> HIDE DEF C, M
<1>3. w \in Plans
  BY <1>2 DEF Plans
<1>4. /\ w.kind = plan.kind /\ w.deal = plan.deal /\ w.expected = plan.expected
      /\ w.c = C /\ w.m = M
  OBVIOUS
<1> HIDE DEF w
<1>5. Sound(w) /\ Deals(w) /\ Participants(w) = Participants(plan)
  BY <1>4 DEF Sound, Deals, Participants
<1>6. ASSUME NEW s, Fair(s, plan), Unheard(s)
      PROVE  Fair(s, w)
  <2>1. s \in DealSessions /\ Follows(s, plan.deal, plan.expected, plan.c, plan.m)
    BY <1>6 DEF Fair
  <2>2. s.round = 1 /\ s.fragments[Server] = None /\ \A q \in Party : s.proofs[q] = None
    BY <1>6 DEF Unheard
  <2>3. Follows(s, plan.deal, plan.expected, C, M)
    BY <1>2, <2>1, <2>2 DEF Follows
  <2> QED BY <1>4, <1>5, <2>1, <2>3 DEF Fair
<1>7. ASSUME NEW e \in Messages, e.round = 1, e.from # Server, Truthful(e, plan)
      PROVE  Truthful(e, w)
  <2>1. e.from \in Party
    BY DEF Messages
  <2>2. Says(e, C, M)
    BY <1>2, <1>7, <2>1 DEF Truthful, Says
  <2> QED BY <1>4, <1>5, <2>2 DEF Truthful
<1>8. \A p \in {Extension, Recovery} : w.c[p] = plan.c[p]
  BY <1>2, <1>4, PartiesDiffer DEF Party
<1>9. QED
  BY <1>2, <1>3, <1>4, <1>5, <1>6, <1>7, <1>8

\* With its first round the server is one of them.
LEMMA Opened ==
    ASSUME TypeOK, Cast, run # None, run.at = "open", NEW plan, Planned(plan),
           NEW other \in Plans, PlanOfRun(other)',
           \A p \in Locals : Fair(run.local[p], other),
           \A e \in Sent : Truthful(e, other),
           Deals(other) <=> Deals(plan), Participants(other) = Participants(plan),
           NEW started, Begun(started, Server, other), session' = started.session,
           run' = [run EXCEPT !.at = "advance", !.flying = @ \union started.out],
           UNCHANGED <<wallet, deals>>
    PROVE  TypeOK' /\ Cast' /\ Agreed' /\ OutcomeFollowsShares'
<1>1. run \in Runs
  BY DEF TypeOK, Maybe
<1>2. /\ started.session \in Sessions /\ started.out \subseteq Messages
      /\ started.session # None /\ started.session.me = Server
  <2>1. started \in Replies
    BY DEF Begun
  <2>2. started.session \in Sessions /\ started.out \subseteq Messages
    BY <2>1 DEF Replies
  <2> QED BY <2>2, NoneIsNoValue DEF Begun
<1>3. run' \in Runs
  <2> DEFINE S(at, flying) == [run EXCEPT !.at = at, !.flying = flying]
             sum == run.flying \union started.out
  <2>1. \A at \in {"advance"}, flying \in SUBSET Messages : S(at, flying) \in Runs
    BY <1>1 DEF Runs
  <2>2. sum \in SUBSET Messages
    BY <1>1, <1>2 DEF Runs
  <2>3. run' = S("advance", sum)
    BY <1>1 DEF Runs
  <2> HIDE DEF sum, S
  <2> QED BY <2>1, <2>2, <2>3
<1>4. /\ run'.kind = run.kind /\ run'.deal = run.deal /\ run'.at = "advance"
      /\ run'.local = run.local /\ run'.flying = run.flying \union started.out
      /\ run'.next = run.next /\ run'.count = run.count
      /\ run'.fits = run.fits /\ run'.disturbed = run.disturbed
  BY <1>1 DEF Runs
<1>5. Locals' = Locals
  BY <1>4 DEF Locals
<1>6. TypeOK'
  BY <1>2, <1>3, <1>4, NoneIsNoValue DEF TypeOK, Maybe, wallet
<1>7. Cast'
  BY <1>4, <1>5 DEF Cast, Going, wallet
<1>8. KeptTo(other)'
  <2>1. (\A e \in Sent : Truthful(e, other))'
    BY <1>4 DEF Sent, Begun
  <2>2. (\A p \in Locals : Fair(run.local[p], other))'
    BY <1>4, <1>5
  <2>3. Fair(session', other)
    BY DEF Begun
  <2> QED BY <2>1, <2>2, <2>3, <1>4 DEF KeptTo
<1>9. Delivered(other)'
  BY <1>4 DEF Delivered
<1>10. ASSUME ~ run.disturbed PROVE InStep(other)'
  <2>1. InStep(plan) /\ run.count = 0 /\ Talking = Locals
    BY <1>10 DEF Planned, Going, InStep, Talking
  <2>2. Complete(run.flying, 1, Locals, plan)
    BY <2>1 DEF InStep
  <2>3. Complete(run.flying, 1, Locals, other)
    BY <2>2 DEF Complete
  <2>4. Complete(run.flying \union started.out, 1, Locals \union {Server}, other)
    BY <2>3, CompleteBoth DEF Begun
  <2>5. Talking' = Locals \union {Server}
    BY <1>4, <1>5 DEF Talking, Cast
  <2>6. \A p \in Locals : run.local[p].round = 1 /\ Prepared(run.local[p], other)
    BY <2>1 DEF InStep, Prepared
  <2>7. session' # None /\ session'.round = 1 /\ Prepared(session', other)
    BY <1>2 DEF Begun
  <2> QED BY <2>1, <2>4, <2>5, <2>6, <2>7, <1>4, <1>5 DEF InStep
<1>11. Agreed'
  <2>1. Planned(other)'
    BY <1>4, <1>8, <1>9, <1>10 DEF Planned
  <2> QED BY <2>1 DEF Agreed
<1>12. OutcomeFollowsShares'
  BY <1>4 DEF OutcomeFollowsShares
<1>13. QED
  BY <1>6, <1>7, <1>11, <1>12

\* What leaves the wallet alone.
LEMMA SameNumbered ==
    ASSUME Numbered, run # None, run'.kind = run.kind, run'.deal = run.deal,
           run'.fits = run.fits, UNCHANGED <<wallet, deals>>
    PROVE  Numbered'
<1>1. Held' = Held
  BY DEF Held, wallet
<1> QED BY <1>1 DEF Numbered, Dealing, wallet

\* What the server answers.
LEMMA OpenInv == ASSUME Inv, Open PROVE Inv'
<1> USE DEF Inv
<1>1. run # None /\ run.at = "open" /\ UNCHANGED <<wallet, deals>>
  BY DEF Open
<1>2. PICK started \in ServerStarts :
        /\ session' = started.session
        /\ run' = [run EXCEPT !.at = "advance", !.flying = @ \union started.out]
  BY DEF Open
<1>3. PICK plan \in Plans : Planned(plan)
  BY <1>1 DEF Agreed, Going
<1>4. run \in Runs /\ vault' = vault /\ live' = live
  BY <1>1 DEF TypeOK, Maybe, wallet
<1>5. /\ run'.kind = run.kind /\ run'.deal = run.deal /\ run'.at = "advance"
      /\ run'.fits = run.fits
  BY <1>2, <1>4 DEF Runs
<1>6. /\ PlanOfRun(plan) /\ Sound(plan) /\ plan.kind = run.kind
      /\ run.kind \in {"dkg", "reshare", "sign"}
  BY <1>1, <1>3, <1>4 DEF Planned, PlanOfRun, Cast, Runs
<1>7. /\ \A p \in Locals : Fair(run.local[p], plan)
      /\ \A e \in Sent : Truthful(e, plan)
      /\ Dealing => /\ \A p \in Locals : Unheard(run.local[p])
                    /\ \A e \in Sent : e.round = 1 /\ e.from # Server
      /\ Sent \subseteq Messages
  BY <1>1, <1>3, <1>4 DEF Planned, KeptTo, Sent, Runs
<1>8. TypeOK' /\ Cast' /\ Agreed' /\ OutcomeFollowsShares'
  <2>1. CASE run.kind = "dkg"
    <3>1. PICK a \in Draws, b \in Draws : started = StartWith(Server, Line(a, b), None, run.deal)
      BY <1>2, <2>1 DEF ServerStarts
    <3>2. plan.deal = run.deal /\ plan.expected = None /\ Deals(plan) /\ Dealing
      BY <1>6, <2>1 DEF PlanOfRun, Dealing, Expected, Deals
    <3>3. PICK other \in Plans :
             /\ other.kind = plan.kind /\ other.deal = plan.deal
             /\ other.expected = plan.expected
             /\ other.c[Server] = a /\ other.m[Server] = b
             /\ Sound(other) /\ Deals(other) /\ Participants(other) = Participants(plan)
             /\ \A s : Fair(s, plan) /\ Unheard(s) => Fair(s, other)
             /\ \A e \in Messages : e.round = 1 /\ e.from # Server /\ Truthful(e, plan)
                                    => Truthful(e, other)
      <4>1. a \in Scalar /\ b \in Scalar
        BY DrawsAreScalars
      <4> QED BY <1>6, <3>2, <4>1, ServersLine
    <3>4. Begun(started, Server, other)
      <4>1. Begun(StartWith(Server, Line(other.c[Server], other.m[Server]), other.expected,
                            other.deal), Server, other)
        BY <3>3, DealBegun DEF Party
      <4> QED BY <4>1, <3>1, <3>2, <3>3
    <3>5. PlanOfRun(other)'
      <4>1. Dealing' /\ Expected' = None
        BY <1>5, <2>1 DEF Dealing, Expected
      <4> QED BY <4>1, <1>5, <1>6, <2>1, <3>2, <3>3 DEF PlanOfRun
    <3>6. /\ \A p \in Locals : Fair(run.local[p], other)
          /\ \A e \in Sent : Truthful(e, other)
      BY <1>7, <3>2, <3>3
    <3> HIDE DEF Inv
    <3>7. TypeOK /\ Cast
      BY DEF Inv
    <3> QED BY <1>1, <1>2, <1>3, <3>2, <3>3, <3>4, <3>5, <3>6, <3>7, Opened
  <2>2. CASE run.kind = "reshare"
    <3>1. PICK b \in Draws : started = StartWith(Server, ReshareRow(Server, live.point, Recovery, b),
                                                 live.key, run.deal)
      BY <1>2, <2>2 DEF ServerStarts
    <3>2. plan.deal = run.deal /\ plan.expected = vault.key /\ Deals(plan) /\ Dealing
          /\ FromShares(plan)
      BY <1>6, <2>2 DEF PlanOfRun, Dealing, Expected, Deals
    <3>3. vault \in Held /\ live \in Held /\ live \in Shares
      BY <1>1, <2>2 DEF Numbered, Held, TypeOK, Maybe
    <3>4. live.key = vault.key /\ live.point \in Scalar
      BY <3>3 DEF SharesFit, Shares
    <3> DEFINE a == Times(LagrangeAtZero(Server, Recovery), live.point)
    <3>5. a \in Scalar
      BY <3>4, Weights, Closed, PartiesDiffer DEF Party
    <3>6. ReshareRow(Server, live.point, Recovery, b) = Line(a, b)
      BY DEF ReshareRow
    <3>7. PICK other \in Plans :
             /\ other.kind = plan.kind /\ other.deal = plan.deal
             /\ other.expected = plan.expected
             /\ other.c[Server] = a /\ other.m[Server] = b
             /\ \A p \in {Extension, Recovery} : other.c[p] = plan.c[p]
             /\ Sound(other) /\ Deals(other) /\ Participants(other) = Participants(plan)
             /\ \A s : Fair(s, plan) /\ Unheard(s) => Fair(s, other)
             /\ \A e \in Messages : e.round = 1 /\ e.from # Server /\ Truthful(e, plan)
                                    => Truthful(e, other)
      <4> HIDE DEF a
      <4>1. b \in Scalar
        BY DrawsAreScalars
      <4> QED BY <1>6, <3>2, <3>5, <4>1, ServersLine
    <3>8. Begun(started, Server, other)
      <4>1. Begun(StartWith(Server, Line(other.c[Server], other.m[Server]), other.expected,
                            other.deal), Server, other)
        BY <3>7, DealBegun DEF Party
      <4> QED BY <4>1, <3>1, <3>2, <3>4, <3>6, <3>7
    <3>9. PlanOfRun(other)'
      <4>1. Dealing' /\ Expected' = vault.key
        BY <1>4, <1>5, <2>2 DEF Dealing, Expected
      <4>2. FromShares(other)'
        BY <1>4, <3>2, <3>7 DEF FromShares
      <4> QED BY <4>1, <4>2, <1>5, <1>6, <2>2, <3>2, <3>7 DEF PlanOfRun
    <3>10. /\ \A p \in Locals : Fair(run.local[p], other)
           /\ \A e \in Sent : Truthful(e, other)
      BY <1>7, <3>2, <3>7
    <3> HIDE DEF Inv
    <3>11. TypeOK /\ Cast
      BY DEF Inv
    <3> QED BY <1>1, <1>2, <1>3, <3>2, <3>7, <3>8, <3>9, <3>10, <3>11, Opened
  <2>3. CASE run.kind = "sign"
    <3>1. started = StartSign(live, Server, vault.party)
      BY <1>2, <2>3 DEF ServerStarts
    <3>2. /\ plan.first = vault.party /\ plan.second = Server /\ ~ Deals(plan) /\ ~ Dealing
          /\ plan.d[Server] = live.deal
          /\ run.fits <=> Matches(plan)
      BY <1>6, <2>3 DEF PlanOfRun, Dealing, First, Second, Deals
    <3>3. live \in Shares /\ vault.party \in Party /\ vault.party # Server /\ Server \in Party
      BY <1>1, <2>3 DEF Numbered, Owned, TypeOK, Maybe, Shares, Party
    <3>4. Begun(started, Server, plan)
      BY <1>6, <3>1, <3>2, <3>3, SignBegun
    <3>5. PlanOfRun(plan)'
      <4>1. ~ Dealing' /\ First' = vault.party /\ Second' = Server
        BY <1>4, <1>5, <2>3 DEF Dealing, First, Second
      <4> QED BY <4>1, <1>4, <1>5, <1>6, <2>3, <3>2 DEF PlanOfRun
    <3> HIDE DEF Inv
    <3>6. TypeOK /\ Cast
      BY DEF Inv
    <3> QED BY <1>1, <1>2, <1>3, <1>7, <3>4, <3>5, <3>6, Opened
  <2> QED BY <1>6, <2>1, <2>2, <2>3
<1>9. Held' = Held /\ Owned' /\ SharesFit'
  BY <1>1, SameShares DEF wallet
<1>10. Numbered'
  BY <1>1, <1>5, SameNumbered
<1>11. QED
  BY <1>8, <1>9, <1>10

-----------------------------------------------------------------------------
(* The local half of a turn                                                 *)

\* What a step makes of the run.
Becomes(at, local, flying, next, count) ==
    /\ run' \in Runs
    /\ run'.kind = run.kind /\ run'.deal = run.deal /\ run'.fits = run.fits
    /\ run'.at = at /\ run'.local = local /\ run'.flying = flying
    /\ run'.next = next /\ run'.count = count

Places == {"open", "advance", "send", "abort", "returned", "failed"}

\* A step may change these of it.
LEMMA RunChanges ==
    ASSUME NEW r \in Runs, NEW at \in Places, NEW local \in [Party -> Maybe(Sessions)],
           NEW flying \in SUBSET Messages, NEW next \in SUBSET Messages,
           NEW count \in 0..MaxRounds
    PROVE  /\ [r EXCEPT !.at = at] \in Runs
           /\ [r EXCEPT !.at = at, !.local = local, !.next = next] \in Runs
           /\ [r EXCEPT !.local = local, !.flying = flying, !.count = count, !.at = at] \in Runs
           /\ [r EXCEPT !.at = at, !.flying = flying, !.next = next] \in Runs
           /\ [r EXCEPT !.at = at, !.count = count, !.next = next, !.flying = flying] \in Runs
<1>1. [r EXCEPT !.at = at] \in Runs
  BY DEF Runs, Places
<1>2. [r EXCEPT !.at = at, !.local = local, !.next = next] \in Runs
  BY DEF Runs, Places
<1>3. [r EXCEPT !.local = local, !.flying = flying, !.count = count, !.at = at] \in Runs
  BY DEF Runs, Places
<1>4. [r EXCEPT !.at = at, !.flying = flying, !.next = next] \in Runs
  BY DEF Runs, Places
<1>5. [r EXCEPT !.at = at, !.count = count, !.next = next, !.flying = flying] \in Runs
  BY DEF Runs, Places
<1>6. QED
  BY <1>1, <1>2, <1>3, <1>4, <1>5

\* A run that was disturbed, or started from shares that do not belong
\* together, may fail.
LEMMA Failed ==
    ASSUME TypeOK, Cast, run # None, run' \in Runs, run'.kind = run.kind,
           run'.local = run.local, run'.at \in {"abort", "failed"},
           ~ run'.fits \/ run'.disturbed,
           {vault', live', staged'} \subseteq Maybe(Shares), files' \subseteq Shares,
           deals' = deals, vault' = vault,
           session' \in Maybe(Sessions), session' # None => session'.me = Server,
           run.kind = "offline" => session' = None
    PROVE  TypeOK' /\ Cast' /\ Agreed' /\ OutcomeFollowsShares'
<1>1. Locals' = Locals
  BY DEF Locals
<1>2. TypeOK'
  BY DEF TypeOK, Maybe
<1>3. Cast'
  BY <1>1 DEF Cast, Going
<1>4. Agreed' /\ OutcomeFollowsShares'
  BY DEF Agreed, Going, OutcomeFollowsShares
<1>5. QED
  BY <1>2, <1>3, <1>4

\* A party that advances in a run that keeps to its plan.
LEMMA LocalTurn ==
    ASSUME TypeOK, Cast, Numbered, run # None, run.at = "advance", NEW plan \in Plans,
           Planned(plan), NEW p \in Locals, ~ Finished(run.local[p])
    PROVE  LET s == run.local[p]
               r == Advance(s, InboxFor(p, run.flying))
           IN  /\ s.me = p
               /\ r # Refused =>
                    /\ Advanced(s, r) /\ Fair(r.session, plan)
                    /\ \A e \in r.out : Truthful(e, plan)
                    /\ s.round \in 1..3
                    /\ s.round = 3 => r.out = {}
                    /\ s.round # 3 => Complete(r.out, s.round + 1, {p}, plan)
               /\ ~ run.disturbed /\ run.fits => r # Refused
               /\ ~ run.disturbed /\ r # Refused => Prepared(r.session, plan)
               /\ ~ run.disturbed => s.round = run.count + 1
<1> DEFINE s == run.local[p]
           inbox == InboxFor(p, run.flying)
           r == Advance(s, inbox)
<1>1. run \in Runs /\ p \in Party
  BY DEF TypeOK, Maybe, Locals
<1>2. s.me = p /\ s # None
  BY DEF TypeOK, Locals
<1>3. Sound(plan) /\ Fair(s, plan) /\ PlanOfRun(plan)
  BY DEF Planned, PlanOfRun, KeptTo
<1>4. run.flying \subseteq Messages /\ \A e \in run.flying : Truthful(e, plan)
  BY <1>1 DEF Runs, Planned, KeptTo, Sent
<1>5. inbox \subseteq Messages /\ \A e \in inbox : e.from # s.me /\ Truthful(e, plan)
  BY <1>2, <1>4 DEF InboxFor
<1>6. /\ r # Refused =>
            /\ Advanced(s, r) /\ Fair(r.session, plan)
            /\ \A e \in r.out : Truthful(e, plan)
            /\ s.round \in 1..3
            /\ s.round = 3 => r.out = {}
            /\ s.round # 3 => Complete(r.out, s.round + 1, {s.me}, plan)
      /\ Prepared(s, plan) /\ Suffices(s, inbox, plan) /\ Matches(plan) /\ s.round # 4
         => r # Refused
      /\ Prepared(s, plan) /\ Suffices(s, inbox, plan) /\ r # Refused
         => Prepared(r.session, plan)
  <2> HIDE DEF inbox, s
  <2> QED BY <1>3, <1>5, OneAdvance
<1>7. ~ run.disturbed => s.round = run.count + 1 /\ Prepared(s, plan)
                         /\ Complete(run.flying, run.count + 1, Talking, plan)
  BY DEF Planned, Going, InStep
<1>8. ~ run.disturbed => Suffices(s, inbox, plan)
  <2>1. Talking = Participants(plan)
    BY <1>3, AllTalk
  <2>2. ASSUME ~ run.disturbed PROVE Complete(run.flying, s.round, Participants(plan), plan)
    BY <1>7, <2>1, <2>2
  <2> HIDE DEF s
  <2>3. ASSUME ~ run.disturbed PROVE Suffices(s, InboxFor(s.me, run.flying), plan)
    BY <1>3, <1>4, <2>2, <2>3, InboxSuffices
  <2> QED BY <2>3, <1>2
<1>9. run.fits => Matches(plan)
  BY <1>3, FitsMatches
<1>10. s.round # 4
  BY DEF Finished
<1>11. QED
  <2> HIDE DEF s, r, inbox
  <2>1. /\ ~ run.disturbed /\ run.fits => r # Refused
        /\ ~ run.disturbed /\ r # Refused => Prepared(r.session, plan)
    BY <1>6, <1>7, <1>8, <1>9, <1>10
  <2> QED BY <1>2, <1>6, <1>7, <2>1 DEF s, r, inbox

\* All parties advance, or the run fails.
LEMMA AdvanceLocalInv == ASSUME Inv, AdvanceLocal PROVE Inv'
<1> USE DEF Inv
<1>1. run # None /\ run.at = "advance" /\ UNCHANGED <<wallet, deals, session>>
  BY DEF AdvanceLocal
<1>2. PICK plan \in Plans : Planned(plan)
  BY <1>1 DEF Agreed, Going
<1>3. run \in Runs /\ vault' = vault /\ live' = live /\ staged' = staged /\ files' = files
      /\ deals' = deals /\ session' = session
  BY <1>1 DEF TypeOK, Maybe, wallet
<1>4. /\ run.at \in Places /\ run.local \in [Party -> Maybe(Sessions)]
      /\ run.flying \in SUBSET Messages /\ run.next \in SUBSET Messages
      /\ run.count \in 0..MaxRounds /\ run.count < MaxRounds
  <2>1. run.count < MaxRounds
    BY <1>1 DEF Cast, Going
  <2> QED BY <2>1, <1>3 DEF Runs, Places
<1> DEFINE active == {p \in Locals : ~ Finished(run.local[p])}
           turn == [p \in active |-> Advance(run.local[p], InboxFor(p, run.flying))]
           local == [p \in Party |-> IF p \in active THEN turn[p].session ELSE run.local[p]]
           next == UNION {turn[p].out : p \in active}
           out == [p \in active |-> turn[p].out]
<1>5. \A p \in active :
        LET s == run.local[p]
            r == turn[p]
        IN  /\ s.me = p
            /\ r # Refused =>
                 /\ Advanced(s, r) /\ Fair(r.session, plan)
                 /\ \A e \in r.out : Truthful(e, plan)
                 /\ s.round \in 1..3
                 /\ s.round = 3 => r.out = {}
                 /\ s.round # 3 => Complete(r.out, s.round + 1, {p}, plan)
            /\ ~ run.disturbed /\ run.fits => r # Refused
            /\ ~ run.disturbed /\ r # Refused => Prepared(r.session, plan)
            /\ ~ run.disturbed => s.round = run.count + 1
  <2> SUFFICES ASSUME NEW p \in active
      PROVE LET s == run.local[p]
                r == Advance(s, InboxFor(p, run.flying))
            IN  /\ s.me = p
                /\ r # Refused =>
                     /\ Advanced(s, r) /\ Fair(r.session, plan)
                     /\ \A e \in r.out : Truthful(e, plan)
                     /\ s.round \in 1..3
                     /\ s.round = 3 => r.out = {}
                     /\ s.round # 3 => Complete(r.out, s.round + 1, {p}, plan)
                /\ ~ run.disturbed /\ run.fits => r # Refused
                /\ ~ run.disturbed /\ r # Refused => Prepared(r.session, plan)
                /\ ~ run.disturbed => s.round = run.count + 1
    OBVIOUS
  <2>1. p \in Locals /\ ~ Finished(run.local[p]) /\ TypeOK /\ Cast /\ Numbered
    OBVIOUS
  <2> HIDE DEF Inv, active
  <2> QED BY <1>1, <1>2, <2>1, LocalTurn
<1>6. run' = IF \E p \in active : turn[p] = Refused
             THEN [run EXCEPT !.at = Fail]
             ELSE IF ServerFollows(local)
             THEN [run EXCEPT !.at = "send", !.local = local, !.next = next]
             ELSE [run EXCEPT !.local = local, !.flying = next, !.count = @ + 1,
                     !.at = IF Finished(local[Extension]) THEN "returned"
                            ELSE IF run.count + 1 = MaxRounds THEN Fail
                            ELSE "advance"]
  BY DEF AdvanceLocal
<1>7. active \subseteq Locals /\ active \subseteq Party
  BY DEF Locals
<1>8. ~ run.disturbed => active = Locals /\ run.count \in 0..2
                         /\ \A p \in Locals : run.local[p].round = run.count + 1
  BY <1>1, <1>2 DEF Planned, Going, InStep, Finished
<1>9. /\ \A p \in active : local[p] = turn[p].session
      /\ \A p \in Party \ active : local[p] = run.local[p]
      /\ \A p \in active : out[p] = turn[p].out /\ turn[p].out \subseteq next
      /\ \A e \in next : \E p \in active : e \in out[p]
  BY <1>7
<1>10. TypeOK /\ Cast /\ Numbered
  OBVIOUS
<1>11. Held' = Held /\ Owned' /\ SharesFit'
  BY <1>3, SameShares
<1> HIDE DEF active, turn, out
<1>12. CASE \E p \in active : turn[p] = Refused
  <2>1. run' = [run EXCEPT !.at = Fail]
    BY <1>6, <1>12
  <2>2. Fail \in Places /\ Fail \in {"abort", "failed"}
    BY DEF Fail, Places
  <2>3. run' \in Runs
    BY <1>3, <1>4, <2>1, <2>2, RunChanges
  <2>4. /\ run'.kind = run.kind /\ run'.deal = run.deal /\ run'.fits = run.fits
        /\ run'.local = run.local /\ run'.at \in {"abort", "failed"}
        /\ run'.disturbed = run.disturbed
    BY <1>3, <2>1, <2>2 DEF Runs
  <2>5. ~ run'.fits \/ run'.disturbed
    <3>1. run.fits \in BOOLEAN /\ run.disturbed \in BOOLEAN
      BY <1>3 DEF Runs
    <3> QED BY <1>5, <1>12, <2>4, <3>1
  <2>6. TypeOK' /\ Cast' /\ Agreed' /\ OutcomeFollowsShares'
    <3>1. /\ {vault', live', staged'} \subseteq Maybe(Shares) /\ files' \subseteq Shares
          /\ session' \in Maybe(Sessions) /\ (session' # None => session'.me = Server)
          /\ run.kind = "offline" => session' = None
      BY <1>1, <1>3 DEF TypeOK, Cast
    <3> HIDE DEF Inv
    <3> QED BY <1>1, <1>3, <1>10, <2>3, <2>4, <2>5, <3>1, Failed
  <2>7. Numbered'
    BY <1>1, <2>4, SameNumbered
  <2> QED BY <1>11, <2>6, <2>7
<1>13. CASE \A p \in active : turn[p] # Refused
  <2>1. \A p \in active : /\ turn[p].session \in Sessions /\ turn[p].session # None
                          /\ turn[p].session.me = p /\ turn[p].out \subseteq Messages
                          /\ turn[p].session.round = run.local[p].round + 1
                          /\ Fair(turn[p].session, plan)
                          /\ \A e \in turn[p].out : Truthful(e, plan)
    <3> TAKE p \in active
    <3>1. turn[p] # Refused
      BY <1>13
    <3>2. Advanced(run.local[p], turn[p]) /\ run.local[p].me = p
      BY <1>5, <3>1
    <3>3. turn[p] \in Replies
      BY <3>2 DEF Advanced
    <3>4. turn[p].session \in Sessions /\ turn[p].out \subseteq Messages
      BY <3>3 DEF Replies
    <3> QED BY <1>5, <3>1, <3>2, <3>4, NoneIsNoValue DEF Advanced
  <2>2. local \in [Party -> Maybe(Sessions)]
    BY <1>4, <2>1 DEF Maybe
  <2>3. next \in SUBSET Messages /\ \A e \in next : Truthful(e, plan)
    BY <2>1
  <2> HIDE DEF local, next
  <2>4. \A p \in Party : local[p] # None <=> p \in Locals
    BY <1>7, <1>9, <2>1 DEF Locals
  <2>5. \A p \in Locals : Fair(local[p], plan) /\ local[p].me = p
    <3>1. \A p \in Locals : Fair(run.local[p], plan) /\ run.local[p].me = p
      BY <1>1, <1>2 DEF Planned, KeptTo, TypeOK, Locals
    <3>2. Locals \subseteq Party
      BY DEF Locals
    <3> HIDE DEF Inv
    <3> QED BY <1>9, <2>1, <3>1, <3>2
  <2>6. ~ run.disturbed =>
          /\ \A p \in Locals : local[p].round = run.count + 2 /\ Prepared(local[p], plan)
          /\ run.count = 2 => next = {}
          /\ run.count # 2 => Complete(next, run.count + 2, Locals, plan)
    <3> SUFFICES ASSUME ~ run.disturbed
                 PROVE  /\ \A p \in Locals : local[p].round = run.count + 2 /\ Prepared(local[p], plan)
                        /\ run.count = 2 => next = {}
                        /\ run.count # 2 => Complete(next, run.count + 2, Locals, plan)
      OBVIOUS
    <3>1. active = Locals /\ run.count \in 0..2
          /\ \A p \in Locals : run.local[p].round = run.count + 1
      BY <1>8
    <3>2. \A p \in Locals : local[p].round = run.count + 2 /\ Prepared(local[p], plan)
      <4> TAKE p \in Locals
      <4>1. p \in active /\ turn[p] # Refused /\ Prepared(turn[p].session, plan)
        BY <1>5, <1>13, <3>1
      <4>2. run.local[p].round + 1 = run.count + 2
        BY <3>1
      <4>3. local[p] = turn[p].session /\ turn[p].session.round = run.local[p].round + 1
        BY <1>9, <2>1, <4>1
      <4> HIDE DEF Inv
      <4> QED BY <4>1, <4>2, <4>3
    <3>3. run.count = 2 => next = {}
      <4> SUFFICES ASSUME run.count = 2 PROVE next = {}
        OBVIOUS
      <4>1. ASSUME NEW p \in active PROVE out[p] = {}
        <5>1. run.local[p].round = 3
          BY <3>1
        <5> QED BY <1>5, <1>9, <1>13, <5>1
      <4> QED BY <1>9, <4>1
    <3>4. ASSUME run.count # 2 PROVE Complete(next, run.count + 2, Locals, plan)
      <4>1. \A p \in Locals : Complete(out[p], run.count + 2, {p}, plan) /\ out[p] \subseteq next
        BY <1>5, <1>9, <1>13, <3>1, <3>4
      <4>2. \A e \in next : \E p \in Locals : e \in out[p]
        BY <1>9, <3>1
      <4> QED BY <4>1, <4>2, CompleteUnion
    <3> QED BY <3>2, <3>3, <3>4
  <2>7. PlanOfRun(plan) /\ Delivered(plan) /\ KeptTo(plan)
        /\ (~ run.disturbed => InStep(plan)) /\ run.kind = plan.kind
    BY <1>1, <1>2 DEF Planned, Going, PlanOfRun
  <2>8. CASE run.kind # "offline"
    <3>1. Becomes("send", local, run.flying, next, run.count) /\ run'.disturbed = run.disturbed
      <4>1. run' = [run EXCEPT !.at = "send", !.local = local, !.next = next]
        BY <1>6, <1>13, <2>8 DEF ServerFollows
      <4>2. run' \in Runs
        <5>1. "send" \in Places
          BY DEF Places
        <5> QED BY <1>3, <1>4, <2>2, <2>3, <4>1, <5>1, RunChanges
      <4> QED BY <1>3, <4>1, <4>2 DEF Becomes, Runs
    <3>2. Locals' = Locals
      BY <2>4, <3>1 DEF Becomes, Locals
    <3>3. TypeOK'
      BY <1>3, <2>4, <2>5, <3>1 DEF TypeOK, Maybe, Becomes
    <3>4. Cast'
      <4>1. run'.at = "send" /\ run'.count = run.count /\ run'.kind = run.kind
        BY <3>1 DEF Becomes
      <4>2. run.kind = "offline" => session = None
        BY <1>1 DEF Cast
      <4>3. Locals = IF run.kind = "sign" THEN {vault.party} ELSE {Extension, Recovery}
        BY <1>1 DEF Cast
      <4> HIDE DEF Inv
      <4> QED BY <1>3, <1>4, <2>8, <3>2, <4>1, <4>2, <4>3 DEF Cast
    <3>5. PlanOfRun(plan)'
      BY <1>1, <1>3, <2>7, <3>1, PlanStays DEF Becomes
    <3>6. KeptTo(plan)'
      <4>1. Sent' = run.flying \union next
        BY <3>1 DEF Sent, Becomes
      <4>2. \A e \in Sent' : Truthful(e, plan)
        BY <2>3, <2>7, <4>1 DEF KeptTo, Sent
      <4>3. \A p \in Locals' : Fair(run'.local[p], plan)
        BY <2>5, <3>1, <3>2 DEF Becomes
      <4>4. session' # None => Fair(session', plan)
        BY <1>3, <2>7 DEF KeptTo
      <4> QED BY <4>2, <4>3, <4>4, <3>1 DEF KeptTo, Becomes
    <3>7. Delivered(plan)'
      BY <3>1 DEF Becomes, Delivered
    <3>8. ASSUME ~ run.disturbed PROVE InStep(plan)'
      <4>1. InStep(plan) /\ Talking' = Talking
        BY <1>1, <2>7, <3>1, <3>2, <3>8 DEF Talking, Becomes
      <4> QED BY <1>1, <1>3, <2>6, <2>8, <3>1, <3>2, <3>8, <4>1 DEF InStep, Becomes
    <3>9. Planned(plan)'
      BY <3>1, <3>5, <3>6, <3>7, <3>8 DEF Planned
    <3>10. Agreed'
      BY <3>9 DEF Agreed
    <3>11. OutcomeFollowsShares'
      BY <3>1 DEF OutcomeFollowsShares, Becomes
    <3>12. Numbered'
      BY <1>1, <3>1, SameNumbered DEF Becomes
    <3> QED BY <1>11, <3>3, <3>4, <3>10, <3>11, <3>12
  <2>9. CASE run.kind = "offline"
    <3> DEFINE at == IF Finished(local[Extension]) THEN "returned"
                     ELSE IF run.count + 1 = MaxRounds THEN "failed" ELSE "advance"
    <3>1. Becomes(at, local, next, run.next, run.count + 1) /\ run'.disturbed = run.disturbed
      <4>1. run' = [run EXCEPT !.local = local, !.flying = next, !.count = run.count + 1, !.at = at]
        BY <1>3, <1>6, <1>13, <2>9 DEF ServerFollows, Fail
      <4>2. run' \in Runs
        <5>1. at \in Places /\ run.count + 1 \in 0..MaxRounds
          BY <1>4, BoundsAreNaturals DEF Places
        <5> HIDE DEF at
        <5> QED BY <1>3, <1>4, <2>2, <2>3, <4>1, <5>1, RunChanges
      <4> HIDE DEF at
      <4> QED BY <1>3, <4>1, <4>2 DEF Becomes, Runs
    <3>2. Locals' = Locals /\ Locals = {Extension, Recovery}
      BY <1>1, <2>4, <2>9, <3>1 DEF Becomes, Locals, Cast
    <3>3. session = None /\ ~ Deals(plan) /\ ~ Dealing
      BY <1>1, <2>7, <2>9 DEF Cast, Deals, Dealing
    <3>4. TypeOK'
      BY <1>3, <2>4, <2>5, <3>1 DEF TypeOK, Maybe, Becomes
    <3>5. Cast'
      <4>1. Going' => run'.count < MaxRounds
        BY <1>4, <3>1, BoundsAreNaturals DEF Becomes, Going
      <4> QED BY <1>3, <2>9, <3>1, <3>2, <3>3, <4>1 DEF Cast, Becomes
    <3>6. PlanOfRun(plan)'
      BY <1>1, <1>3, <2>7, <3>1, PlanStays DEF Becomes
    <3>7. KeptTo(plan)'
      <4>1. \A e \in Sent' : Truthful(e, plan)
        BY <2>3, <2>7, <3>1 DEF KeptTo, Sent, Becomes
      <4>2. \A p \in Locals' : Fair(run'.local[p], plan)
        BY <2>5, <3>1, <3>2 DEF Becomes
      <4> QED BY <1>3, <3>1, <3>3, <4>1, <4>2 DEF KeptTo, Becomes, Dealing
    <3>8. run'.at = "returned" => run.fits
      <4> SUFFICES ASSUME Finished(local[Extension]) PROVE run.fits
        BY <3>1 DEF Becomes
      <4>1. Fair(local[Extension], plan)
        BY <2>5, <3>2
      <4>2. Matches(plan)
        BY <3>3, <4>1 DEF Fair, Signs, Finished, Matches
      <4>3. run.fits <=> Matches(plan)
        BY <2>7, <3>3 DEF PlanOfRun
      <4> QED BY <4>2, <4>3
    <3>9. Delivered(plan)'
      BY <2>9, <3>1, <3>8 DEF Delivered, Becomes, Dealing
    <3>10. ASSUME ~ run.disturbed PROVE run'.at # "failed" /\ (run'.at = "advance" => run.count # 2)
      <4>1. run.count \in 0..2 /\ local[Extension].round = run.count + 2
        BY <1>8, <2>6, <3>2, <3>10
      <4> QED BY <3>1, <4>1, BoundsAreNaturals DEF Becomes, Finished
    <3>11. ASSUME ~ run.disturbed, run'.at = "advance" PROVE InStep(plan)'
      <4>1. run.count \in 0..2 /\ run.count # 2
        BY <1>8, <3>10, <3>11
      <4>2. Talking' = Locals
        BY <2>9, <3>1, <3>2 DEF Becomes, Talking
      <4>3. Complete(next, run.count + 2, Locals, plan)
            /\ \A p \in Locals : local[p].round = run.count + 2 /\ Prepared(local[p], plan)
        BY <2>6, <3>11, <4>1
      <4>4. run'.count = run.count + 1 /\ run'.count \in 0..2 /\ run'.count + 1 = run.count + 2
        BY <3>1, <4>1 DEF Becomes
      <4> QED BY <2>9, <3>1, <3>2, <3>11, <4>2, <4>3, <4>4 DEF InStep, Becomes
    <3>12. Planned(plan)'
      BY <3>1, <3>6, <3>7, <3>9, <3>11 DEF Planned, Becomes, Going
    <3>13. Agreed'
      BY <3>12 DEF Agreed
    <3>14. OutcomeFollowsShares'
      <4>1. run'.at # "abort" /\ run'.disturbed = run.disturbed /\ run'.fits = run.fits
        BY <3>1 DEF Becomes
      <4>2. run.disturbed \in BOOLEAN
        BY <1>3 DEF Runs
      <4> QED BY <3>8, <3>10, <4>1, <4>2 DEF OutcomeFollowsShares
    <3>15. Numbered'
      BY <1>1, <3>1, SameNumbered DEF Becomes
    <3> QED BY <1>11, <3>4, <3>5, <3>13, <3>14, <3>15
  <2> QED BY <2>8, <2>9
<1>14. QED
  BY <1>12, <1>13

-----------------------------------------------------------------------------
(* The server's half                                                        *)

\* What the server makes of some of the messages for it.
LEMMA ServerReply ==
    ASSUME TypeOK, Numbered, run # None, run.at \in {"advance", "send"},
           NEW plan \in Plans, Planned(plan),
           NEW inbox, inbox \subseteq InboxFor(Server, run.flying)
    PROVE  LET r == Reply(inbox)
           IN  r # Refused =>
                 /\ session # None /\ r \in Replies
                 /\ r.session \in Sessions /\ r.session # None /\ r.session.me = Server
                 /\ r.out \subseteq Messages
                 /\ Fair(r.session, plan) /\ \A e \in r.out : Truthful(e, plan)
                 /\ session.round \in 1..3 /\ r.session.round = session.round + 1
                 /\ session.round # 3 => Complete(r.out, session.round + 1, {Server}, plan)
                 /\ Finished(r.session) => Matches(plan)
                 /\ Finished(r.session) /\ Dealing =>
                      /\ r.session.share = Outcome(run.deal, plan.c, plan.m, Server)
                      /\ r.session.share \in Shares
                      /\ run.kind = "reshare" => vault.key = SumOf(plan.c)
<1> DEFINE s == session
           r == Reply(inbox)
           a == Advance(s, inbox)
<1> SUFFICES ASSUME r # Refused
             PROVE  /\ session # None /\ r \in Replies
                    /\ r.session \in Sessions /\ r.session # None /\ r.session.me = Server
                    /\ r.out \subseteq Messages
                    /\ Fair(r.session, plan) /\ \A e \in r.out : Truthful(e, plan)
                    /\ session.round \in 1..3 /\ r.session.round = session.round + 1
                    /\ session.round # 3 => Complete(r.out, session.round + 1, {Server}, plan)
                    /\ Finished(r.session) => Matches(plan)
                    /\ Finished(r.session) /\ Dealing =>
                         /\ r.session.share = Outcome(run.deal, plan.c, plan.m, Server)
                         /\ r.session.share \in Shares
                         /\ run.kind = "reshare" => vault.key = SumOf(plan.c)
  OBVIOUS
<1>1. s # None /\ r = a /\ s.me = Server
  BY DEF Reply, TypeOK
<1>2. run \in Runs
  BY DEF TypeOK, Maybe
<1>3. Sound(plan) /\ Fair(s, plan) /\ PlanOfRun(plan) /\ plan.kind = run.kind
  BY <1>1 DEF Planned, PlanOfRun, KeptTo
<1>4. run.flying \subseteq Messages /\ \A e \in run.flying : Truthful(e, plan)
  BY <1>2 DEF Runs, Planned, KeptTo, Sent
<1>5. inbox \subseteq Messages /\ \A e \in inbox : e.from # s.me /\ Truthful(e, plan)
  BY <1>1, <1>4 DEF InboxFor
<1>6. /\ Advanced(s, r) /\ Fair(r.session, plan)
      /\ \A e \in r.out : Truthful(e, plan)
      /\ s.round \in 1..3
      /\ s.round # 3 => Complete(r.out, s.round + 1, {s.me}, plan)
  <2>1. a # Refused
    BY <1>1
  <2>2. /\ Advanced(s, a) /\ Fair(a.session, plan)
        /\ \A e \in a.out : Truthful(e, plan)
        /\ s.round \in 1..3
        /\ s.round # 3 => Complete(a.out, s.round + 1, {s.me}, plan)
    <3> HIDE DEF s, r
    <3> QED BY <1>3, <1>5, <2>1, OneAdvance
  <2> QED BY <1>1, <2>2
<1> HIDE DEF r, a
<1>7. /\ r \in Replies /\ r.session.me = Server /\ r.session.round = s.round + 1
      /\ r.session \in Sessions /\ r.session # None /\ r.out \subseteq Messages
  <2>1. r \in Replies
    BY <1>6 DEF Advanced
  <2>2. r.session \in Sessions /\ r.out \subseteq Messages
    BY <2>1 DEF Replies
  <2> QED BY <1>1, <1>6, <2>1, <2>2, NoneIsNoValue DEF Advanced
<1>8. ASSUME Finished(r.session) PROVE Matches(plan)
  BY <1>6, <1>8 DEF Fair, Follows, Signs, Finished, Matches
<1>9. ASSUME Finished(r.session), Dealing
      PROVE  /\ r.session.share = Outcome(run.deal, plan.c, plan.m, Server)
             /\ r.session.share \in Shares
             /\ run.kind = "reshare" => vault.key = SumOf(plan.c)
  <2>1. Deals(plan) /\ plan.deal = run.deal /\ plan.expected = Expected
    BY <1>3, <1>9 DEF Deals, Dealing, PlanOfRun
  <2>2. plan.deal \in 1..MaxDeals /\ plan.c \in [Party -> Scalar] /\ plan.m \in [Party -> Scalar]
        /\ plan.expected \in Maybe(Scalar)
    BY <1>3, <2>1 DEF Sound, Plans
  <2>3. r.session.share = Outcome(run.deal, plan.c, plan.m, Server)
        /\ plan.expected \in {None, SumOf(plan.c)}
    BY <1>6, <1>7, <1>9, <2>1 DEF Fair, Follows, Finished
  <2>4. r.session.share \in Shares
    BY <2>1, <2>2, <2>3, OutcomeType DEF Party
  <2>5. ASSUME run.kind = "reshare" PROVE vault.key = SumOf(plan.c)
    <3>1. FromShares(plan) /\ plan.expected = vault.key
      BY <1>3, <2>1, <2>5 DEF PlanOfRun, Expected
    <3>2. vault.key # None
      <4>1. vault \in Shares
        BY <2>5 DEF TypeOK, Numbered, Maybe
      <4> QED BY <4>1, NoneIsNoValue DEF Shares
    <3> QED BY <2>3, <3>1, <3>2
  <2> QED BY <2>3, <2>4, <2>5
<1>10. QED
  BY <1>1, <1>6, <1>7, <1>8, <1>9

\* Undisturbed and with shares that belong together it does not refuse.
LEMMA ServerHears ==
    ASSUME TypeOK, Cast, Numbered, run # None, run.at = "send", NEW plan \in Plans, Planned(plan),
           ~ run.disturbed
    PROVE  LET r == Reply(InboxFor(Server, run.flying))
           IN  /\ run.fits => r # Refused
               /\ r # Refused => Prepared(r.session, plan)
<1> DEFINE s == session
           inbox == InboxFor(Server, run.flying)
           r == Reply(inbox)
<1>1. run.kind # "offline"
  BY DEF Cast
<1>2. InStep(plan)
  BY DEF Planned, Going
<1>3. /\ s # None /\ s.me = Server /\ s.round = run.count + 1 /\ run.count \in 0..2
      /\ Prepared(s, plan) /\ Complete(run.flying, s.round, Talking, plan)
  BY <1>1, <1>2 DEF InStep, TypeOK
<1>4. run \in Runs
  BY DEF TypeOK, Maybe
<1>5. Sound(plan) /\ Fair(s, plan) /\ PlanOfRun(plan)
  BY <1>3 DEF Planned, PlanOfRun, KeptTo
<1>6. run.flying \subseteq Messages /\ \A e \in run.flying : Truthful(e, plan)
  BY <1>4 DEF Runs, Planned, KeptTo, Sent
<1>7. inbox \subseteq Messages /\ \A e \in inbox : e.from # s.me /\ Truthful(e, plan)
  BY <1>3, <1>6 DEF InboxFor
<1>8. Talking = Participants(plan)
  BY <1>5, AllTalk
<1>9. run.fits => Matches(plan)
  BY <1>5, FitsMatches
<1>10. r = Advance(s, inbox) /\ s.round # 4
  BY <1>3 DEF Reply
<1> HIDE DEF s, r
<1>11. Suffices(s, inbox, plan)
  <2>1. Suffices(s, InboxFor(s.me, run.flying), plan)
    BY <1>3, <1>5, <1>6, <1>8, InboxSuffices
  <2> QED BY <2>1, <1>3
<1> HIDE DEF inbox
<1>12. /\ Matches(plan) => r # Refused
       /\ r # Refused => Prepared(r.session, plan)
  BY <1>3, <1>5, <1>7, <1>10, <1>11, OneAdvance
<1>13. QED
  BY <1>9, <1>12 DEF r, inbox

\* What it stores and stages.
LEMMA ServerEffect ==
    ASSUME TypeOK, Owned, Numbered, SharesFit, run # None, run.at \in {"advance", "send"},
           NEW plan \in Plans, Planned(plan),
           NEW inbox, inbox \subseteq InboxFor(Server, run.flying), ServerTurn(inbox),
           vault' = vault, files' = files, deals' = deals,
           run'.kind = run.kind, run'.deal = run.deal, run'.fits = run.fits
    PROVE  /\ {vault', live', staged'} \subseteq Maybe(Shares) /\ files' \subseteq Shares
           /\ session' \in Maybe(Sessions)
           /\ session' # None => session'.me = Server /\ Fair(session', plan)
           /\ session # None \/ session' = None
           /\ run.kind \in {"reshare", "sign"} => live' = live
           /\ LET r == Reply(inbox)
              IN  /\ r # Refused /\ Finished(r.session) /\ Dealing =>
                       Stored' = Outcome(run.deal, plan.c, plan.m, Server)
                  /\ r # Refused => session' = IF Finished(r.session) THEN None ELSE r.session
           /\ Owned' /\ SharesFit' /\ Numbered'
<1> DEFINE r == Reply(inbox)
           done == r # Refused /\ Finished(r.session)
           o == Outcome(run.deal, plan.c, plan.m, Server)
<1>1. r # Refused =>
        /\ session # None
        /\ r.session \in Sessions /\ r.session # None /\ r.session.me = Server
        /\ Fair(r.session, plan)
        /\ Finished(r.session) /\ Dealing =>
             /\ r.session.share = o /\ r.session.share \in Shares
             /\ run.kind = "reshare" => vault.key = SumOf(plan.c)
  BY ServerReply
<1>2. /\ session' = IF r = Refused THEN IF run.kind = "reshare" THEN None ELSE session
                    ELSE IF done THEN None ELSE r.session
      /\ live' = IF done /\ run.kind = "dkg" THEN r.session.share ELSE live
      /\ staged' = IF done /\ run.kind = "reshare" THEN r.session.share ELSE staged
  BY DEF ServerTurn
<1>3. o.party = Server /\ o.deal = run.deal /\ o.key = SumOf(plan.c)
  BY DEF Outcome
<1> HIDE DEF r, done, o
<1>4. done => r # Refused /\ Finished(r.session)
  BY DEF done
<1>5. {vault', live', staged'} \subseteq Maybe(Shares) /\ files' \subseteq Shares
  BY <1>1, <1>2, <1>4 DEF TypeOK, Maybe, Dealing
<1>6. /\ session' \in Maybe(Sessions)
      /\ session' # None => session'.me = Server /\ Fair(session', plan)
      /\ session # None \/ session' = None
  BY <1>1, <1>2 DEF TypeOK, Maybe, Planned, KeptTo
<1>7. run.kind \in {"reshare", "sign"} => live' = live
  BY <1>2
<1>8. /\ done /\ Dealing => Stored' = o
      /\ r # Refused => session' = IF Finished(r.session) THEN None ELSE r.session
  BY <1>1, <1>2, <1>4 DEF Stored, Dealing, done
<1>9. CASE ~ (done /\ Dealing)
  <2>1. live' = live /\ staged' = staged
    BY <1>2, <1>9 DEF Dealing
  <2>2. Owned' /\ SharesFit' /\ Numbered'
    <3>1. UNCHANGED <<wallet, deals>>
      BY <2>1 DEF wallet
    <3> QED BY <2>1, <3>1, SameShares, SameNumbered
  <2> QED BY <2>2, <1>5, <1>6, <1>7, <1>8 DEF r, done, o
<1>10. CASE done /\ run.kind = "dkg"
  <2>1. live' = o /\ staged' = staged /\ vault = None /\ files = {} /\ staged = None
    BY <1>1, <1>2, <1>4, <1>10 DEF Dealing, Numbered
  <2>2. Held' = {o} \ {None}
    BY <2>1 DEF Held
  <2>3. SharesFit'
    BY <2>2 DEF SharesFit
  <2>4. Owned'
    BY <1>3, <2>1 DEF Owned
  <2>5. run.deal = deals /\ deals \in Nat
    BY <1>10, BoundsAreNaturals DEF Numbered, Dealing, TypeOK
  <2>6. Numbered'
    BY <1>3, <1>10, <2>1, <2>2, <2>5 DEF Numbered, Dealing
  <2> QED BY <2>3, <2>4, <2>6, <1>5, <1>6, <1>7, <1>8 DEF r, done, o
<1>11. CASE done /\ run.kind = "reshare"
  <2>1. staged' = o /\ live' = live /\ o \in Shares /\ o.key = vault.key
    BY <1>1, <1>2, <1>3, <1>4, <1>11 DEF Dealing
  <2>2. vault # None /\ live # None /\ live.deal # run.deal /\ run.deal = deals
        /\ \A h \in files \union ({vault} \ {None}) : h.deal # run.deal
    BY <1>11 DEF Numbered, Dealing
  <2>3. Held' \subseteq (files \union ({vault, live} \ {None})) \union {o}
    BY <2>1 DEF Held
  <2>4. \A h \in files \union ({vault, live} \ {None}) :
          h \in Held /\ h.key = o.key /\ h.deal # o.deal
    <3>1. \A h \in files \union ({vault, live} \ {None}) : h \in Held /\ vault \in Held
      BY <2>2 DEF Held
    <3> QED BY <3>1, <1>3, <2>1, <2>2 DEF SharesFit
  <2>5. SharesFit'
    BY <2>3, <2>4 DEF SharesFit
  <2>6. Owned'
    BY <1>3, <2>1 DEF Owned
  <2>7. deals \in Nat
    BY BoundsAreNaturals DEF TypeOK
  <2>8. \A h \in Held' : h.deal <= deals
    BY <1>3, <2>2, <2>3, <2>4, <2>7 DEF Numbered
  <2>9. Numbered'
    BY <1>11, <2>1, <2>2, <2>8 DEF Numbered, Dealing
  <2> QED BY <2>5, <2>6, <2>9, <1>5, <1>6, <1>7, <1>8 DEF r, done, o
<1>12. QED
  BY <1>9, <1>10, <1>11 DEF Dealing

\* The answer to the driver.
LEMMA RoundInv == ASSUME Inv, Round PROVE Inv'
<1> USE DEF Inv
<1>1. run # None /\ run.at = "send" /\ vault' = vault /\ files' = files /\ deals' = deals
  BY DEF Round
<1>2. PICK plan \in Plans : Planned(plan)
  BY <1>1 DEF Agreed, Going
<1>3. run \in Runs /\ run.kind # "offline" /\ run.count < MaxRounds
  BY <1>1 DEF TypeOK, Maybe, Cast, Going
<1>4. /\ run.at \in Places /\ run.local \in [Party -> Maybe(Sessions)]
      /\ run.flying \in SUBSET Messages /\ run.next \in SUBSET Messages
      /\ run.count \in 0..MaxRounds /\ run.fits \in BOOLEAN /\ run.disturbed \in BOOLEAN
  BY <1>3 DEF Runs, Places
<1> DEFINE inbox == InboxFor(Server, run.flying)
           r == Reply(inbox)
<1>5. inbox \subseteq InboxFor(Server, run.flying) /\ ServerTurn(inbox) /\ Answered(r)
  BY DEF Round
<1>6. r # Refused =>
        /\ session # None /\ r \in Replies
        /\ r.session \in Sessions /\ r.session # None /\ r.session.me = Server
        /\ r.out \subseteq Messages
        /\ Fair(r.session, plan) /\ \A e \in r.out : Truthful(e, plan)
        /\ session.round \in 1..3 /\ r.session.round = session.round + 1
        /\ session.round # 3 => Complete(r.out, session.round + 1, {Server}, plan)
        /\ Finished(r.session) => Matches(plan)
        /\ Finished(r.session) /\ Dealing =>
             /\ r.session.share = Outcome(run.deal, plan.c, plan.m, Server)
             /\ r.session.share \in Shares
             /\ run.kind = "reshare" => vault.key = SumOf(plan.c)
  BY <1>1, <1>2, <1>5, ServerReply
<1>7. ~ run.disturbed => /\ run.fits => r # Refused
                         /\ r # Refused => Prepared(r.session, plan)
  BY <1>1, <1>2, ServerHears
<1> HIDE DEF r, inbox
<1>8. PlanOfRun(plan) /\ KeptTo(plan) /\ (~ run.disturbed => InStep(plan))
      /\ run.kind = plan.kind
  BY <1>1, <1>2 DEF Planned, Going, PlanOfRun
<1>9. ~ run.disturbed =>
        /\ run.count \in 0..2 /\ session.round = run.count + 1
        /\ \A p \in Locals : run.local[p].round = run.count + 2 /\ Prepared(run.local[p], plan)
        /\ run.count # 2 => Complete(run.next, run.count + 2, Locals, plan)
  BY <1>1, <1>3, <1>8 DEF InStep
<1>10. run.fits <=> Matches(plan)
  BY <1>1, <1>8, FitsMatches
<1> DEFINE failed == [run EXCEPT !.at = Fail]
<1>11. run' = IF r = Refused THEN failed
              ELSE IF Finished(r.session)
              THEN IF LocalsDone /\ KeysAgree(r)
                   THEN [run EXCEPT !.at = "returned", !.flying = {}, !.next = {}]
                   ELSE failed
              ELSE IF run.count + 1 = MaxRounds THEN failed
              ELSE [run EXCEPT !.at = "advance", !.count = run.count + 1, !.next = {},
                               !.flying = run.next \union r.out]
  BY <1>3, <1>5 DEF Answered, Runs
<1>12. ASSUME run'.kind = run.kind, run'.deal = run.deal, run'.fits = run.fits
       PROVE  /\ {vault', live', staged'} \subseteq Maybe(Shares) /\ files' \subseteq Shares
              /\ session' \in Maybe(Sessions)
              /\ session' # None => session'.me = Server /\ Fair(session', plan)
              /\ run.kind \in {"reshare", "sign"} => live' = live
              /\ r # Refused /\ Finished(r.session) /\ Dealing =>
                        Stored' = Outcome(run.deal, plan.c, plan.m, Server)
              /\ r # Refused => session' = IF Finished(r.session) THEN None ELSE r.session
              /\ Owned' /\ SharesFit' /\ Numbered'
  <2>1. TypeOK /\ Owned /\ Numbered /\ SharesFit
    OBVIOUS
  <2> HIDE DEF Inv
  <2> QED BY <1>1, <1>2, <1>5, <1>12, <2>1, ServerEffect DEF r
<1>13. ASSUME run' = failed, ~ run.fits \/ run.disturbed
       PROVE  Inv'
  <2>1. Fail \in Places /\ Fail \in {"abort", "failed"}
    BY DEF Fail, Places
  <2>2. run' \in Runs
    BY <1>3, <1>4, <1>13, <2>1, RunChanges
  <2>3. /\ run'.kind = run.kind /\ run'.deal = run.deal /\ run'.fits = run.fits
        /\ run'.local = run.local /\ run'.at \in {"abort", "failed"}
        /\ run'.disturbed = run.disturbed
    BY <1>3, <1>13, <2>1, <2>2 DEF Runs
  <2>4. /\ {vault', live', staged'} \subseteq Maybe(Shares) /\ files' \subseteq Shares
        /\ session' \in Maybe(Sessions) /\ (session' # None => session'.me = Server)
        /\ Owned' /\ SharesFit' /\ Numbered'
    BY <2>3, <1>12
  <2>5. TypeOK /\ Cast
    OBVIOUS
  <2> HIDE DEF Inv, failed
  <2>6. TypeOK' /\ Cast' /\ Agreed' /\ OutcomeFollowsShares'
    BY <1>1, <1>3, <1>13, <2>2, <2>3, <2>4, <2>5, Failed
  <2> QED BY <2>4, <2>6 DEF Inv
<1>14. CASE r = Refused
  BY <1>4, <1>7, <1>11, <1>13, <1>14
<1>15. CASE r # Refused /\ Finished(r.session)
  <2>1. ASSUME ~ run.disturbed PROVE LocalsDone
    <3>1. session.round = 3
      BY <1>6, <1>15 DEF Finished
    <3> QED BY <1>9, <2>1, <3>1 DEF LocalsDone, Finished
  <2>2. LocalsDone => KeysAgree(r)
    <3> SUFFICES ASSUME LocalsDone, Dealing
                 PROVE  /\ run.local[Extension].share.key = r.session.share.key
                        /\ run.kind = "reshare" => run.local[Extension].share.key = vault.key
      BY DEF KeysAgree, Dealing
    <3>1. Extension \in Locals
      BY <1>1 DEF Cast, Dealing
    <3>2. Fair(run.local[Extension], plan) /\ run.local[Extension].round = 4 /\ Deals(plan)
      BY <1>8, <3>1 DEF KeptTo, LocalsDone, Finished, Deals, Dealing
    <3>3. run.local[Extension].share.key = SumOf(plan.c)
      BY <3>2 DEF Fair, Follows, Outcome
    <3>4. r.session.share.key = SumOf(plan.c) /\ (run.kind = "reshare" => vault.key = SumOf(plan.c))
      BY <1>6, <1>15 DEF Outcome
    <3> QED BY <3>3, <3>4
  <2>3. CASE ~ (LocalsDone /\ KeysAgree(r))
    BY <1>4, <1>11, <1>13, <1>15, <2>1, <2>2, <2>3
  <2>4. CASE LocalsDone /\ KeysAgree(r)
    <3>1. Becomes("returned", run.local, {}, {}, run.count)
      <4>1. run' = [run EXCEPT !.at = "returned", !.flying = {}, !.next = {}]
        BY <1>11, <1>15, <2>4
      <4>2. "returned" \in Places /\ {} \in SUBSET Messages
        BY DEF Places
      <4>3. run' \in Runs
        BY <1>3, <1>4, <4>1, <4>2, RunChanges
      <4> QED BY <1>3, <4>1, <4>3 DEF Becomes, Runs
    <3>3. /\ {vault', live', staged'} \subseteq Maybe(Shares) /\ files' \subseteq Shares
          /\ run.kind \in {"reshare", "sign"} => live' = live
          /\ Dealing => Stored' = Outcome(run.deal, plan.c, plan.m, Server)
          /\ session' = None
          /\ Owned' /\ SharesFit' /\ Numbered'
      BY <1>12, <1>15, <3>1 DEF Becomes
    <3>4. Locals' = Locals
      BY <3>1 DEF Becomes, Locals
    <3>5. TypeOK'
      BY <1>1, <3>1, <3>3 DEF TypeOK, Maybe, Becomes
    <3>6. Cast'
      BY <1>1, <3>1, <3>3, <3>4 DEF Cast, Becomes, Going
    <3>7. PlanOfRun(plan)'
      BY <1>1, <1>8, <3>1, <3>3, PlanStays DEF Becomes
    <3>8. KeptTo(plan)'
      BY <1>8, <3>1, <3>3, <3>4 DEF KeptTo, Becomes, Sent
    <3>9. Delivered(plan)'
      <4>1. run.fits
        BY <1>6, <1>10, <1>15
      <4>2. LocalsDone'
        BY <2>4, <3>1, <3>4 DEF LocalsDone, Becomes
      <4> QED BY <3>1, <3>3, <4>1, <4>2 DEF Delivered, Becomes, Dealing
    <3>10. Agreed'
      BY <3>1, <3>7, <3>8, <3>9 DEF Agreed, Planned, Going, Becomes
    <3>11. OutcomeFollowsShares'
      BY <3>1, <3>9 DEF OutcomeFollowsShares, Delivered, Becomes
    <3> QED BY <3>3, <3>5, <3>6, <3>10, <3>11
  <2> QED BY <2>3, <2>4
<1>16. CASE r # Refused /\ ~ Finished(r.session)
  <2>1. ASSUME ~ run.disturbed PROVE run.count \in 0..1
    BY <1>6, <1>9, <1>16, <2>1 DEF Finished
  <2>2. CASE run.count + 1 = MaxRounds
    <3>1. run.disturbed
      BY <2>1, <2>2, BoundsAreNaturals
    <3> QED BY <1>11, <1>13, <1>16, <2>2, <3>1
  <2>3. CASE run.count + 1 # MaxRounds
    <3> DEFINE both == run.next \union r.out
    <3>1. Becomes("advance", run.local, both, {}, run.count + 1) /\ run'.disturbed = run.disturbed
      <4>1. run' = [run EXCEPT !.at = "advance", !.count = run.count + 1, !.next = {},
                               !.flying = both]
        BY <1>11, <1>16, <2>3
      <4>2. "advance" \in Places /\ {} \in SUBSET Messages /\ both \in SUBSET Messages
            /\ run.count + 1 \in 0..MaxRounds
        BY <1>3, <1>4, <1>6, <1>16, BoundsAreNaturals DEF Places
      <4> HIDE DEF both
      <4>3. run' \in Runs
        BY <1>3, <1>4, <4>1, <4>2, RunChanges
      <4> QED BY <1>3, <4>1, <4>3 DEF Becomes, Runs
    <3>3. /\ {vault', live', staged'} \subseteq Maybe(Shares) /\ files' \subseteq Shares
          /\ run.kind \in {"reshare", "sign"} => live' = live
          /\ session' = r.session
          /\ Owned' /\ SharesFit' /\ Numbered'
      BY <1>12, <1>16, <3>1 DEF Becomes
    <3>4. Locals' = Locals
      BY <3>1 DEF Becomes, Locals
    <3>5. TypeOK'
      BY <1>1, <1>6, <1>16, <3>1, <3>3 DEF TypeOK, Maybe, Becomes
    <3>6. Cast'
      <4>1. run'.count < MaxRounds
        BY <1>3, <1>4, <2>3, <3>1, BoundsAreNaturals DEF Becomes
      <4>2. Locals = IF run.kind = "sign" THEN {vault.party} ELSE {Extension, Recovery}
        BY <1>1 DEF Cast
      <4> QED BY <1>1, <1>3, <3>1, <3>4, <4>1, <4>2 DEF Cast, Becomes
    <3>7. PlanOfRun(plan)'
      BY <1>1, <1>8, <3>1, <3>3, PlanStays DEF Becomes
    <3>8. KeptTo(plan)'
      BY <1>6, <1>8, <1>16, <3>1, <3>3, <3>4 DEF KeptTo, Becomes, Sent
    <3>9. Delivered(plan)'
      BY <3>1 DEF Delivered, Becomes
    <3>10. ASSUME ~ run.disturbed PROVE InStep(plan)'
      <4>1. run.count \in 0..1 /\ session.round = run.count + 1
        BY <1>9, <2>1, <3>10
      <4>2. run'.count = run.count + 1 /\ run'.count \in 0..2 /\ run'.count + 1 = run.count + 2
        BY <3>1, <4>1 DEF Becomes
      <4>3. Complete(run.next, run.count + 2, Locals, plan)
            /\ Complete(r.out, run.count + 2, {Server}, plan)
            /\ r.session.round = run.count + 2 /\ r.session # None
        BY <1>6, <1>9, <1>16, <3>10, <4>1
      <4>4. Complete(both, run.count + 2, Locals \union {Server}, plan)
        BY <4>3, CompleteBoth
      <4>5. Talking' = Locals \union {Server}
        BY <1>3, <3>1, <3>4 DEF Talking, Becomes
      <4>6. \A p \in Locals : run.local[p].round = run.count + 2 /\ Prepared(run.local[p], plan)
        BY <1>9, <3>10
      <4>7. Prepared(r.session, plan)
        BY <1>7, <1>16, <3>10
      <4> HIDE DEF Inv, both
      <4> QED BY <3>1, <3>3, <3>4, <4>2, <4>3, <4>4, <4>5, <4>6, <4>7 DEF InStep, Becomes
    <3>11. Agreed'
      BY <3>1, <3>7, <3>8, <3>9, <3>10 DEF Agreed, Planned, Going, Becomes
    <3>12. OutcomeFollowsShares'
      BY <3>1 DEF OutcomeFollowsShares, Becomes
    <3> QED BY <3>3, <3>5, <3>6, <3>11, <3>12
  <2> QED BY <2>2, <2>3
<1>17. QED
  BY <1>14, <1>15, <1>16

-----------------------------------------------------------------------------
(* What goes wrong, and what becomes of the result                          *)

\* The server's first session is its own.
LEMMA ServersFirst ==
    ASSUME TypeOK, Owned, Numbered, run # None, run.at = "open", Cast,
           NEW started \in ServerStarts
    PROVE  started.session \in Sessions /\ started.session.me = Server
<1>1. run \in Runs /\ run.kind \in {"dkg", "reshare", "sign"}
  BY DEF TypeOK, Maybe, Runs, Cast
<1>2. Server \in Party /\ Extension \in Party
  BY DEF Party
<1>3. ASSUME NEW a \in Scalar, NEW b \in Scalar, NEW expected \in Maybe(Scalar), Dealing
      PROVE  /\ StartWith(Server, Line(a, b), expected, run.deal).session \in Sessions
             /\ StartWith(Server, Line(a, b), expected, run.deal).session.me = Server
  <2> DEFINE c == [p \in Party |-> a]
             m == [p \in Party |-> b]
  <2>1. c \in [Party -> Scalar] /\ m \in [Party -> Scalar] /\ c[Server] = a /\ m[Server] = b
    BY <1>2
  <2>2. run.deal \in 1..MaxDeals
    BY <1>3 DEF Numbered
  <2> HIDE DEF c, m
  <2>3. LET r == StartWith(Server, Line(c[Server], m[Server]), expected, run.deal)
        IN  r.session \in DealSessions /\ r.session.me = Server
    BY <1>2, <2>1, <2>2, StartStep
  <2> QED BY <2>1, <2>3 DEF Sessions
<1>4. CASE run.kind = "dkg"
  <2>1. PICK a \in Draws, b \in Draws : started = StartWith(Server, Line(a, b), None, run.deal)
    BY <1>4 DEF ServerStarts
  <2>2. a \in Scalar /\ b \in Scalar /\ None \in Maybe(Scalar) /\ Dealing
    BY <1>4, DrawsAreScalars DEF Maybe, Dealing
  <2> QED BY <1>3, <2>1, <2>2
<1>5. CASE run.kind = "reshare"
  <2>1. PICK b \in Draws : started = StartWith(Server, ReshareRow(Server, live.point, Recovery, b),
                                               live.key, run.deal)
    BY <1>5 DEF ServerStarts
  <2> DEFINE a == Times(LagrangeAtZero(Server, Recovery), live.point)
  <2>2. live \in Shares
    BY <1>5 DEF TypeOK, Maybe, Numbered
  <2>3. live.point \in Scalar /\ live.key \in Maybe(Scalar) /\ b \in Scalar /\ Dealing
    BY <1>5, <2>2, DrawsAreScalars DEF Shares, Maybe, Dealing
  <2>4. a \in Scalar
    BY <2>3, Weights, Closed, PartiesDiffer DEF Party
  <2>5. started = StartWith(Server, Line(a, b), live.key, run.deal)
    BY <2>1 DEF ReshareRow
  <2> HIDE DEF a
  <2> QED BY <1>3, <2>3, <2>4, <2>5
<1>6. CASE run.kind = "sign"
  <2>1. started = StartSign(live, Server, vault.party)
    BY <1>6 DEF ServerStarts
  <2>2. live \in Shares /\ vault \in Shares /\ vault.party # Server
    BY <1>6 DEF TypeOK, Maybe, Numbered, Owned
  <2>3. vault.party \in Party /\ live.deal \in 1..MaxDeals
    BY <2>2 DEF Shares
  <2> DEFINE x == live
             y == vault.party
             d == [p \in Party |-> live.deal]
  <2>4. d \in [Party -> 1..MaxDeals] /\ x.deal = d[Server] /\ x \in Shares /\ y \in Party /\ y # Server
    BY <1>2, <2>2, <2>3
  <2> HIDE DEF d, x, y
  <2>5. SignStarts(StartSign(x, Server, y), Server, y, d)
    BY <1>2, <2>4, StartSignStep
  <2>6. started = StartSign(x, Server, y)
    BY <2>1 DEF x, y
  <2>7. started.session \in SignSessions /\ started.session.me = Server
    BY <2>5, <2>6 DEF SignStarts
  <2> QED BY <2>7 DEF Sessions
<1>7. QED
  BY <1>1, <1>4, <1>5, <1>6

\* A lost call disturbs the run, whether or not the server answered it.
LEMMA UnansweredInv == ASSUME Inv, Unanswered PROVE Inv'
<1> USE DEF Inv
<1>1. run # None /\ vault' = vault /\ files' = files /\ deals' = deals
      /\ run' = [Disturbed EXCEPT !.at = Fail] /\ run.at \in {"open", "send"}
  BY DEF Unanswered
<1>2. run \in Runs /\ Fail \in Places /\ Fail \in {"abort", "failed"}
  BY <1>1 DEF TypeOK, Maybe, Fail, Places
<1>3. run' \in Runs
  <2>1. Disturbed \in Runs
    BY <1>2 DEF Disturbed, Runs
  <2>2. \A r \in Runs, at \in Places : [r EXCEPT !.at = at] \in Runs
    BY DEF Runs, Places
  <2> QED BY <1>1, <1>2, <2>1, <2>2
<1>4. /\ run'.kind = run.kind /\ run'.deal = run.deal /\ run'.fits = run.fits
      /\ run'.local = run.local /\ run'.at \in {"abort", "failed"}
      /\ run'.disturbed
  BY <1>1, <1>2 DEF Disturbed, Runs
<1>5. run.kind # "offline"
  BY <1>1 DEF Cast
<1>6. PICK plan \in Plans : Planned(plan)
  BY <1>1 DEF Agreed, Going
<1>7. /\ {vault', live', staged'} \subseteq Maybe(Shares) /\ files' \subseteq Shares
      /\ session' \in Maybe(Sessions) /\ (session' # None => session'.me = Server)
      /\ Owned' /\ SharesFit' /\ Numbered'
  <2>1. CASE run.at \in {"open", "send"} /\ UNCHANGED <<live, staged, session>>
    <3>1. UNCHANGED <<wallet, deals>>
      BY <1>1, <2>1 DEF wallet
    <3>2. Owned' /\ SharesFit' /\ Numbered'
      BY <1>1, <1>4, <2>1, <3>1, SameShares, SameNumbered
    <3> QED BY <1>1, <2>1, <3>2 DEF TypeOK, Maybe
  <2>2. CASE /\ run.at = "open"
             /\ \E started \in ServerStarts : session' = started.session
             /\ UNCHANGED <<live, staged>>
    <3>1. UNCHANGED <<wallet, deals>>
      BY <1>1, <2>2 DEF wallet
    <3>2. Owned' /\ SharesFit' /\ Numbered'
      BY <1>1, <1>4, <2>2, <3>1, SameShares, SameNumbered
    <3>3. session' \in Sessions /\ session'.me = Server
      BY <1>1, <2>2, ServersFirst
    <3> QED BY <1>1, <2>2, <3>2, <3>3 DEF TypeOK, Maybe
  <2>3. CASE run.at = "send" /\ ServerTurn(InboxFor(Server, run.flying))
    <3>1. TypeOK /\ Owned /\ Numbered /\ SharesFit
      OBVIOUS
    <3> DEFINE inbox == InboxFor(Server, run.flying)
    <3>2. inbox \subseteq InboxFor(Server, run.flying) /\ ServerTurn(inbox)
      BY <2>3
    <3> HIDE DEF Inv, inbox
    <3> QED BY <1>1, <1>4, <1>6, <2>3, <3>1, <3>2, ServerEffect
  <2> QED BY <1>1, <2>1, <2>2, <2>3 DEF Unanswered
<1>8. TypeOK' /\ Cast' /\ Agreed' /\ OutcomeFollowsShares'
  <2>1. TypeOK /\ Cast
    OBVIOUS
  <2> HIDE DEF Inv
  <2> QED BY <1>1, <1>3, <1>4, <1>5, <1>7, <2>1, Failed
<1>9. QED
  BY <1>7, <1>8

\* So does a request that somebody else's turn took.
LEMMA ServedBeforeInv == ASSUME Inv, ServedBefore PROVE Inv'
<1> USE DEF Inv
<1>1. /\ run # None /\ vault' = vault /\ files' = files /\ deals' = deals
      /\ run' = [run EXCEPT !.disturbed = TRUE] /\ run.at \in {"advance", "send"}
      /\ run.kind = "dkg"
  BY DEF ServedBefore, Disturbed
<1>2. PICK inbox \in SUBSET InboxFor(Server, run.flying) :
        Reply(inbox) # Refused /\ ServerTurn(inbox)
  BY DEF ServedBefore
<1>3. PICK plan \in Plans : Planned(plan)
  BY <1>1 DEF Agreed, Going
<1>4. run \in Runs
  BY <1>1 DEF TypeOK, Maybe
<1>5. /\ run' \in Runs /\ run'.kind = run.kind /\ run'.deal = run.deal /\ run'.fits = run.fits
      /\ run'.at = run.at /\ run'.local = run.local /\ run'.flying = run.flying
      /\ run'.next = run.next /\ run'.count = run.count /\ run'.disturbed
  <2>1. [run EXCEPT !.disturbed = TRUE] \in Runs
    <3>1. run.at \in Places /\ TRUE \in BOOLEAN
      BY <1>4 DEF Runs, Places
    <3> QED BY <1>4 DEF Runs
  <2> QED BY <1>1, <1>4, <2>1 DEF Runs
<1>6. /\ {vault', live', staged'} \subseteq Maybe(Shares) /\ files' \subseteq Shares
      /\ session' \in Maybe(Sessions)
      /\ session' # None => session'.me = Server /\ Fair(session', plan)
      /\ Owned' /\ SharesFit' /\ Numbered'
  <2>1. TypeOK /\ Owned /\ Numbered /\ SharesFit
    OBVIOUS
  <2>2. inbox \subseteq InboxFor(Server, run.flying) /\ ServerTurn(inbox)
    BY <1>2
  <2> HIDE DEF Inv
  <2> QED BY <1>1, <1>3, <1>5, <2>1, <2>2, ServerEffect
<1>7. Locals' = Locals
  BY <1>5 DEF Locals
<1>8. TypeOK'
  BY <1>1, <1>5, <1>6 DEF TypeOK, Maybe
<1>9. Cast'
  <2>1. run.count < MaxRounds /\ Locals = {Extension, Recovery}
    BY <1>1 DEF Cast, Going
  <2> QED BY <1>1, <1>5, <1>7, <2>1 DEF Cast
<1>10. PlanOfRun(plan)'
  BY <1>1, <1>3, <1>5, PlanStays DEF Planned
<1>11. KeptTo(plan)'
  BY <1>1, <1>3, <1>5, <1>6, <1>7 DEF KeptTo, Planned, Sent
<1>12. Delivered(plan)'
  BY <1>1, <1>5 DEF Delivered
<1>13. Agreed'
  BY <1>5, <1>10, <1>11, <1>12 DEF Agreed, Planned
<1>14. OutcomeFollowsShares'
  BY <1>1, <1>5 DEF OutcomeFollowsShares
<1>15. QED
  BY <1>6, <1>8, <1>9, <1>13, <1>14

\* A failed reshare is withdrawn, if the server hears of it.
LEMMA AbortInv == ASSUME Inv, Abort PROVE Inv'
<1> USE DEF Inv
<1>1. /\ run # None /\ run.at = "abort" /\ run' = [run EXCEPT !.at = "failed"]
      /\ vault' = vault /\ files' = files /\ live' = live /\ deals' = deals
      /\ staged' \in {None, staged} /\ session' \in {None, session}
  BY DEF Abort
<1>2. run \in Runs
  BY <1>1 DEF TypeOK, Maybe
<1>3. /\ run' \in Runs /\ run'.kind = run.kind /\ run'.deal = run.deal /\ run'.fits = run.fits
      /\ run'.local = run.local /\ run'.at = "failed" /\ run'.disturbed = run.disturbed
  <2>1. "failed" \in Places
    BY DEF Places
  <2>2. run' \in Runs
    BY <1>1, <1>2, <2>1 DEF Runs
  <2> QED BY <1>1, <1>2, <2>2 DEF Runs
<1>4. ~ run.fits \/ run.disturbed
  BY <1>1 DEF OutcomeFollowsShares
<1>5. Held' \subseteq Held
  BY <1>1 DEF Held
<1>6. Owned' /\ SharesFit' /\ Numbered'
  <2>1. Owned'
    BY <1>1 DEF Owned
  <2>2. SharesFit'
    BY <1>5 DEF SharesFit
  <2>3. Numbered'
    BY <1>1, <1>3, <1>5 DEF Numbered, Dealing
  <2> QED BY <2>1, <2>2, <2>3
<1>7. TypeOK' /\ Cast' /\ Agreed' /\ OutcomeFollowsShares'
  <2>1. /\ {vault', live', staged'} \subseteq Maybe(Shares) /\ files' \subseteq Shares
        /\ session' \in Maybe(Sessions) /\ (session' # None => session'.me = Server)
        /\ run.kind = "offline" => session' = None
    BY <1>1 DEF TypeOK, Maybe, Cast
  <2>2. TypeOK /\ Cast
    OBVIOUS
  <2> HIDE DEF Inv
  <2> QED BY <1>1, <1>3, <1>4, <2>1, <2>2, Failed
<1>8. QED
  BY <1>6, <1>7

\* Without a run there is little to keep.
LEMMA NoRun ==
    ASSUME run' = None
    PROVE  Cast' /\ Agreed' /\ OutcomeFollowsShares'
BY DEF Cast, Agreed, OutcomeFollowsShares

\* A result is dropped.
LEMMA DiscardInv == ASSUME Inv, Discard PROVE Inv'
<1> USE DEF Inv
<1>1. /\ run # None /\ run' = None /\ session' = None
      /\ vault' = vault /\ files' = files /\ live' = live /\ deals' = deals
      /\ staged' \in {None, staged}
  BY DEF Discard
<1>2. Held' \subseteq Held
  BY <1>1 DEF Held
<1>3. TypeOK'
  BY <1>1 DEF TypeOK, Maybe
<1>4. Owned' /\ SharesFit' /\ Numbered'
  BY <1>1, <1>2 DEF Owned, SharesFit, Numbered
<1>5. QED
  BY <1>1, <1>3, <1>4, NoRun

\* An old file is restored.
LEMMA RestoreInv == ASSUME Inv, Restore PROVE Inv'
<1> USE DEF Inv
<1>1. /\ run = None /\ run' = None /\ session' = session /\ vault # None /\ deals' = deals
      /\ files' = files /\ live' = live /\ staged' = staged
  BY DEF Restore
<1>2. PICK f \in files : vault' = f
  BY DEF Restore
<1>3. Held' \subseteq Held
  BY <1>1, <1>2 DEF Held
<1>4. TypeOK'
  BY <1>1, <1>2 DEF TypeOK, Maybe
<1>5. f \in Shares /\ f # None
  BY NoneIsNoValue DEF TypeOK
<1>6. Owned'
  BY <1>1, <1>2, PartiesDiffer DEF Owned
<1>7. SharesFit' /\ Numbered'
  BY <1>1, <1>2, <1>3, <1>5 DEF SharesFit, Numbered
<1>8. QED
  BY <1>1, <1>4, <1>6, <1>7, NoRun

\* The new shares replace the old ones.
LEMMA ConfirmInv == ASSUME Inv, Confirm PROVE Inv'
<1> USE DEF Inv
<1>1. /\ run # None /\ run.at = "returned" /\ Dealing /\ run' = None
      /\ vault' = run.local[Extension].share
      /\ files' = files \union {run.local[Recovery].share}
      /\ deals' = deals /\ session' = session
  BY DEF Confirm, Dealing
<1>2. IF run.kind = "reshare" THEN live' = staged /\ staged' = None
      ELSE live' = live /\ staged' = staged
  BY DEF Confirm
<1>3. PICK plan \in Plans : Planned(plan)
  BY <1>1 DEF Agreed, Going
<1>4. /\ PlanOfRun(plan) /\ KeptTo(plan) /\ Delivered(plan) /\ Deals(plan)
      /\ plan.deal = run.deal /\ plan.expected = Expected /\ run.deal \in 1..MaxDeals
      /\ plan.c \in [Party -> Scalar] /\ plan.m \in [Party -> Scalar]
  BY <1>1, <1>3 DEF Planned, PlanOfRun, Deals, Dealing, Numbered, Plans
<1> DEFINE new(p) == Outcome(run.deal, plan.c, plan.m, p)
<1>5. Locals = {Extension, Recovery} /\ LocalsDone
  BY <1>1, <1>4 DEF Cast, Delivered, Dealing
<1>6. \A p \in Locals : /\ run.local[p].share = Outcome(run.deal, plan.c, plan.m, p)
                        /\ plan.expected \in {None, SumOf(plan.c)}
  <2> TAKE p \in Locals
  <2>1. Fair(run.local[p], plan) /\ run.local[p].round = 4 /\ run.local[p].me = p
    BY <1>1, <1>4, <1>5 DEF KeptTo, LocalsDone, Finished, TypeOK, Locals
  <2> QED BY <1>4, <2>1 DEF Fair, Follows
<1>7. vault' = new(Extension) /\ files' = files \union {new(Recovery)}
  BY <1>1, <1>5, <1>6
<1>8. live' = new(Server) /\ staged' = None
  <2>1. Stored = new(Server)
    BY <1>1, <1>4 DEF Delivered
  <2>2. run.kind = "dkg" => staged = None
    BY <1>1 DEF Numbered
  <2> QED BY <1>1, <1>2, <2>1, <2>2 DEF Stored, Dealing
<1>9. \A p \in Party : /\ new(p) \in Shares /\ new(p).party = p /\ new(p).deal = run.deal
                       /\ new(p).key = SumOf(plan.c) /\ new(p).point = Point(plan.c, plan.m, p)
  <2> TAKE p \in Party
  <2>1. new(p) \in Shares
    BY <1>4, OutcomeType
  <2> QED BY <2>1 DEF Outcome
<1>10. Extension \in Party /\ Recovery \in Party /\ Server \in Party
  BY DEF Party
<1> HIDE DEF new
<1>11. TypeOK'
  BY <1>1, <1>7, <1>8, <1>9, <1>10 DEF TypeOK, Maybe
<1>12. Owned'
  BY <1>7, <1>8, <1>9, <1>10, PartiesDiffer DEF Owned
<1>13. Held' \subseteq files \union {new(Extension), new(Recovery), new(Server)}
  BY <1>7, <1>8 DEF Held
<1>14. \A h \in files : h \in Held /\ h.deal # run.deal /\ h.key = SumOf(plan.c)
  <2> TAKE h \in files
  <2>1. run.kind = "reshare" /\ vault # None
    BY <1>1 DEF Numbered, Dealing
  <2>2. vault \in Held /\ h \in Held
    BY <2>1 DEF Held
  <2>3. h.deal # run.deal
    BY <1>1 DEF Numbered
  <2>4. vault.key = SumOf(plan.c)
    <3>1. vault \in Shares
      BY <2>1 DEF TypeOK, Maybe
    <3>2. vault.key # None /\ plan.expected = vault.key
      BY <1>4, <2>1, <3>1, NoneIsNoValue DEF Expected, Shares
    <3> QED BY <1>5, <1>6, <3>2
  <2> QED BY <2>2, <2>3, <2>4 DEF SharesFit
<1>15. SharesFit'
  <2> SUFFICES ASSUME NEW a \in Held', NEW b \in Held'
               PROVE  /\ a.key = b.key
                      /\ a.deal = b.deal /\ a.party # b.party =>
                            ExportPrivateKeyFor(a, b, a.key) # Refused
    BY DEF SharesFit
  <2>1. CASE a \in files /\ b \in files
    BY <1>14, <2>1 DEF SharesFit
  <2>2. CASE \E p \in Party : a = new(p) /\ b \in files
    BY <1>9, <1>14, <2>2
  <2>3. CASE \E p \in Party : b = new(p) /\ a \in files
    BY <1>9, <1>14, <2>3
  <2>4. CASE \E p, q \in Party : a = new(p) /\ b = new(q)
    <3>1. PICK p \in Party, q \in Party : a = new(p) /\ b = new(q)
      BY <2>4
    <3>2. a.key = b.key /\ a.key = SumOf(plan.c) /\ a.party = p /\ b.party = q
          /\ a.point = Point(plan.c, plan.m, p) /\ b.point = Point(plan.c, plan.m, q)
      BY <1>9, <3>1
    <3>3. ASSUME p # q PROVE ExportPrivateKeyFor(a, b, a.key) # Refused
      <4>1. Reconstruct(p, a.point, q, b.point) = a.key
        BY <1>4, <3>2, <3>3, PointsRecover
      <4>2. ExportPrivateKeyFor(a, b, a.key) = a.key
        BY <3>2, <3>3, <4>1 DEF ExportPrivateKeyFor
      <4>3. a.key \in Scalar
        BY <1>4, <3>2, LineTypes
      <4> QED BY <4>2, <4>3, NoneIsNoValue DEF Refused
    <3> QED BY <3>2, <3>3
  <2>5. \A h \in Held' : h \in files \/ \E p \in Party : h = new(p)
    BY <1>10, <1>13
  <2> QED BY <2>1, <2>2, <2>3, <2>4, <2>5
<1>16. Numbered'
  <2>1. run.deal = deals /\ deals \in Nat
    BY <1>1, BoundsAreNaturals DEF Numbered, TypeOK
  <2>2. \A h \in Held' : h.deal <= deals
    <3>1. \A h \in files : h.deal <= deals
      BY <1>14 DEF Numbered
    <3> QED BY <1>9, <1>10, <1>13, <2>1, <3>1
  <2>3. vault' # None
    BY <1>7, <1>9, <1>10, NoneIsNoValue
  <2> QED BY <1>1, <2>2, <2>3 DEF Numbered
<1>17. QED
  BY <1>1, <1>11, <1>12, <1>15, <1>16, NoRun

-----------------------------------------------------------------------------
(* The theorems                                                             *)

\* Nothing has happened.
LEMMA InitInv == Init => Inv
<1> SUFFICES ASSUME Init PROVE Inv
  OBVIOUS
<1>1. vault = None /\ files = {} /\ live = None /\ staged = None /\ deals = 0
      /\ run = None /\ session = None
  BY DEF Init
<1>2. TypeOK
  BY <1>1, BoundsAreNaturals DEF TypeOK, Maybe
<1>3. Held = {}
  BY <1>1 DEF Held
<1>4. Cast /\ Owned /\ Numbered /\ SharesFit /\ Agreed /\ OutcomeFollowsShares
  BY <1>1, <1>3 DEF Cast, Owned, Numbered, SharesFit, Agreed, OutcomeFollowsShares
<1>5. QED
  BY <1>2, <1>4 DEF Inv

\* Every step keeps the invariant.
LEMMA NextInv == Inv /\ [Next]_vars => Inv'
<1> SUFFICES ASSUME Inv, [Next]_vars PROVE Inv'
  OBVIOUS
<1>1. CASE BeginDkg
  BY <1>1, BeginDkgInv
<1>2. CASE BeginReshare
  BY <1>2, BeginReshareInv
<1>3. CASE BeginSign
  BY <1>3, BeginSignInv
<1>4. CASE BeginOffline
  BY <1>4, BeginOfflineInv
<1>5. CASE Open
  BY <1>5, OpenInv
<1>6. CASE AdvanceLocal
  BY <1>6, AdvanceLocalInv
<1>7. CASE Round
  BY <1>7, RoundInv
<1>8. CASE Unanswered
  BY <1>8, UnansweredInv
<1>9. CASE ServedBefore
  BY <1>9, ServedBeforeInv
<1>10. CASE Abort
  BY <1>10, AbortInv
<1>11. CASE Confirm
  BY <1>11, ConfirmInv
<1>12. CASE Discard
  BY <1>12, DiscardInv
<1>13. CASE Restore
  BY <1>13, RestoreInv
<1>14. CASE UNCHANGED vars
  <2>1. /\ vault' = vault /\ files' = files /\ live' = live /\ staged' = staged
        /\ deals' = deals /\ run' = run /\ session' = session
    BY <1>14 DEF vars
  <2>2. TypeOK' /\ Owned'
    BY <2>1 DEF Inv, TypeOK, Owned
  <2>3. Held' = Held /\ Locals' = Locals
    BY <2>1 DEF Held, Locals
  <2>4. Cast'
    BY <2>1, <2>3 DEF Inv, Cast, Going
  <2>5. Numbered' /\ SharesFit' /\ OutcomeFollowsShares'
    BY <2>1, <2>3 DEF Inv, Numbered, Dealing, SharesFit, OutcomeFollowsShares
  <2>6. ASSUME NEW plan, Planned(plan) PROVE Planned(plan)'
    <3>1. PlanOfRun(plan)'
      BY <2>1, <2>6 DEF Planned, PlanOfRun, FromShares, Dealing, Expected, First, Second
    <3>2. KeptTo(plan)'
      BY <2>1, <2>3, <2>6 DEF Planned, KeptTo, Dealing, Sent
    <3>3. Delivered(plan)'
      BY <2>1, <2>3, <2>6 DEF Planned, Delivered, Dealing, LocalsDone, Stored
    <3>4. ASSUME InStep(plan) PROVE InStep(plan)'
      BY <2>1, <2>3, <3>4 DEF InStep, Talking
    <3> QED BY <2>1, <2>6, <3>1, <3>2, <3>3, <3>4 DEF Planned, Going
  <2>7. Agreed'
    BY <2>1, <2>6 DEF Inv, Agreed, Going
  <2> QED BY <2>2, <2>4, <2>5, <2>7 DEF Inv
<1>15. QED
  BY <1>1, <1>2, <1>3, <1>4, <1>5, <1>6, <1>7, <1>8, <1>9, <1>10, <1>11, <1>12, <1>13, <1>14
     DEF Next

\* So it always holds.
LEMMA Invariance == Spec => []Inv
BY InitInv, NextInv, PTL DEF Spec

\* Sessions, messages and shares are well formed in every run, whatever calls
\* are lost or served in between, and a session belongs to its party.
THEOREM PartiesTypeCorrect == Spec => []TypeOK
<1>1. Inv => TypeOK
  BY DEF Inv
<1> QED BY <1>1, Invariance, PTL

\* For every field and every number of deals: all shares in use or on file are
\* for one key, and any two of one deal export it (export_private_key_for()).
THEOREM SharesAlwaysFit == Spec => []SharesFit
<1>1. Inv => SharesFit
  BY DEF Inv
<1> QED BY <1>1, Invariance, PTL

\* A run from shares that belong together fails only if a call was lost or
\* something else was served, and one from shares that do not never returns
\* (protocolRunner.ts).
THEOREM OutcomesFollow == Spec => []OutcomeFollowsShares
<1>1. Inv => OutcomeFollowsShares
  BY DEF Inv
<1> QED BY <1>1, Invariance, PTL

\* When the driver hands over new shares the server has the third one of the
\* same deal (finish_dkg(), reshare::advance()).
THEOREM AlwaysKeptTogether == Spec => []KeptTogether
<1>1. Inv => KeptTogether
  <2> SUFFICES ASSUME Inv, run # None, run.at = "returned", Dealing
               PROVE  Stored # None /\ Stored.deal = run.deal
    BY DEF KeptTogether, Stored, Dealing
  <2>1. PICK plan \in Plans : Planned(plan)
    BY DEF Inv, Agreed
  <2>2. Stored = Outcome(run.deal, plan.c, plan.m, Server)
    BY <2>1 DEF Planned, Delivered
  <2>3. Outcome(run.deal, plan.c, plan.m, Server) \in Shares
    <3>1. plan.c \in [Party -> Scalar] /\ plan.m \in [Party -> Scalar] /\ run.deal \in 1..MaxDeals
      BY DEF Plans, Inv, Numbered
    <3> QED BY <3>1, OutcomeType DEF Party
  <2>4. Stored.deal = run.deal
    BY <2>2 DEF Outcome
  <2> QED BY <2>2, <2>3, <2>4, NoneIsNoValue
<1> QED BY <1>1, Invariance, PTL
=============================================================================
