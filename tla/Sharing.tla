------------------------------ MODULE Sharing ------------------------------
(***************************************************************************)
(* The arithmetic of the shares (mpc-core protocol.rs, backend.rs).  A     *)
(* share is a point of a line over the scalar field, at its party's index; *)
(* the constant of the line is the private key.  A reshare deals new lines *)
(* whose constants are the survivors' Lagrange-weighted points.            *)
(*                                                                         *)
(* The field is a parameter: the code's is the scalar field of secp256k1,  *)
(* TLC's a small prime field.                                              *)
(***************************************************************************)
EXTENDS Integers

CONSTANTS
    Scalar,                         \* the elements of the field
    Zero, One,
    Plus(_, _), Times(_, _),
    Negative(_), Inverse(_),
    Extension, Recovery, Server     \* the parties 0, 1 and 2 (PARTY)

Two == Plus(One, One)
Three == Plus(Two, One)

ASSUME ScalarsAreAField ==
    /\ Zero \in Scalar /\ One \in Scalar /\ Zero # One
    /\ \A a \in Scalar : Negative(a) \in Scalar /\ Inverse(a) \in Scalar
    /\ \A a, b \in Scalar : Plus(a, b) \in Scalar /\ Times(a, b) \in Scalar
    /\ \A a, b \in Scalar : Plus(a, b) = Plus(b, a) /\ Times(a, b) = Times(b, a)
    /\ \A a, b, c \in Scalar : Plus(a, Plus(b, c)) = Plus(Plus(a, b), c)
    /\ \A a, b, c \in Scalar : Times(a, Times(b, c)) = Times(Times(a, b), c)
    /\ \A a, b, c \in Scalar : Times(a, Plus(b, c)) = Plus(Times(a, b), Times(a, c))
    /\ \A a \in Scalar : Plus(a, Zero) = a /\ Times(a, One) = a
    /\ \A a \in Scalar : Plus(a, Negative(a)) = Zero
    /\ \A a \in Scalar : a # Zero => Times(a, Inverse(a)) = One

\* The indices 1, 2 and 3 are different and none of them is zero.
ASSUME CharacteristicIsAboveThree == Two # Zero /\ Three # Zero

ASSUME PartiesDiffer ==
    Extension # Recovery /\ Extension # Server /\ Recovery # Server

Party == {Extension, Recovery, Server}

-----------------------------------------------------------------------------
\* to_index(): a party's point is the line's value at its number plus one.
Index(p) == IF p = Extension THEN One ELSE IF p = Recovery THEN Two ELSE Three

\* The line through zero with constant c and slope m, at every party's index.
Line(c, m) == [p \in Party |-> Plus(c, Times(m, Index(p)))]

\* The coefficient at zero for `me` over the pair {me, other}: j / (j - i).
SlipSwapped(me, other) ==
    Times(Index(other), Inverse(Plus(Index(me), Negative(Index(other)))))

LagrangeAtZero(me, other) ==
    Times(Index(other), Inverse(Plus(Index(other), Negative(Index(me)))))

\* What a survivor deals to each party: its weighted point is the constant and
\* the slope is fresh.  A joiner deals zero.
ReshareRow(me, point, other, slope) ==
    Line(Times(LagrangeAtZero(me, other), point), slope)

JoinerRow == [p \in Party |-> Zero]

\* What a party that was dealt `fragments` ends up with.
SumOf(fragments) ==
    Plus(fragments[Extension], Plus(fragments[Recovery], fragments[Server]))

\* Interpolation of two parties' points at zero.
Reconstruct(p, a, q, b) ==
    Plus(Times(LagrangeAtZero(p, q), a), Times(LagrangeAtZero(q, p), b))
=============================================================================
