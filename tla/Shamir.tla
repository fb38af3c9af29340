------------------------------- MODULE Shamir -------------------------------
(***************************************************************************)
(* Shamir's secret sharing over the integers modulo a prime, as SplitSecret *)
(* and ReconstructSecret of phase2/commit.go compute it.  The reductions   *)
(* after every multiplication there are one at the end here.               *)
(***************************************************************************)
EXTENDS Integers, Sequences, Functions

CONSTANT P   \* the field prime

Field == 0..(P - 1)

Product(f) == FoldFunction(LAMBDA a, b : a * b, 1, f)

\* xPow before round i: multiplied by x in each round.
Power(x, i) == Product([j \in 1..i |-> x])

\* Share number x: the polynomial with these coefficients, coeffs[0] the secret,
\* at x.
ShareOf(coeffs, x) == SumFunction([i \in DOMAIN coeffs |-> coeffs[i] * Power(x, i)]) % P

\* SplitSecret, for the random coefficients it may draw.
Polynomials(secret, t) == {f \in [0..(t - 1) -> Field] : f[0] = secret}

SplitSecret(coeffs, n) == [x \in 1..n |-> ShareOf(coeffs, x)]

Invertible(a) == a % P # 0

ModInverse(a) == CHOOSE b \in Field : (a * b) % P = 1

\* Mutant: the share itself is not skipped.
Numerator_AllShares(xs, i) == Product([j \in DOMAIN xs |-> P - xs[j]]) % P

\* The basis polynomial of the i-th of the shares numbered xs, at 0.
Numerator(xs, i)   == Product([j \in DOMAIN xs \ {i} |-> P - xs[j]]) % P
Denominator(xs, i) == Product([j \in DOMAIN xs \ {i} |-> (xs[i] - xs[j]) % P]) % P

\* ReconstructSecret fails when two shares have the same number.
CanInterpolate(xs) ==
  xs # << >> /\ \A i \in DOMAIN xs : Invertible(Denominator(xs, i))

\* ReconstructSecret from the shares numbered xs, with these values.
ReconstructSecret(xs, value) ==
  SumFunction([i \in DOMAIN xs |->
    (((value[xs[i]] * Numerator(xs, i)) % P) * ModInverse(Denominator(xs, i))) % P]) % P
=============================================================================
