-------------------------- MODULE StakeArithmetic --------------------------
(***************************************************************************)
(* The lamport arithmetic of svmgov's utils.rs.  Products go through u128  *)
(* and sums of real stakes stay far below 2^64, so plain naturals; what is *)
(* kept is that every share is rounded down.                               *)
(***************************************************************************)
EXTENDS Integers, FiniteSets

BASIS_POINTS_MAX == 10000

\* Shares of a vote: what is voted for, against, and abstained.
Options == {"for", "against", "abstain"}

(***************************************************************************)
(* The sum of the naturals f[x], written as the number of units there are  *)
(* in it, which needs no recursion.                                        *)
(***************************************************************************)
Units(f) == UNION {{x} \X (1 .. f[x]) : x \in DOMAIN f}
Sum(f) == Cardinality(Units(f))

\* min_stake_threshold
min_stake_threshold(cluster_stake, min_bps) == (cluster_stake * min_bps) \div BASIS_POINTS_MAX

\* calculate_vote_lamports, for the three options of a distribution in basis points.
vote_lamports(stake, bp) == [o \in Options |-> (stake * bp[o]) \div BASIS_POINTS_MAX]

\* add_vote_lamports, sub_vote_lamports, and when the latter does not fail.
Plus(a, b) == [o \in Options |-> a[o] + b[o]]
Minus(a, b) == [o \in Options |-> a[o] - b[o]]
Covers(a, b) == \A o \in Options : a[o] >= b[o]

NoLamports == [o \in Options |-> 0]
=============================================================================
