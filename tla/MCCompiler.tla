----------------------------- MODULE MCCompiler -----------------------------
(***************************************************************************)
(* Every process over three states with at most three transitions and two  *)
(* automatic steps, time budgets or gates.                                 *)
(***************************************************************************)
EXTENDS Compiler, FiniteSets, FiniteSetsExt, TLC

CONSTANTS a, b, c

Pairs == States \X States
UpTo(k, S) == UNION {kSubset(n, S) : n \in 0..k}

MCDeclarations ==
    {p \in [transitions : UpTo(3, Pairs) \ {{}}, auto : UpTo(2, Pairs),
            sla : UNION {[S -> States \cup {Nil}] : S \in UpTo(2, States)}, gated : UpTo(1, States)] :
        /\ Cardinality(p.auto) + Cardinality(DOMAIN p.sla) + Cardinality(p.gated) <= 2
        /\ \A s \in p.gated : \E t \in p.transitions : t[2] = s}

Others == Permutations(States \ {First})
=============================================================================
