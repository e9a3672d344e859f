------------------------------ MODULE Listings ------------------------------
(***************************************************************************)
(* What SELECT .. WHERE .. ORDER BY .. LIMIT answers: the rows of a table  *)
(* in the order of the clause are a sequence without repetitions, the      *)
(* WHERE clause is the set of the rows it lets through.                    *)
(***************************************************************************)
EXTENDS Naturals, Sequences

Elements(s) == {s[i] : i \in 1..Len(s)}

Before(s, x, y) == \E i, k \in 1..Len(s) : i < k /\ s[i] = x /\ s[k] = y

\* The answers (there is one): at most n rows, in order, and a row that is left out
\* comes after n others.
Answers(s, where, n) ==
  LET rows == Elements(s) \cap where
  IN {a \in UNION {[1..m -> rows] : m \in 0..n} :
        /\ \A i, k \in DOMAIN a : i < k => Before(s, a[i], a[k])
        /\ \A x \in rows \ Elements(a) :
             Len(a) = n /\ \A i \in DOMAIN a : Before(s, a[i], x)}
=============================================================================
