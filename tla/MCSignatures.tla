---------------------------- MODULE MCSignatures ----------------------------
(***************************************************************************)
(* Signatures on a small instance.                                         *)
(***************************************************************************)
EXTENDS Signatures

CONSTANTS n1, n2, auth, antibot, c1, c2

Def(n, c) == [key |-> <<n, auth>>, content |-> c]

MCKeys == {<<n1, auth>>, <<n2, auth>>, <<n1, antibot>>}

\* Two revisions that list two signatures in another order, one that moved one of
\* them to another category, and one that is refused.
MCFiles == {<<Def(n1, c1), Def(n2, c1)>>, <<Def(n2, c2), Def(n1, c1)>>,
            <<[key |-> <<n1, antibot>>, content |-> c1]>>,
            <<Def(n1, c1), Def(n1, c2)>>}

\* Two rows that do not validate, and a signature without one.
MCTables == {[k \in Keys |-> IF k[2] = auth THEN Invalid ELSE None]}
=============================================================================
