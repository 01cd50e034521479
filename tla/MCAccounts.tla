----------------------------- MODULE MCAccounts -----------------------------
(* Instances of Accounts for TLC.                                            *)
EXTENDS Accounts, TLC

CONSTANTS r1, r2, r3, e1, e2

Sent(rule, e, valid, name) == [key |-> <<rule, e>>, valid |-> valid, name |-> name]

(* The workspaces "a" and "a 2": the second has the slug of the second "a".  *)
MCForms == {Sent("register", e1, TRUE, <<1>>), Sent("register", e2, TRUE, <<1>>),
            Sent("register", e2, TRUE, <<1, 2>>), Sent("login", e1, TRUE, <<>>)}
MCKeys == {"register", "login"} \X {e1, e2}
MCLimit == [k \in MCKeys |-> IF k[1] = "register" THEN 2 ELSE 1]
Symmetry == Permutations(Requests)
MCWindow == [k \in MCKeys |-> 2]
=============================================================================
