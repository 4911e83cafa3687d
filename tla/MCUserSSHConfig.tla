--------------------------- MODULE MCUserSSHConfig ---------------------------
(***************************************************************************)
(* Small instances of UserSSHConfig for TLC.                               *)
(***************************************************************************)
EXTENDS UserSSHConfig, TLC

U1 == Line("user", "u1", 0)
U2 == Line("user", "u2", 0)

\* Empty, plain, with blank lines around, and with a block of "dev1" whose end
\* marker the user has deleted.
MCOriginals == { <<>>, <<U1>>, <<U1, Blank, U2>>, <<Blank, U1, Blank>>,
                 <<U1, Line("begin", "dev1", 0), Line("body", "dev1", 1), Blank, U2>> }

\* No alias is a prefix of another one; "dev1" is one of "dev10".
Unrelated == [a \in {"dev1", "dev2"} |-> {}]
Prefixed  == [a \in {"dev1", "dev10"} |-> IF a = "dev1" THEN {"dev10"} ELSE {}]

Slots == Permutations(Commands)
=============================================================================
