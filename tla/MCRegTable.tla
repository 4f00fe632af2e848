------------------------------ MODULE MCRegTable ------------------------------
(* Two main tasks: 0 with the sons 1 to 3, 4 with the son 5. *)
EXTENDS RegTable

TwoGroups == [r \in Row |-> IF r < 4 THEN 0 ELSE 4]
==============================================================================
