------------------------- MODULE MCRecruitInterview -------------------------
(***************************************************************************)
(* Small instances of RecruitInterview for TLC. One interview role that is *)
(* mandatory for all ("hr") and one to apply for ("dev"), which has a      *)
(* form; two times with a row per role each: rows are named role, time.    *)
(***************************************************************************)
EXTENDS RecruitInterview, TLC

MCRoles == {"hr", "dev"}
MCRows == MCRoles \X {0, 1}
FirstRows == MCRoles \X {0}
MCRoleOf == [r \in MCRows |-> r[1]]
MCTimeOf == [r \in MCRows |-> r[2]]
MCCollectionOf == [x \in MCRoles |-> IF x = "dev" THEN "form" ELSE NoCollection]

RequestSymmetry == Permutations(Requests)
Symmetry == RequestSymmetry \cup Permutations(Applicants) \cup Permutations(Events)
=============================================================================
