------------------------------ MODULE MCPages ------------------------------
(* An instance of Pages for TLC: ints up to seven, up to four rows. *)
EXTENDS Pages

\* Both ends of the range, what InitPage replaces, and sizes that divide the
\* number of rows and that do not.
SentNumbers == {-8, 0, 1, 2, 3, 7}
=============================================================================
