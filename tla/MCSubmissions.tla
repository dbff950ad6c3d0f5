----------------------------- MODULE MCSubmissions ----------------------------
(* An instance of Submissions for TLC: two users in two tabs of one browser, and *)
(* two requests under way.                                                       *)
EXTENDS Submissions, TLC

CONSTANTS o1, o2, u1, u2, t1, t2, r1, r2, x1, x2

Same == Permutations(Op) \cup Permutations(User) \cup Permutations(Tab)
        \cup Permutations(Req) \cup Permutations(Result)
===============================================================================
