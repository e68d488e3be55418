------------------------------ MODULE MCSignIn ------------------------------
(***************************************************************************)
(* Instances of SignIn for TLC.                                            *)
(***************************************************************************)
EXTENDS SignIn, TLC

CONSTANTS a, b, p1, p2, c1, c2, t1, t2

TwoAdmins == (a :> "ADMIN" @@ b :> "ADMIN")
FewChanges ==
    {<<Same, "LOCKED">>, <<"TEACHER", Same>>, <<"ADMIN", "LOCKED">>}
TabsOrChanges ==
    {<<2, 0, TRUE>>, <<2, 0, FALSE>>, <<1, 1, TRUE>>, <<0, 2, TRUE>>}
FaultsWithLocks == (TRUE :> 1 @@ FALSE :> 0)
Symmetry == Permutations({t1, t2}) \union Permutations({c1, c2}) \union Permutations({p1, p2})
=============================================================================
