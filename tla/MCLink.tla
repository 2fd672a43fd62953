------------------------------- MODULE MCLink -------------------------------
(***************************************************************************)
(* Link with the values TLC needs: what each process draws, and what each  *)
(* application sends.                                                      *)
(***************************************************************************)
EXTENDS Link

CONSTANTS d1, d2

MCAppData == {d1, d2}
ByRole(client, server) ==
    [r \in SmRole |-> IF r = "ROLE_CLIENT" THEN client ELSE server]

MCSntValues == ByRole({1}, {0})
MCClientSends == ByRole(<<d1, d2>>, << >>)
MCEitherSends == ByRole(<<d1>>, <<d1>>)
MCNobodySends == ByRole(<< >>, << >>)
=============================================================================
