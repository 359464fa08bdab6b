----------------------------- MODULE MCMockPins -----------------------------
(***************************************************************************)
(* Requests for model checking MockPins: the input, nothing, and an input  *)
(* the mock PHC does not have.                                             *)
(***************************************************************************)
EXTENDS MockPins

MCRequests == {Func("none", 0), Func("extts", 0), Func("extts", 1)}
=============================================================================
