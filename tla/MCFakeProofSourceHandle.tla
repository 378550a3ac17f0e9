----------------------- MODULE MCFakeProofSourceHandle -----------------------
(***************************************************************************)
(* FakeProofSourceHandle for TLC.                                          *)
(***************************************************************************)
EXTENDS FakeProofSourceHandle

=============================================================================
