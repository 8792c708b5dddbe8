--------------------------- MODULE MCPhoneHomeHub ---------------------------
(* Small instances of PhoneHomeHub: who waits for which VM. *)
EXTENDS PhoneHomeHub, TLC

CONSTANTS build, start, s1

\* A VM that is being created.
MCSecretOfOne == (build :> s1)

\* A VM that is created, while another request starts it.
MCSecretOfShared == (build :> s1 @@ start :> s1)
=============================================================================
