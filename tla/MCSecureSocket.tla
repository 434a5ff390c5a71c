------------------------------ MODULE MCSecureSocket ------------------------------
(* Instances of SecureSocket for TLC. *)
EXTENDS SecureSocket

\* A message of one record, and one of two.
TwoMessages == <<1, 2>>
================================================================================
