---------------------------- MODULE MCPublisher ----------------------------
(* Model-checking instance of Publisher.                                    *)
EXTENDS Publisher
=============================================================================
