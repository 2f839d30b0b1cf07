---------------------------- MODULE MCOwnership ----------------------------
(* TLC instances of Ownership.                                             *)
EXTENDS Ownership

OneRoute == <<"rtb1">>
TwoRoutes == <<"rtb1", "rtb2">>

Never == [c \in Clouds |-> 0]
OnceOnAws == [c \in Clouds |-> IF c = "aws" THEN 1 ELSE 0]
OnceOnGcp == [c \in Clouds |-> IF c = "gcp" THEN 1 ELSE 0]
Once == [c \in Clouds |-> 1]
=============================================================================
