---------------------------- MODULE MCProviders ----------------------------
(* Providers with an IAM lease and a scripted one that draw their names, and *)
(* one whose template always renders the same.                               *)
EXTENDS Providers, TLC

CONSTANTS l1, l2, l3

MCKind == (l1 :> "iam") @@ (l2 :> "script") @@ (l3 :> "bare")

literal == [random |-> FALSE, kept |-> TRUE]
drawnToken == [random |-> TRUE, kept |-> TRUE]
cutToken == [random |-> TRUE, kept |-> FALSE]

MCTemplate == (l1 :> <<literal, drawnToken>>) @@ (l2 :> <<cutToken>>)
              @@ (l3 :> <<literal, cutToken>>)
=============================================================================
