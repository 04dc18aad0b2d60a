------------------------ MODULE MCEncryptionPlugins ------------------------
(* Instances of EncryptionPlugins for TLC.                                 *)
EXTENDS EncryptionPlugins

CONSTANTS aes1, aes2, sm4, t1, t2

\* Two plugins of one algorithm, and one that is found by the loader.
AlgorithmOf == [p \in {aes1, aes2, sm4} |-> IF p = sm4 THEN "sm4" ELSE "aes"]
SmLoaded == [a \in {"aes", "sm4"} |-> IF a = "sm4" THEN sm4 ELSE NoPlugin]
Ids == {<<"cipher", "aes", "x">>, <<"cipher", "sm4">>, <<"cipher", "", "x">>,
        <<"cipher", "">>, <<"plain", "aes">>}
AesIds == {<<"cipher", "aes", "x">>, <<"cipher", "sm4">>, <<"x">>}
TwoManagers == {1, 2}
ThreeManagers == {1, 2, 3}
=============================================================================
