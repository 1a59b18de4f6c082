------------------------------- MODULE MCAdoption -------------------------------
(* Instances of Adoption for TLC.                                          *)
EXTENDS Adoption, TLC

CONSTANTS l1, l2, o1

OneServer == {o1}
OneLegacy == {l1}

Ann(s, n) == [storage |-> s, networking |-> n]

(* Both annotations together, none, and damaged ones.                      *)
AllAnnotations ==
    {Ann(None, None), Ann(l1, l1), Ann(Invalid, None), Ann(l1, Invalid), Ann(Same, l1)}
(* One annotation at a time, or none, or a damaged one.                    *)
SingleAnnotations == {Ann(None, None), Ann(l1, None), Ann(None, l1), Ann(Invalid, None)}
StorageAnnotations == {Ann(None, None), Ann(l1, None)}
================================================================================
