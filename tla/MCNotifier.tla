----------------------------- MODULE MCNotifier -----------------------------
(***************************************************************************)
(* Small instances of Notifier for TLC.                                    *)
(***************************************************************************)
EXTENDS Notifier

\* A main branch g-a1-a2 and a fork b1 at a1's height.
ForkBlocks == {"g", "a1", "a2", "b1"}
ForkParent == [b \in ForkBlocks |->
                 CASE b = "a2" -> "a1" [] OTHER -> "g"]
ForkHeight == [b \in ForkBlocks |->
                 CASE b = "a2" -> 2 [] b = "g" -> 0 [] OTHER -> 1]

\* A branch without forks.
LineBlocks == {"g", "a1", "a2"}
LineParent == [b \in LineBlocks |-> IF b = "a2" THEN "a1" ELSE "g"]
LineHeight == [b \in LineBlocks |-> CASE b = "g" -> 0 [] b = "a1" -> 1 [] b = "a2" -> 2]

\* Two groups of block handlers, the first with two members; one tx handler.
TwoGroups == <<{"h1", "h2"}, {"h3"}>>
SoloGroups == <<{"h1"}, {"h2"}>>
TxGroup == <<{"t1"}>>
=============================================================================
