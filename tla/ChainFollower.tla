--------------------------- MODULE ChainFollower ---------------------------
(***************************************************************************)
(* What the notifier promises the modules that register block handlers,    *)
(* without its queue, its goroutines and its groups: a handler is only     *)
(* given blocks that extend the best block, and the best block moves on,   *)
(* to a child of its own, only when every handler is done with that child. *)
(* A block that was given may be given again, and may never become the     *)
(* best block.                                                             *)
(***************************************************************************)
CONSTANTS
  Blocks, Parent,
  Handlers,     \* the registered block handlers
  NoBlock

VARIABLES
  best,         \* the best block, NoBlock before the start
  given,        \* blocks given to the handlers
  handled       \* pairs <<h, b>>: handler h has returned from block b

vars == <<best, given, handled>>

Init == best = NoBlock /\ given = {} /\ handled = {}

\* SetPreviousBlock by main
Start(b) ==
  /\ best = NoBlock
  /\ best' = b
  /\ UNCHANGED <<given, handled>>

Give(b) ==
  /\ best # NoBlock /\ Parent[b] = best
  /\ given' = given \cup {b}
  /\ UNCHANGED <<best, handled>>

Handle(h, b) ==
  /\ b \in given
  /\ handled' = handled \cup {<<h, b>>}
  /\ UNCHANGED <<best, given>>

Advance(b) ==
  /\ b \in given /\ Parent[b] = best
  /\ \A h \in Handlers : <<h, b>> \in handled
  /\ best' = b
  /\ UNCHANGED <<given, handled>>

Next ==
  \E b \in Blocks :
    \/ Start(b) \/ Give(b) \/ Advance(b)
    \/ \E h \in Handlers : Handle(h, b)

Spec == Init /\ [][Next]_vars
=============================================================================
