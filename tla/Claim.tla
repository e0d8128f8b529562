-------------------------------- MODULE Claim --------------------------------
(***************************************************************************)
(* What a finalizer promises.  A resource may put something on a server    *)
(* only while it is held, that is, while its finalizer keeps it from going *)
(* away, and it is released only once the server has nothing of it left.   *)
(* What it put there may go at any time by other hands.                    *)
(***************************************************************************)
CONSTANT Objects     \* the resources

VARIABLES
  held,   \* the resources that carry the finalizer
  owns    \* those that have something on the server

Init == held = {} /\ owns = {}

Take(r) == r \notin held /\ held' = held \cup {r} /\ UNCHANGED owns

Put(r) == r \in held /\ owns' = owns \cup {r} /\ UNCHANGED held

Clean == owns' \in SUBSET owns /\ UNCHANGED held

Release(r) == r \in held \ owns /\ held' = held \ {r} /\ UNCHANGED owns

Next == Clean \/ \E r \in Objects : Take(r) \/ Put(r) \/ Release(r)

Spec == Init /\ [][Next]_<<held, owns>>
=============================================================================
