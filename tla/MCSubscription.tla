---------------------------- MODULE MCSubscription ----------------------------
(***************************************************************************)
(* Safety of Subscription for TLC in four scenes, chosen at the start: a    *)
(* checkout with two provider subscriptions to choose from and a fault; a   *)
(* renewal of two cycles with two of them; a dunning task with one; and,    *)
(* after a first checkout and with no request any more, two syncs at once   *)
(* that Razorpay answers in the order in which they began.  A sync,         *)
(* requests and Razorpay run in the first three.  The values of the         *)
(* constants are in the cfg file; provider refs are interchangeable.        *)
(***************************************************************************)
EXTENDS Subscription, TLC

CONSTANTS r1, d1, s1, s2

VARIABLE scene

C == INSTANCE Subscription WITH MaxCycle <- 1
R == INSTANCE Subscription WITH MaxFaults <- 0
D == INSTANCE Subscription WITH Refs <- {r1}, Dunners <- {d1}
T == INSTANCE Subscription WITH Refs <- {r1}, Syncers <- {s1, s2}, MaxFaults <- 0

SceneInit == \/ scene = "checkout" /\ C!Init
             \/ scene = "renewal" /\ R!Init
             \/ scene = "dunning" /\ D!Init
             \/ scene = "two syncs" /\ T!Init

SceneNext == /\ UNCHANGED scene
             /\ \/ scene = "checkout" /\ C!Next
                \/ scene = "renewal" /\ R!Next
                \/ scene = "dunning" /\ D!Next
                \/ /\ scene = "two syncs" /\ T!Next /\ AnswersInOrder
                   /\ row.status # "NONE" => lock' = Free

SceneSpec == SceneInit /\ [][SceneNext]_<<scene, vars>>

RefSymmetry == Permutations(Refs)

=============================================================================
