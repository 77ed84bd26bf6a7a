---------------------------- MODULE MCSyncServer ----------------------------
(***************************************************************************)
(* Instances of SyncServer for TLC. Two objects have rows already, one has *)
(* none. Two requests lock the existing ones in opposite orders; two of    *)
(* different devices create the third; every key may be sent again, also   *)
(* with another base version, as a device does after a rebase.             *)
(***************************************************************************)
EXTENDS SyncServer, TLC

CONSTANTS d1, d2, a, b, new, k1, k2, k3, k4

On(o, v) == [object |-> o, base |-> v]

Push(k, d, changes) == [key |-> k, device |-> d, changes |-> changes]

(* Two keys lock the existing objects in opposite orders, two create the   *)
(* third object beside an edit of one of them; bases are those a device    *)
(* can hold.                                                               *)
MixedRequests ==
  {Push(k1, d1, <<On(a, v), On(b, 1)>>) : v \in 1..2}
    \cup {Push(k2, d2, <<On(b, v), On(a, 1)>>) : v \in 1..2}
    \cup {Push(k3, d2, <<On(new, 0), On(b, v)>>) : v \in 1..2}
    \cup {Push(k4, d1, <<On(a, v)>>) : v \in 1..3}

(* Two edits of an object one device has just created, under two keys, and *)
(* nothing else.                                                           *)
CreateRequests == {Push(k1, d1, <<On(new, 0)>>), Push(k2, d1, <<On(new, 0)>>)}

(* One edit of each existing object, each by its own device.               *)
SeparateRequests == {Push(k1, d1, <<On(a, 1)>>), Push(k2, d2, <<On(b, 1)>>)}
=============================================================================
