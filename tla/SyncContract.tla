----------------------------- MODULE SyncContract -----------------------------
(***************************************************************************)
(* What the push API promises about the objects it already stores: a push  *)
(* is one atomic compare-and-increment of the versions of a batch of       *)
(* objects, and it takes effect at most once for an idempotency key. How   *)
(* transactions, locks, retries and failures get there is not visible.     *)
(***************************************************************************)
EXTENDS Integers, Sequences

CONSTANTS
  Objects,  \* the objects the server stores
  Requests  \* the pushes it may be sent, with the base version of each change

VARIABLES
  version,  \* the version of each object
  history,  \* the changes made, with the version and the cursor of each
  done      \* the keys that have taken effect

vars == <<version, history, done>>

Init ==
  /\ version = [o \in Objects |-> 1]
  /\ history = {}
  /\ done = {}

Changes(r) ==
  {c \in {r.changes[i] : i \in 1..Len(r.changes)} : c.object \in Objects}

(* A request takes effect: all of its changes at once, and only if each is *)
(* based on the version its object has now. Each leaves one change behind, *)
(* with the version after its base and after every earlier change of the   *)
(* object in cursor order.                                                 *)
Accept(r) ==
  LET batch == history' \ history
  IN  /\ r.key \notin done
      /\ done' = done \cup {r.key}
      /\ \A c \in Changes(r) : c.base = version[c.object]
      /\ version' = [o \in Objects |->
           IF \E c \in Changes(r) : c.object = o THEN version[o] + 1 ELSE version[o]]
      /\ history \subseteq history'
      /\ \A c \in Changes(r) : \E e \in batch : e.object = c.object
      /\ \A e \in batch :
           /\ e.key = r.key
           /\ \E c \in Changes(r) : e.object = c.object /\ e.version = c.base + 1
           /\ \A f \in history : f.object = e.object => f.cursor < e.cursor
           /\ \A f \in batch : f.object = e.object => f = e

Next == \E r \in Requests : Accept(r)

Spec == Init /\ [][Next]_vars
=============================================================================
