------------------------------- MODULE BlobStore -------------------------------
(***************************************************************************)
(* What the disk tier promises its callers (the comments of DiskCache, Put *)
(* and Delete in internal/cache/disk.go): a map that may forget, written   *)
(* behind the caller's back in the order the operations were accepted. It  *)
(* may lose a value at any time, and a crash may damage one; it never      *)
(* brings one back, and what was damaged stays so until it is replaced,    *)
(* deleted or lost.                                                        *)
(***************************************************************************)
EXTENDS Naturals, Sequences

CONSTANTS Keys, Ops, NoBlob, Damaged   (* an operation is [key, n, del]    *)

VARIABLES
  store,     (* what a reader finds under each key: an operation's n       *)
  pending    (* operations accepted and not yet applied, in order          *)

Init == store \in [Keys -> {NoBlob, Damaged} \cup Nat] /\ pending = <<>>

Accept(op) == pending' = Append(pending, op) /\ UNCHANGED store

Apply ==
  /\ pending # <<>>
  /\ LET op == Head(pending)
     IN  store' = [store EXCEPT ![op.key] = IF op.del THEN NoBlob ELSE op.n]
  /\ pending' = Tail(pending)

Lose == pending # <<>> /\ pending' = Tail(pending) /\ UNCHANGED store

Forgets(K) == store' = [k \in Keys |-> IF k \in K THEN NoBlob ELSE store[k]]

Forget == (\E k \in Keys : Forgets({k})) /\ UNCHANGED pending

Crash ==
  /\ \E lost \in SUBSET Keys, bad \in SUBSET {k \in Keys : store[k] # NoBlob} :
       store' = [k \in Keys |-> IF k \in lost THEN NoBlob ELSE IF k \in bad THEN Damaged ELSE store[k]]
  /\ pending' = <<>>

Next == (\E op \in Ops : Accept(op)) \/ Apply \/ Lose \/ Forget \/ Crash

Spec == Init /\ [][Next]_<<store, pending>>
=============================================================================
