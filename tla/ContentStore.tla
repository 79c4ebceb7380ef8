---------------------------- MODULE ContentStore ----------------------------
(***************************************************************************)
(* What blob.Service promises, with no transactions, no locks and no GC    *)
(* protocol: names refer to contents that can be read, for as long as they *)
(* refer to them.                                                          *)
(*                                                                         *)
(* BYTES FIRST, THEN METADATA on a write: a name is bound only to content  *)
(* that is already available.  METADATA FIRST, THEN BYTES on a delete:     *)
(* content is reclaimed only once no name refers to it.  A name outside    *)
(* Mutable is bound at most once before it is deleted.                     *)
(***************************************************************************)
CONSTANTS Keys, Mutable, Digests, None

VARIABLES
    names,     \* the content each key names, or None
    available  \* the contents that can be read back

vars == <<names, available>>

Init ==
    /\ names = [k \in Keys |-> None]
    /\ available = {}

Upload(d) ==
    /\ available' = available \cup {d}
    /\ UNCHANGED names

Bind(k, d) ==
    /\ d \in available
    /\ k \in Mutable \/ names[k] = None
    /\ names' = [names EXCEPT ![k] = d]
    /\ UNCHANGED available

\* A batch delete removes several names in one transaction.
Unbind(ks) ==
    /\ names' = [k \in Keys |-> IF k \in ks THEN None ELSE names[k]]
    /\ UNCHANGED available

Reclaim(d) ==
    /\ \A k \in Keys : names[k] # d
    /\ available' = available \ {d}
    /\ UNCHANGED names

Next ==
    \/ \E d \in Digests : Upload(d) \/ Reclaim(d)
    \/ \E k \in Keys, d \in Digests : Bind(k, d)
    \/ \E ks \in SUBSET Keys : Unbind(ks)

Spec == Init /\ [][Next]_vars
=============================================================================
