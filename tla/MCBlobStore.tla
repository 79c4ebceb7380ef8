---------------------------- MODULE MCBlobStore ----------------------------
(* BlobStore on small instances. *)
EXTENDS BlobStore

CONSTANTS c1, c2, gc, m1, i1

\* The second client joins only where all the traffic is about one key: two writers
\* of one name, or of one digest, is what it is there for, and the instance stays small.
Focused ==
    \/ op[c2] = "none"
    \/ \E k \in Keys : \A other \in Keys \ {k} :
            /\ names[other] = None
            /\ \A s \in Sessions : other \notin keys[s] \cup wrote[s]

FocusedSpec == Init /\ [][Next /\ Focused']_vars

=============================================================================
