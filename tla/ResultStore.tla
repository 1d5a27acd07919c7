---------------------------- MODULE ResultStore -----------------------------
(***************************************************************************)
(* What a result store promises (packages/nopo/src/cache/store.ts): "given *)
(* a key, return cached metadata or null; given an entry, persist it".     *)
(* What a reader may see under a key changes in one step from nothing or   *)
(* one whole entry to another or to nothing.                               *)
(***************************************************************************)
CONSTANTS Keys, Entries, Nothing

VARIABLE content    \* key -> what a reader sees

Init == content = [k \in Keys |-> Nothing]

Put(e)  == content' = [content EXCEPT ![e.key] = e]
Drop(k) == content' = [content EXCEPT ![k] = Nothing]

Next == (\E e \in Entries : Put(e)) \/ (\E k \in Keys : Drop(k))

Spec == Init /\ [][Next]_content
=============================================================================
