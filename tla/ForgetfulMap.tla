---------------------------- MODULE ForgetfulMap ----------------------------
(***************************************************************************)
(* What PromptProtector relies on in a cache: a lookup gives the value set *)
(* last for its key, or nothing.  Anything may be forgotten at any time.   *)
(* LruCache.tla implements it; the cache of Pipeline.tla is one.           *)
(***************************************************************************)
CONSTANTS Keys, Values, None

VARIABLES latest,    \* key -> the value the callers set last
          store,     \* key -> that value, or None once it is forgotten
          answer     \* what the latest lookup returned

vars == <<latest, store, answer>>

Init == /\ latest = [k \in Keys |-> None]
        /\ store = [k \in Keys |-> None]
        /\ answer = None

(* Nothing but what is in old survives. *)
Kept(old) == \A k \in Keys : store'[k] \in {old[k], None}

Get(k) == /\ answer' \in {store[k], None}
          /\ store' \in [Keys -> Values \cup {None}]
          /\ Kept(store)
          /\ UNCHANGED latest

Set(k, v) == /\ store' \in [Keys -> Values \cup {None}]
             /\ Kept([store EXCEPT ![k] = v])
             /\ latest' = [latest EXCEPT ![k] = v]
             /\ UNCHANGED answer

Forget == /\ store' \in [Keys -> Values \cup {None}]
          /\ Kept(store)
          /\ UNCHANGED <<latest, answer>>

Next == \/ \E k \in Keys : Get(k) \/ \E v \in Values : Set(k, v)
        \/ Forget

Spec == Init /\ [][Next]_vars
=============================================================================
