------------------------------ MODULE LruCache ------------------------------
(***************************************************************************)
(* cache.InMemoryLRUCache (cache.py:37-78).  Every operation runs under    *)
(* the threading.Lock, so each is one step, whichever event loop or thread *)
(* it comes from.  Time is time.time() in ticks; it may be set back.       *)
(***************************************************************************)
EXTENDS Integers, Sequences, FiniteSets

CONSTANTS
  Keys, Values, None,
  MaxEntries,   \* max_entries
  TTL,          \* ttl_seconds, in ticks
  LastTick,     \* bound: the clock's last value
  MaxUses       \* bound: operations

ASSUME LruAssumption ==
  /\ None \notin Values \cup [expires : Int, value : Values]
  /\ MaxEntries \in Nat /\ TTL \in Nat /\ LastTick \in Nat /\ MaxUses \in Nat

VARIABLES
  order,    \* the keys of self._items, the least recently used first
  items,    \* key -> entry, None where there is none
  clock,    \* time.time()
  answer,   \* what the latest get returned
  uses,     \* operations so far
  lastUse,  \* key -> the operation that set it or hit it last
  latest    \* key -> the value the callers set last

vars == <<order, items, clock, answer, uses, lastUse, latest>>

Init ==
  /\ order = <<>>
  /\ items = [k \in Keys |-> None]
  /\ clock = 0
  /\ answer = None
  /\ uses = 0
  /\ lastUse = [k \in Keys |-> 0]
  /\ latest = [k \in Keys |-> None]

Present == {k \in Keys : items[k] # None}
Position(k) == CHOOSE i \in 1..Len(order) : order[i] = k
Without(k) ==
  IF items[k] = None THEN order
  ELSE SubSeq(order, 1, Position(k) - 1) \o SubSeq(order, Position(k) + 1, Len(order))

(* self._items.move_to_end(key), of a key that is there or is added. *)
MovedToEnd(k) == Append(Without(k), k)

Used(k) ==
  /\ uses < MaxUses
  /\ uses' = uses + 1
  /\ lastUse' = [lastUse EXCEPT ![k] = uses + 1]

(* expires_at < time.time() *)
Expired(k) == items[k].expires < clock

GetMiss(k) ==
  /\ items[k] = None
  /\ answer' = None
  /\ UNCHANGED <<order, items, clock, uses, lastUse, latest>>

(* An entry that is out of date is dropped by the lookup that meets it. *)
GetExpired(k) ==
  /\ items[k] # None /\ Expired(k)
  /\ answer' = None
  /\ items' = [items EXCEPT ![k] = None]
  /\ order' = Without(k)
  /\ UNCHANGED <<clock, uses, lastUse, latest>>

GetHit(k) ==
  /\ items[k] # None /\ ~Expired(k)
  /\ answer' = items[k].value
  /\ order' = MovedToEnd(k)
  /\ Used(k)
  /\ UNCHANGED <<items, clock, latest>>

EvictsNewest(seq) == IF Len(seq) > MaxEntries THEN SubSeq(seq, 1, MaxEntries) ELSE seq
EvictsLate(seq) ==
  LET excess == Len(seq) - MaxEntries - 1
  IN IF excess > 0 THEN SubSeq(seq, excess + 1, Len(seq)) ELSE seq

(* while len(self._items) > self._max: self._items.popitem(last=False) *)
Evicted(seq) ==
  LET excess == Len(seq) - MaxEntries
  IN IF excess > 0 THEN SubSeq(seq, excess + 1, Len(seq)) ELSE seq

KeepsOldValue(k, v) == IF items[k] = None THEN [expires |-> clock + TTL, value |-> v]
                       ELSE [items[k] EXCEPT !.expires = clock + TTL]

(* (time.time() + self._ttl, frozen) *)
Fresh(k, v) == [expires |-> clock + TTL, value |-> v]

Set(k, v) ==
  /\ order' = Evicted(MovedToEnd(k))
  /\ items' = [x \in Keys |->
       IF \A i \in 1..Len(order') : order'[i] # x THEN None
       ELSE IF x = k THEN Fresh(k, v) ELSE items[x]]
  /\ Used(k)
  /\ latest' = [latest EXCEPT ![k] = v]
  /\ UNCHANGED <<clock, answer>>

Clear ==
  /\ order # <<>>
  /\ order' = <<>>
  /\ items' = [k \in Keys |-> None]
  /\ UNCHANGED <<clock, answer, uses, lastUse, latest>>

(* The wall clock goes on, or is set back. *)
ClockMoves ==
  /\ clock' \in 0..LastTick \ {clock}
  /\ UNCHANGED <<order, items, answer, uses, lastUse, latest>>

Get(k) == GetMiss(k) \/ GetExpired(k) \/ GetHit(k)

Next ==
  \/ \E k \in Keys : Get(k) \/ \E v \in Values : Set(k, v)
  \/ Clear
  \/ ClockMoves

Spec == Init /\ [][Next]_vars

-----------------------------------------------------------------------------
(* The table never outgrows max_entries, 0 included, and its order lists   *)
(* every entry once (cache.py:68-70).                                      *)
BoundedTable ==
  /\ Len(order) <= MaxEntries
  /\ {order[i] : i \in 1..Len(order)} = Present
  /\ Cardinality(Present) = Len(order)

(* What was just set or hit is there, if the table has any room at all,    *)
(* and a set only ever makes room at the expense of the entries used least *)
(* recently (cache.py:62, 65-71).                                          *)
EvictsLeastRecent ==
  [][uses' # uses =>
       \A x \in Keys :
         /\ (lastUse'[x] = uses' /\ MaxEntries > 0) => items'[x] # None
         /\ \A k \in Keys : (items[k] # None /\ items'[k] = None /\ items'[x] # None)
                              => lastUse[k] < lastUse'[x]]_vars

(* A lookup gives the value set last for its key, or nothing: values are   *)
(* never mixed up between keys, and a value that was overwritten, evicted, *)
(* expired or cleared never comes back.                                    *)
Promise == INSTANCE ForgetfulMap WITH
  store <- [k \in Keys |-> IF items[k] = None THEN None ELSE items[k].value]
ImplementsForgetfulMap == Promise!Spec
=============================================================================
