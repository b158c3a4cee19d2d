--------------------------- MODULE LruCache_proofs ---------------------------
(***************************************************************************)
(* LruCache keeps the promise of ForgetfulMap for any keys, any values and *)
(* any table size: neither the order of the table nor the clock matters.   *)
(* RedisCache keeps it too, with either cache and for any payloads that    *)
(* the server may hold.  The table is bounded, and gives up what was used  *)
(* least recently.                                                         *)
(***************************************************************************)
EXTENDS RedisCache, SequenceTheorems, FiniteSetTheorems, TLAPS

Entry == [expires : Int, value : Values]

(* What the refinement rests on: the table holds values, and of each key   *)
(* only the value that was set last.                                       *)
IInv ==
  /\ clock \in Int
  /\ items \in [Keys -> Entry \cup {None}]
  /\ latest \in [Keys -> Values \cup {None}]
  /\ \A k \in Keys : items[k] # None => items[k].value = latest[k]

(* The entry of ForgetfulMap that stands for the key. *)
Shown(k) == IF items[k] = None THEN None ELSE items[k].value
Store == [k \in Keys |-> Shown(k)]

LEMMA InitIInv == Init => IInv
BY LruAssumption DEF Init, IInv

(* A step that only forgets: what the table still holds is as before.      *)
LEMMA ForgettingKeeps ==
  ASSUME IInv, clock' \in Int, UNCHANGED latest, items' \in [Keys -> Entry \cup {None}],
         \A k \in Keys : items'[k] \in {items[k], None}
  PROVE  IInv'
BY DEF IInv

LEMMA SetKeeps ==
  ASSUME IInv, NEW k \in Keys, NEW v \in Values, Set(k, v)
  PROVE  IInv'
<1>1. clock' = clock /\ clock \in Int
  BY DEF Set, IInv
<1>2. latest' = [latest EXCEPT ![k] = v] /\ latest' \in [Keys -> Values \cup {None}]
  BY DEF Set, IInv
<1>3. Fresh(k, v) \in Entry /\ Fresh(k, v).value = v
  BY <1>1, LruAssumption DEF Fresh, Entry, LruAssumption
<1>4. /\ items' \in [Keys -> Entry \cup {None}]
      /\ items'[k] \in {Fresh(k, v), None}
      /\ \A x \in Keys \ {k} : items'[x] \in {items[x], None}
  BY <1>3 DEF Set, IInv
<1>5. ASSUME NEW x \in Keys, items'[x] # None PROVE items'[x].value = latest'[x]
  BY <1>2, <1>3, <1>4, <1>5 DEF IInv
<1> QED
  BY <1>1, <1>2, <1>4, <1>5 DEF IInv

LEMMA NextKeeps == ASSUME IInv, [Next]_vars PROVE IInv'
<1>1. ASSUME NEW k \in Keys, Get(k) PROVE IInv'
  <2>1. clock' = clock /\ latest' = latest /\ items' \in [Keys -> Entry \cup {None}]
    BY <1>1 DEF Get, GetMiss, GetExpired, GetHit, IInv
  <2>2. \A x \in Keys : items'[x] \in {items[x], None}
    BY <1>1 DEF Get, GetMiss, GetExpired, GetHit, IInv
  <2> QED
    BY <2>1, <2>2, ForgettingKeeps DEF IInv
<1>2. CASE Clear
  BY <1>2, ForgettingKeeps DEF Clear, IInv
<1>3. CASE ClockMoves
  BY <1>3, LruAssumption DEF ClockMoves, IInv, LruAssumption
<1>4. CASE UNCHANGED vars
  BY <1>4 DEF vars, IInv
<1> QED
  BY <1>1, <1>2, <1>3, <1>4, SetKeeps DEF Next

(* The table holds, of each key, nothing or the value set last.            *)
THEOREM Invariance == Spec => []IInv
<1>1. Init => IInv
  BY InitIInv
<1>2. IInv /\ [Next]_vars => IInv'
  BY NextKeeps
<1> QED
  BY <1>1, <1>2, PTL DEF Spec

-----------------------------------------------------------------------------
(* The refinement. *)

LEMMA StoreType == ASSUME IInv PROVE Store \in [Keys -> Values \cup {None}]
BY DEF IInv, Store, Shown, Entry

LEMMA GetImplements ==
  ASSUME IInv, IInv', NEW k \in Keys, Get(k)
  PROVE  Promise!Get(k)
<1>1. Store' \in [Keys -> Values \cup {None}]
  BY StoreType DEF IInv, Store, Shown, Entry
<1>2. \A x \in Keys : Store'[x] \in {Store[x], None}
  BY DEF Get, GetMiss, GetExpired, GetHit, IInv, Store, Shown
<1>3. answer' \in {Store[k], None}
  BY DEF Get, GetMiss, GetExpired, GetHit, Store, Shown
<1>4. latest' = latest
  BY DEF Get, GetMiss, GetExpired, GetHit
<1> QED
  BY <1>1, <1>2, <1>3, <1>4 DEF Promise!Get, Promise!Kept, Store, Shown

LEMMA SetImplements ==
  ASSUME IInv, IInv', NEW k \in Keys, NEW v \in Values, Set(k, v)
  PROVE  Promise!Set(k, v)
<1>1. Store' \in [Keys -> Values \cup {None}]
  BY DEF IInv, Store, Shown, Entry
<1>2. \A x \in Keys : Store'[x] \in {[Store EXCEPT ![k] = v][x], None}
  BY DEF Set, Fresh, IInv, Store, Shown
<1>3. latest' = [latest EXCEPT ![k] = v] /\ answer' = answer
  BY DEF Set
<1> QED
  BY <1>1, <1>2, <1>3 DEF Promise!Set, Promise!Kept, Store, Shown

LEMMA ClearImplements == ASSUME IInv, IInv', Clear PROVE Promise!Forget
<1>1. Store' \in [Keys -> Values \cup {None}]
  BY DEF IInv, Store, Shown, Entry
<1>2. \A x \in Keys : Store'[x] \in {Store[x], None}
  BY DEF Clear, Store, Shown
<1> QED
  BY <1>1, <1>2 DEF Clear, Promise!Forget, Promise!Kept, Store, Shown

(* A lookup gives the value set last for its key, or nothing, whatever the *)
(* size of the table and whatever the clock does (cache.py:59-78).         *)
THEOREM KeepsThePromise == Spec => ImplementsForgetfulMap
<1>1. Init => Promise!Init
  BY DEF Init, Promise!Init
<1>2. IInv /\ IInv' /\ [Next]_vars => [Promise!Next]_(Promise!vars)
  <2> SUFFICES ASSUME IInv, IInv', [Next]_vars
               PROVE  [Promise!Next]_(Promise!vars)
    OBVIOUS
  <2>1. ASSUME NEW k \in Keys, Get(k) PROVE Promise!Next
    BY <2>1, GetImplements DEF Promise!Next
  <2>2. ASSUME NEW k \in Keys, NEW v \in Values, Set(k, v) PROVE Promise!Next
    BY <2>2, SetImplements DEF Promise!Next
  <2>3. CASE Clear
    BY <2>3, ClearImplements DEF Promise!Next
  <2>4. CASE ClockMoves
    BY <2>4 DEF ClockMoves, Promise!vars
  <2>5. CASE UNCHANGED vars
    BY <2>5 DEF vars, Promise!vars
  <2> QED
    BY <2>1, <2>2, <2>3, <2>4, <2>5 DEF Next
<1> QED
  BY <1>1, <1>2, Invariance, PTL DEF Spec, ImplementsForgetfulMap, Promise!Spec

-----------------------------------------------------------------------------
(* Either cache.                                                           *)

LEMMA PartReturns ==
  ASSUME NEW part, IsPart(part)
  PROVE  /\ DeserializePart(SerializePart(part)) = part
         /\ SerializePart(part).category \in Categories \cup {"null"}
BY RedisAssumption DEF IsPart, DeserializePart, SerializePart, Wire, EnumOf, Member, NoCategory

Serialized(parts) == [i \in DOMAIN parts |-> SerializePart(parts[i])]

LEMMA PartsReturn ==
  ASSUME NEW parts, AreParts(parts)
  PROVE  /\ [i \in DOMAIN Serialized(parts) |-> DeserializePart(Serialized(parts)[i])] = parts
         /\ \A i \in DOMAIN Serialized(parts) :
              Serialized(parts)[i].category \in Categories \cup {"null"}
<1>1. \A i \in DOMAIN parts :
        /\ DeserializePart(SerializePart(parts[i])) = parts[i]
        /\ SerializePart(parts[i]).category \in Categories \cup {"null"}
  BY PartReturns DEF AreParts
<1>2. /\ DOMAIN Serialized(parts) = DOMAIN parts
      /\ \A i \in DOMAIN parts : Serialized(parts)[i] = SerializePart(parts[i])
  BY DEF Serialized
<1>3. parts = [i \in DOMAIN parts |-> parts[i]]
  BY DEF AreParts
<1> QED
  BY <1>1, <1>2, <1>3

(* What was serialized is readable, and read as what it was: the codec     *)
(* loses nothing (cache.py:142-213).                                       *)
LEMMA ResultReturns ==
  ASSUME NEW v \in Values
  PROVE  /\ Readable(SerializeResult(v))
         /\ DeserializeResult(SerializeResult(v)) = v
<1> DEFINE ms == Serialized(v.matches)
           vs == Serialized(v.verdicts)
           head == [category |-> v.category, rest |-> v.rest]
<1>1. /\ IsPart(head) /\ AreParts(v.matches) /\ AreParts(v.verdicts)
      /\ v = [category |-> v.category, rest |-> v.rest, matches |-> v.matches, verdicts |-> v.verdicts]
  BY RedisAssumption
<1>2. EnumOf(Wire(v.category)) = v.category /\ Wire(v.category) \in Categories \cup {"null"}
  <2>1. DeserializePart(SerializePart(head)) = head
        /\ SerializePart(head).category \in Categories \cup {"null"}
    BY <1>1, PartReturns
  <2> QED
    BY <2>1 DEF DeserializePart, SerializePart
<1>3. /\ [i \in DOMAIN ms |-> DeserializePart(ms[i])] = v.matches
      /\ \A i \in DOMAIN ms : ms[i].category \in Categories \cup {"null"}
  <2> HIDE DEF head
  <2> QED BY <1>1, PartsReturn
<1>4. /\ [i \in DOMAIN vs |-> DeserializePart(vs[i])] = v.verdicts
      /\ \A i \in DOMAIN vs : vs[i].category \in Categories \cup {"null"}
  <2> HIDE DEF head
  <2> QED BY <1>1, PartsReturn
<1>5. SerializeResult(v) = [category |-> Wire(v.category), rest |-> v.rest, matches |-> ms, verdicts |-> vs]
  BY DEF SerializeResult, Serialized
<1> HIDE DEF ms, vs, head
<1>6. Readable(SerializeResult(v))
  BY <1>2, <1>3, <1>4, <1>5 DEF Readable
<1>7. DeserializeResult(SerializeResult(v)) = v
  BY <1>1, <1>2, <1>3, <1>4, <1>5 DEF DeserializeResult
<1> QED BY <1>6, <1>7

(* The server holds, of each key, what was set last, or nothing readable;  *)
(* the cache that is not in use stays empty.                               *)
ServerInv ==
  /\ server \in [Keys -> {SerializeResult(v) : v \in Values} \cup Foreign \cup {None}]
  /\ \A k \in Keys :
       server[k] \in Foreign \cup {None}
         \/ (latest[k] \in Values /\ server[k] = SerializeResult(latest[k]))

CInv ==
  /\ IInv
  /\ ServerInv
  /\ kind \in {"memory", "redis"}
  /\ kind = "memory" => \A k \in Keys : server[k] = None
  /\ kind = "redis" => \A k \in Keys : items[k] = None

Held(k) == IF kind = "redis" THEN Loaded(k) ELSE Shown(k)
Holding == [k \in Keys |-> Held(k)]

(* What a lookup loads is what was set last, or a miss.                    *)
LEMMA LoadsTheLatest ==
  ASSUME ServerInv, NEW k \in Keys
  PROVE  /\ Loaded(k) \in {latest[k], None}
         /\ Loaded(k) \in Values \cup {None}
<1>1. CASE server[k] \in Foreign \cup {None}
  BY <1>1, RedisAssumption DEF Loaded
<1>2. CASE latest[k] \in Values /\ server[k] = SerializeResult(latest[k])
  <2>1. DeserializeResult(server[k]) = latest[k]
    BY <1>2, ResultReturns
  <2> QED
    BY <1>2, <2>1 DEF Loaded
<1> QED
  BY <1>1, <1>2 DEF ServerInv

LEMMA CInvInit == CacheInit => CInv
BY InitIInv DEF CacheInit, Init, CInv, ServerInv

LEMMA RedisKeeps ==
  ASSUME CInv, NEW k \in Keys,
         RedisGet(k) \/ ServerChanges(k) \/ \E v \in Values : RedisSet(k, v)
  PROVE  CInv'
<1>1. CASE RedisGet(k)
  BY <1>1 DEF RedisGet, CInv, IInv, ServerInv
<1>2. CASE ServerChanges(k)
  BY <1>2 DEF ServerChanges, CInv, IInv, ServerInv
<1>3. ASSUME NEW v \in Values, RedisSet(k, v) PROVE CInv'
  <2>1. /\ server' = [server EXCEPT ![k] = SerializeResult(v)]
        /\ latest' = [latest EXCEPT ![k] = v]
        /\ UNCHANGED <<kind, items, clock>> /\ kind = "redis"
    BY <1>3 DEF RedisSet
  <2>2. IInv'
    BY <2>1 DEF CInv, IInv
  <2>3. ServerInv'
    BY <2>1 DEF CInv, IInv, ServerInv
  <2> QED
    BY <2>1, <2>2, <2>3 DEF CInv
<1> QED
  BY <1>1, <1>2, <1>3

LEMMA CInvNext == ASSUME CInv, [CacheNext]_cacheVars PROVE CInv'
<1>1. CASE InMemory
  BY <1>1, NextKeeps DEF InMemory, CInv, ServerInv
<1>2. CASE UNCHANGED cacheVars
  BY <1>2 DEF cacheVars, CInv, IInv, ServerInv
<1> QED
  BY <1>1, <1>2, RedisKeeps DEF CacheNext

LEMMA CacheInvariance == CacheSpec => []CInv
<1>1. CacheInit => CInv
  BY CInvInit
<1>2. CInv /\ [CacheNext]_cacheVars => CInv'
  BY CInvNext
<1> QED
  BY <1>1, <1>2, PTL DEF CacheSpec

(* The map that stands for the cache in use. *)
LEMMA HoldingType == CInv => Holding \in [Keys -> Values \cup {None}]
BY LoadsTheLatest DEF CInv, IInv, Holding, Held, Shown, Entry

LEMMA HoldingTypeNext == CInv' => (Holding \in [Keys -> Values \cup {None}])'
BY HoldingType, PTL

(* In memory the cache is LruCache, whose steps were shown to be steps of  *)
(* the map.                                                                *)
LEMMA MemoryStep ==
  ASSUME CInv, CInv', InMemory
  PROVE  [EitherMap!Next]_(EitherMap!vars)
<1>1. /\ Holding = Store /\ Holding' = Store'
  BY DEF InMemory, Holding, Held, Store
<1>2. ASSUME NEW k \in Keys, Get(k) PROVE EitherMap!Get(k)
  BY <1>1, <1>2, GetImplements
     DEF CInv, Promise!Get, Promise!Kept, EitherMap!Get, EitherMap!Kept, Store, Shown, Holding, Held
<1>3. ASSUME NEW k \in Keys, NEW v \in Values, Set(k, v) PROVE EitherMap!Set(k, v)
  BY <1>1, <1>3, SetImplements
     DEF CInv, Promise!Set, Promise!Kept, EitherMap!Set, EitherMap!Kept, Store, Shown, Holding, Held
<1>4. CASE Clear
  BY <1>1, <1>4, ClearImplements
     DEF CInv, Promise!Forget, Promise!Kept, EitherMap!Forget, EitherMap!Kept, EitherMap!Next,
         Store, Shown, Holding, Held
<1>5. CASE ClockMoves
  BY <1>5 DEF ClockMoves, InMemory, EitherMap!vars
<1> QED
  BY <1>2, <1>3, <1>4, <1>5 DEF InMemory, Next, EitherMap!Next

LEMMA RedisStep ==
  ASSUME CInv, CInv', NEW k \in Keys,
         RedisGet(k) \/ ServerChanges(k) \/ \E v \in Values : RedisSet(k, v)
  PROVE  EitherMap!Next
<1>1. Holding \in [Keys -> Values \cup {None}] /\ Holding' \in [Keys -> Values \cup {None}]
  BY HoldingType, HoldingTypeNext
<1>2. CASE RedisGet(k)
  <2>1. Holding' = Holding /\ answer' \in {Holding[k], None} /\ UNCHANGED latest
    BY <1>2 DEF RedisGet, Holding, Held, Loaded, Shown
  <2>2. EitherMap!Get(k)
    BY <1>1, <2>1 DEF EitherMap!Get, EitherMap!Kept, Holding, Held, Shown
  <2> QED BY <2>2 DEF EitherMap!Next
<1>3. CASE ServerChanges(k)
  <2>1. \A x \in Keys : Holding'[x] \in {Holding[x], None}
    <3>1. \A x \in Keys : server'[x] = server[x] \/ server'[x] \in Foreign \cup {None}
      BY <1>3 DEF ServerChanges, CInv, ServerInv
    <3>2. \A x \in Keys : server'[x] \in Foreign \cup {None} => Loaded(x)' = None
      BY RedisAssumption DEF Loaded
    <3>3. \A x \in Keys : server'[x] = server[x] => Loaded(x)' = Loaded(x)
      BY DEF Loaded
    <3> QED BY <1>3, <3>1, <3>2, <3>3 DEF ServerChanges, Holding, Held
  <2>2. EitherMap!Forget
    BY <1>1, <1>3, <2>1
       DEF ServerChanges, EitherMap!Forget, EitherMap!Kept, Holding, Held, Shown
  <2> QED BY <2>2 DEF EitherMap!Next
<1>4. ASSUME NEW v \in Values, RedisSet(k, v) PROVE EitherMap!Next
  <2>1. /\ server' = [server EXCEPT ![k] = SerializeResult(v)]
        /\ latest' = [latest EXCEPT ![k] = v]
        /\ kind = "redis" /\ kind' = kind /\ answer' = answer
    BY <1>4 DEF RedisSet
  <2>2. Loaded(k)' = v
    <3>1. server'[k] = SerializeResult(v)
      BY <2>1 DEF CInv, ServerInv
    <3>2. Readable(server'[k]) /\ DeserializeResult(server'[k]) = v
      BY <3>1, ResultReturns
    <3>3. server'[k] # None
      BY <3>1, RedisAssumption
    <3> QED BY <3>2, <3>3 DEF Loaded
  <2>3. \A x \in Keys \ {k} : Loaded(x)' = Loaded(x)
    BY <2>1 DEF Loaded, CInv, ServerInv
  <2>4. \A x \in Keys : Holding'[x] = [Holding EXCEPT ![k] = v][x]
    BY <1>1, <2>1, <2>2, <2>3 DEF Holding, Held
  <2>5. EitherMap!Set(k, v)
    BY <1>1, <2>1, <2>4 DEF EitherMap!Set, EitherMap!Kept, Holding, Held, Shown
  <2> QED BY <2>5 DEF EitherMap!Next
<1> QED
  BY <1>2, <1>3, <1>4

(* With either cache a lookup gives the result stored last for the key, or *)
(* nothing, whatever the server does and whatever other versions of the    *)
(* program leave there (cache.py:108-120).                                 *)
THEOREM EitherKeepsThePromise == CacheSpec => EitherCacheForgets
<1>1. CacheInit => EitherMap!Init
  BY DEF CacheInit, Init, EitherMap!Init, Loaded
<1>2. CInv /\ CInv' /\ [CacheNext]_cacheVars => [EitherMap!Next]_(EitherMap!vars)
  <2> SUFFICES ASSUME CInv, CInv', [CacheNext]_cacheVars
               PROVE  [EitherMap!Next]_(EitherMap!vars)
    OBVIOUS
  <2>1. CASE UNCHANGED cacheVars
    BY <2>1 DEF cacheVars, EitherMap!vars, Loaded
  <2> QED
    BY <2>1, MemoryStep, RedisStep DEF CacheNext
<1> QED
  BY <1>1, <1>2, CacheInvariance, PTL DEF CacheSpec, EitherCacheForgets, EitherMap!Spec

-----------------------------------------------------------------------------
(* The order of the table.                                                 *)

(* A list of keys in the order of their use. *)
ByUse(list, use) ==
  /\ list \in Seq(Keys)
  /\ \A i, j \in 1..Len(list) : i < j => use[list[i]] < use[list[j]]
Listed(list) == {list[i] : i \in 1..Len(list)}

(* The order lists what is present, the least recently used first.         *)
OrderInv ==
  /\ clock \in Int
  /\ items = [k \in Keys |-> items[k]]
  /\ uses \in Nat
  /\ lastUse \in [Keys -> 0..uses]
  /\ ByUse(order, lastUse)
  /\ Listed(order) = Present
  /\ Len(order) <= MaxEntries

(* A key that is present is at one place, and Without takes it out.        *)
LEMMA WithoutLists ==
  ASSUME OrderInv, NEW k \in Keys
  PROVE  /\ ByUse(Without(k), lastUse)
         /\ Listed(Without(k)) = Present \ {k}
         /\ Len(Without(k)) = IF items[k] = None THEN Len(order) ELSE Len(order) - 1
<1>1. order \in Seq(Keys) /\ Len(order) \in Nat /\ DOMAIN order = 1..Len(order)
      /\ \A i \in 1..Len(order) : order[i] \in Keys
  BY LenProperties DEF OrderInv, ByUse
<1>2. CASE items[k] = None
  BY <1>2 DEF OrderInv, Without, Present
<1>3. CASE items[k] # None
  <2> DEFINE p == Position(k)
             front == SubSeq(order, 1, p - 1)
             back == SubSeq(order, p + 1, Len(order))
  <2>1. p \in 1..Len(order) /\ order[p] = k
    <3>1. \E i \in 1..Len(order) : order[i] = k
      BY <1>3 DEF OrderInv, Present, Listed
    <3> QED
      BY <3>1 DEF Position
  <2> HIDE DEF p
  <2>2. /\ front \in Seq(Keys) /\ Len(front) = p - 1
        /\ \A i \in 1..(p - 1) : front[i] = order[i]
    BY <1>1, <2>1, SubSeqProperties
  <2>3. /\ back \in Seq(Keys) /\ Len(back) = Len(order) - p
        /\ \A i \in 1..(Len(order) - p) : back[i] = order[p + i]
    <3>1. \A i \in (p + 1)..Len(order) : order[i] \in Keys
      BY <1>1, <2>1
    <3>2. /\ back \in Seq(Keys)
          /\ Len(back) = IF p + 1 <= Len(order) THEN Len(order) - (p + 1) + 1 ELSE 0
          /\ \A i \in 1..(Len(order) - (p + 1) + 1) : back[i] = order[(p + 1) + i - 1]
      BY <1>1, <2>1, <3>1, SubSeqProperties
    <3> HIDE DEF back
    <3>3. Len(back) = Len(order) - p
      <4> HIDE DEF p
      <4>1. p \in Nat /\ p <= Len(order) /\ Len(order) \in Nat
        BY <1>1, <2>1
      <4>2. Len(back) = IF p + 1 <= Len(order) THEN Len(order) - (p + 1) + 1 ELSE 0
        BY <3>2
      <4> QED
        BY <4>1, <4>2
    <3>4. ASSUME NEW i \in 1..(Len(order) - p) PROVE back[i] = order[p + i]
      <4>1. (p + 1) + i - 1 = p + i /\ i \in 1..(Len(order) - (p + 1) + 1)
        BY <1>1, <2>1
      <4> QED
        BY <3>2, <4>1
    <3> QED
      BY <3>2, <3>3, <3>4
  <2>4. Without(k) = front \o back
    BY <1>3 DEF Without, p
  <2> HIDE DEF front, back
  <2>5. /\ Without(k) \in Seq(Keys) /\ Len(Without(k)) = Len(order) - 1
        /\ \A i \in 1..(Len(order) - 1) :
             Without(k)[i] = IF i < p THEN order[i] ELSE order[i + 1]
    <3>1. /\ front \o back \in Seq(Keys) /\ Len(front \o back) = Len(front) + Len(back)
          /\ \A i \in 1..(Len(front) + Len(back)) :
               (front \o back)[i] = IF i <= Len(front) THEN front[i] ELSE back[i - Len(front)]
      BY <2>2, <2>3, ConcatProperties
    <3> QED
      BY <1>1, <2>1, <2>2, <2>3, <2>4, <3>1
  <2>6. ByUse(Without(k), lastUse)
    <3> SUFFICES ASSUME NEW i \in 1..(Len(order) - 1), NEW j \in 1..(Len(order) - 1), i < j
                 PROVE  lastUse[Without(k)[i]] < lastUse[Without(k)[j]]
      BY <2>5 DEF ByUse
    <3> DEFINE at(h) == IF h < p THEN h ELSE h + 1
    <3>1. at(i) \in 1..Len(order) /\ at(j) \in 1..Len(order) /\ at(i) < at(j)
      BY <1>1, <2>1
    <3>2. Without(k)[i] = order[at(i)] /\ Without(k)[j] = order[at(j)]
      BY <2>5
    <3> HIDE DEF at
    <3> QED
      BY <3>1, <3>2 DEF OrderInv, ByUse
  <2>7. Listed(Without(k)) = Present \ {k}
    <3>1. ASSUME NEW i \in 1..Len(order), i # p PROVE order[i] # k
      <4>1. i < p \/ p < i
        BY <1>1, <2>1, <3>1
      <4>2. i < p => lastUse[order[i]] < lastUse[k]
        BY <2>1 DEF OrderInv, ByUse
      <4>3. p < i => lastUse[k] < lastUse[order[i]]
        BY <2>1 DEF OrderInv, ByUse
      <4>4. lastUse[k] \in Int
        BY DEF OrderInv
      <4> QED
        BY <4>1, <4>2, <4>3, <4>4
    <3>2. \A x \in Present \ {k} : x \in Listed(Without(k))
      <4> SUFFICES ASSUME NEW x \in Present, x # k
                   PROVE  \E j \in 1..(Len(order) - 1) : Without(k)[j] = x
        BY <2>5 DEF Listed
      <4>1. PICK i \in 1..Len(order) : order[i] = x
        BY DEF OrderInv, Listed
      <4>2. CASE i < p
        BY <1>1, <2>1, <2>5, <4>1, <4>2
      <4>3. CASE i > p
        <5>1. i - 1 \in 1..(Len(order) - 1) /\ ~(i - 1 < p) /\ (i - 1) + 1 = i
          BY <1>1, <2>1, <4>3
        <5> QED
          BY <2>5, <4>1, <5>1
      <4> QED
        BY <1>1, <2>1, <4>1, <4>2, <4>3
    <3>3. \A x \in Listed(Without(k)) : x \in Present \ {k}
      <4> SUFFICES ASSUME NEW j \in 1..(Len(order) - 1)
                   PROVE  Without(k)[j] \in Present \ {k}
        BY <2>5 DEF Listed
      <4>1. PICK i \in 1..Len(order) : i # p /\ Without(k)[j] = order[i]
        BY <1>1, <2>1, <2>5
      <4> QED
        BY <3>1, <4>1 DEF OrderInv, Listed
    <3> QED
      BY <3>2, <3>3
  <2> QED
    BY <1>3, <2>5, <2>6, <2>7
<1> QED
  BY <1>2, <1>3

(* A key that is used goes to the end of the order.                        *)
LEMMA MovedLists ==
  ASSUME OrderInv, NEW k \in Keys, Used(k)
  PROVE  /\ uses' = uses + 1 /\ lastUse' \in [Keys -> 0..uses'] /\ lastUse'[k] = uses'
         /\ \A x \in Keys \ {k} : lastUse'[x] = lastUse[x] /\ lastUse[x] <= uses
         /\ ByUse(MovedToEnd(k), lastUse')
         /\ Listed(MovedToEnd(k)) = Present \cup {k}
         /\ Len(MovedToEnd(k)) = Len(Without(k)) + 1
         /\ MovedToEnd(k)[Len(Without(k)) + 1] = k
<1> DEFINE list == Without(k)
<1>1. /\ uses \in Nat /\ uses' = uses + 1
      /\ lastUse' \in [Keys -> 0..uses'] /\ lastUse'[k] = uses'
      /\ \A x \in Keys \ {k} : lastUse'[x] = lastUse[x] /\ lastUse[x] \in 0..uses
  BY DEF OrderInv, Used
<1>2. ByUse(list, lastUse) /\ Listed(list) = Present \ {k}
  BY WithoutLists
<1>3. list \in Seq(Keys) /\ Len(list) \in Nat /\ \A i \in 1..Len(list) : list[i] \in Keys \ {k}
  BY <1>2, LenProperties DEF ByUse, Listed
<1> HIDE DEF list
<1>4. /\ Append(list, k) \in Seq(Keys) /\ Len(Append(list, k)) = Len(list) + 1
      /\ \A i \in 1..Len(list) : Append(list, k)[i] = list[i]
      /\ Append(list, k)[Len(list) + 1] = k
  BY <1>3, AppendProperties
<1>5. MovedToEnd(k) = Append(list, k)
  BY DEF MovedToEnd, list
<1>6. ByUse(Append(list, k), lastUse')
  <2> SUFFICES ASSUME NEW i \in 1..(Len(list) + 1), NEW j \in 1..(Len(list) + 1), i < j
               PROVE  lastUse'[Append(list, k)[i]] < lastUse'[Append(list, k)[j]]
    BY <1>4 DEF ByUse
  <2>1. i \in 1..Len(list) /\ lastUse'[Append(list, k)[i]] = lastUse[list[i]]
        /\ lastUse[list[i]] \in 0..uses
    BY <1>1, <1>3, <1>4
  <2>2. CASE j \in 1..Len(list)
    <3>1. lastUse'[Append(list, k)[j]] = lastUse[list[j]]
      BY <1>1, <1>3, <1>4, <2>2
    <3> QED
      BY <1>2, <2>1, <2>2, <3>1 DEF ByUse
  <2>3. CASE j = Len(list) + 1
    BY <1>1, <1>4, <2>1, <2>3
  <2> QED
    BY <1>3, <2>2, <2>3
<1>7. Listed(Append(list, k)) = Present \cup {k}
  <2>1. \A i \in 1..(Len(list) + 1) : i \in 1..Len(list) \/ i = Len(list) + 1
    BY <1>3
  <2>2. Listed(Append(list, k)) = Listed(list) \cup {k}
    BY <1>3, <1>4, <2>1 DEF Listed
  <2>3. k \in {k}
    OBVIOUS
  <2> QED
    BY <1>2, <2>2
<1> QED
  BY <1>1, <1>3, <1>4, <1>5, <1>6, <1>7 DEF list

(* What popitem takes from the front was used before all that is kept.     *)
LEMMA EvictedLists ==
  ASSUME NEW list, NEW use, ByUse(list, use), MaxEntries \in Nat
  PROVE  /\ ByUse(Evicted(list), use) /\ Len(Evicted(list)) <= MaxEntries
         /\ Listed(Evicted(list)) \subseteq Listed(list)
         /\ \A x \in Listed(list) \ Listed(Evicted(list)) :
              \A y \in Listed(Evicted(list)) : use[x] < use[y]
         /\ MaxEntries > 0 /\ Len(list) > 0 =>
              list[Len(list)] \in Listed(Evicted(list))
<1> DEFINE n == Len(list)
           excess == n - MaxEntries
           kept == SubSeq(list, excess + 1, n)
<1>1. list \in Seq(Keys) /\ n \in Nat /\ \A i \in 1..n : list[i] \in Keys
  BY LenProperties DEF ByUse
<1>2. CASE excess > 0
  <2>1. Evicted(list) = kept
    BY <1>2 DEF Evicted
  <2>2. /\ kept \in Seq(Keys) /\ Len(kept) = MaxEntries
        /\ \A i \in 1..MaxEntries : kept[i] = list[excess + i]
    <3>1. \A i \in (excess + 1)..n : list[i] \in Keys
      BY <1>1, <1>2
    <3>2. /\ kept \in Seq(Keys)
          /\ Len(kept) = IF excess + 1 <= n THEN n - (excess + 1) + 1 ELSE 0
          /\ \A i \in 1..(n - (excess + 1) + 1) : kept[i] = list[(excess + 1) + i - 1]
      BY <1>1, <1>2, <3>1, SubSeqProperties
    <3> QED
      BY <1>1, <1>2, <3>2
  <2>3. ByUse(kept, use)
    BY <1>1, <1>2, <2>2 DEF ByUse
  <2>4. Listed(kept) = {list[i] : i \in (excess + 1)..n}
    <3>1. \A i \in (excess + 1)..n : i - excess \in 1..MaxEntries /\ kept[i - excess] = list[i]
      BY <1>1, <1>2, <2>2
    <3>2. \A i \in 1..MaxEntries : excess + i \in (excess + 1)..n
      BY <1>1, <1>2
    <3>3. Listed(kept) = {kept[i] : i \in 1..MaxEntries}
      BY <2>2 DEF Listed
    <3> HIDE DEF kept
    <3>4. \A i \in 1..MaxEntries : kept[i] = list[excess + i]
      BY <2>2
    <3> HIDE DEF n, excess
    <3>5. ASSUME NEW i \in (excess + 1)..n PROVE list[i] \in Listed(kept)
      BY <3>1, <3>3
    <3>6. ASSUME NEW i \in 1..MaxEntries PROVE kept[i] \in {list[j] : j \in (excess + 1)..n}
      BY <3>2, <3>4
    <3> QED
      BY <3>3, <3>5, <3>6
  <2>5. ASSUME NEW x \in Listed(list) \ Listed(kept), NEW y \in Listed(kept)
        PROVE  use[x] < use[y]
    <3>1. PICK i \in 1..n : list[i] = x
      BY DEF Listed
    <3>2. PICK j \in (excess + 1)..n : list[j] = y
      BY <2>4
    <3>3. i \in 1..n /\ j \in 1..n /\ i < j
      BY <1>1, <1>2, <2>4, <2>5, <3>1, <3>2
    <3> QED
      BY <3>1, <3>2, <3>3 DEF ByUse
  <2>6. Listed(kept) \subseteq Listed(list)
    BY <1>1, <1>2, <2>4 DEF Listed
  <2>7. MaxEntries > 0 => list[n] \in Listed(kept)
    <3>1. MaxEntries > 0 => n \in (excess + 1)..n
      BY <1>1, <1>2
    <3> QED
      BY <2>4, <3>1
  <2> HIDE DEF kept, n, excess
  <2> QED
    BY <2>1, <2>2, <2>3, <2>5, <2>6, <2>7 DEF n
<1>3. CASE ~(excess > 0)
  <2>1. Evicted(list) = list
    BY <1>3 DEF Evicted
  <2> QED
    BY <1>1, <1>3, <2>1 DEF Listed
<1> QED
  BY <1>2, <1>3

LEMMA OrderInit == Init => OrderInv
<1> SUFFICES ASSUME Init PROVE OrderInv
  OBVIOUS
<1>1. order = <<>> /\ Len(order) = 0 /\ order \in Seq(Keys) /\ Present = {}
  BY DEF Init, Present
<1>2. Listed(order) = {}
  BY <1>1 DEF Listed
<1> QED
  BY <1>1, <1>2, LruAssumption DEF Init, OrderInv, ByUse, LruAssumption

(* A step that moves no key but takes one out.                             *)
LEMMA GetKeepsOrder ==
  ASSUME OrderInv, NEW k \in Keys, Get(k)
  PROVE  OrderInv'
<1>1. CASE GetMiss(k)
  BY <1>1 DEF GetMiss, OrderInv, Present
<1>2. CASE GetExpired(k)
  <2>1. order' = Without(k) /\ Present' = Present \ {k}
        /\ uses' = uses /\ lastUse' = lastUse /\ items[k] # None
        /\ items' = [x \in Keys |-> items'[x]] /\ clock' = clock
    BY <1>2 DEF GetExpired, Present, OrderInv
  <2>2. ByUse(order', lastUse) /\ Listed(order') = Present' /\ Len(order') = Len(order) - 1
    BY <2>1, WithoutLists
  <2>3. Len(order) \in Nat /\ MaxEntries \in Nat
    BY LruAssumption, LenProperties DEF LruAssumption, OrderInv, ByUse
  <2>4. Len(order') <= MaxEntries
    BY <2>2, <2>3 DEF OrderInv
  <2> QED
    BY <2>1, <2>2, <2>4 DEF OrderInv
<1>3. CASE GetHit(k)
  <2>1. order' = MovedToEnd(k) /\ Present' = Present /\ k \in Present /\ Used(k)
        /\ items' = items /\ clock' = clock
    BY <1>3 DEF GetHit, Present
  <2>2. Len(MovedToEnd(k)) = Len(order)
    BY <1>3, <2>1, WithoutLists, MovedLists, LenProperties DEF GetHit, OrderInv, ByUse
  <2> QED
    BY <2>1, <2>2, MovedLists DEF OrderInv
<1> QED
  BY <1>1, <1>2, <1>3 DEF Get

LEMMA SetKeepsOrder ==
  ASSUME OrderInv, NEW k \in Keys, NEW v \in Values, Set(k, v)
  PROVE  OrderInv'
<1>1. order' = Evicted(MovedToEnd(k)) /\ Used(k)
  BY DEF Set
<1>2. ByUse(order', lastUse') /\ Len(order') <= MaxEntries
      /\ Listed(order') \subseteq Present \cup {k}
  BY <1>1, MovedLists, EvictedLists, LruAssumption DEF LruAssumption
<1>3. \A x \in Keys : items'[x] = IF x \notin Listed(order') THEN None
                                 ELSE IF x = k THEN Fresh(k, v) ELSE items[x]
  BY DEF Set, Listed
<1>4. Fresh(k, v) # None
  <2>1. Fresh(k, v) \in [expires : Int, value : Values]
    BY LruAssumption DEF Fresh, OrderInv, LruAssumption
  <2> QED
    BY <2>1, LruAssumption DEF LruAssumption
<1>5. Present' = Listed(order')
  BY <1>2, <1>3, <1>4 DEF Present
<1>6. items' = [x \in Keys |-> items'[x]] /\ clock' = clock
  BY DEF Set
<1> QED
  BY <1>1, <1>2, <1>5, <1>6, MovedLists DEF OrderInv

LEMMA OrderNext == ASSUME OrderInv, [Next]_vars PROVE OrderInv'
<1>1. CASE Clear
  <2>1. order' = <<>> /\ Len(order') = 0 /\ order' \in Seq(Keys) /\ Present' = {}
    BY <1>1 DEF Clear, Present
  <2>2. Listed(order') = {}
    BY <2>1 DEF Listed
  <2> QED
    BY <1>1, <2>1, <2>2, LruAssumption DEF Clear, OrderInv, ByUse, LruAssumption
<1>2. CASE ClockMoves
  BY <1>2 DEF ClockMoves, OrderInv, Present
<1>3. CASE UNCHANGED vars
  BY <1>3 DEF vars, OrderInv, Present
<1> QED
  BY <1>1, <1>2, <1>3, GetKeepsOrder, SetKeepsOrder DEF Next

LEMMA OrderCacheNext == ASSUME OrderInv, [CacheNext]_cacheVars PROVE OrderInv'
<1>1. ASSUME NEW k \in Keys,
             RedisGet(k) \/ ServerChanges(k) \/ \E v \in Values : RedisSet(k, v)
      PROVE  OrderInv'
  <2>1. /\ order' = order /\ items' = items /\ lastUse' = lastUse
        /\ clock' = clock /\ (uses' = uses \/ uses' = uses + 1)
    BY <1>1 DEF RedisGet, ServerChanges, RedisSet
  <2>2. lastUse' \in [Keys -> 0..uses'] /\ uses' \in Nat
    BY <2>1 DEF OrderInv
  <2> QED
    BY <2>1, <2>2 DEF OrderInv, Present
<1>2. CASE InMemory
  BY <1>2, OrderNext DEF InMemory
<1>3. CASE UNCHANGED cacheVars
  BY <1>3 DEF cacheVars, OrderInv, Present
<1> QED
  BY <1>1, <1>2, <1>3 DEF CacheNext

(* The order is one of the entries: it lists each of them at one place.    *)
LEMMA OrderIsBounded == ASSUME OrderInv PROVE BoundedTable
<1> DEFINE n == Len(order)
           places == [i \in 1..n |-> order[i]]
<1>1. order \in Seq(Keys) /\ n \in Nat /\ \A i \in 1..n : order[i] \in Keys
  BY LenProperties DEF OrderInv, ByUse
<1>2. \A i, j \in 1..n : order[i] = order[j] => i = j
  <2> SUFFICES ASSUME NEW i \in 1..n, NEW j \in 1..n, i < j PROVE order[i] # order[j]
    BY <1>1
  <2>1. lastUse[order[i]] < lastUse[order[j]]
    BY DEF OrderInv, ByUse
  <2>2. lastUse[order[i]] \in Nat
    BY <1>1 DEF OrderInv
  <2> QED
    BY <2>1, <2>2
<1>3. Present = {order[i] : i \in 1..n}
  BY DEF OrderInv, Listed
<1> HIDE DEF n
<1>4. places \in Bijection(1..n, Present)
  BY <1>2, <1>3 DEF Bijection, Injection, Surjection, IsInjective
<1>5. IsFiniteSet(1..n) /\ Cardinality(1..n) = n
  <2>1. Cardinality(1..n) = IF 1 > n THEN 0 ELSE n - 1 + 1
    BY <1>1, FS_Interval
  <2> QED
    BY <1>1, <2>1, FS_Interval
<1>6. Cardinality(Present) = n
  BY <1>4, <1>5, FS_Bijection DEF ExistsBijection
<1> QED
  BY <1>6 DEF BoundedTable, OrderInv, Listed, n

(* A step that counts as a use: a hit takes nothing out, and a set takes   *)
(* out only what was used before all that it leaves.                       *)
Recency(x) ==
  /\ (lastUse'[x] = uses' /\ MaxEntries > 0) => items'[x] # None
  /\ \A k \in Keys : (items[k] # None /\ items'[k] = None /\ items'[x] # None)
                         => lastUse[k] < lastUse'[x]

LEMMA HitIsRecent ==
  ASSUME OrderInv, NEW k \in Keys, GetHit(k), NEW x \in Keys
  PROVE  Recency(x)
<1>1. Used(k) /\ items' = items /\ items[k] # None
  BY DEF GetHit
<1>2. x # k => lastUse'[x] <= uses /\ lastUse'[x] \in Int
  BY <1>1 DEF Used, OrderInv
<1>3. uses \in Int /\ uses' = uses + 1
  BY <1>1 DEF Used, OrderInv
<1>4. x # k => lastUse'[x] # uses'
  BY <1>2, <1>3
<1> QED
  BY <1>1, <1>4 DEF Recency

LEMMA SetIsRecent ==
  ASSUME OrderInv, OrderInv', NEW k \in Keys, NEW v \in Values, Set(k, v), NEW x \in Keys
  PROVE  Recency(x)
<1> DEFINE list == MovedToEnd(k)
<1>1. order' = Evicted(list) /\ Used(k)
  BY DEF Set
<1>2. /\ uses \in Nat /\ uses' = uses + 1 /\ lastUse'[k] = uses'
      /\ lastUse \in [Keys -> 0..uses]
      /\ \A y \in Keys \ {k} : lastUse'[y] = lastUse[y] /\ lastUse[y] <= uses
  BY <1>1, MovedLists DEF OrderInv
<1>3. /\ ByUse(list, lastUse') /\ Listed(list) = Present \cup {k}
      /\ Len(list) = Len(Without(k)) + 1 /\ list[Len(Without(k)) + 1] = k
  BY <1>1, MovedLists
<1>4. Len(list) > 0 /\ list[Len(list)] = k
  <2>1. Len(Without(k)) \in Nat
    BY WithoutLists, LenProperties DEF ByUse
  <2> QED
    BY <1>3, <2>1
<1> HIDE DEF list
<1>5. /\ \A y \in Listed(list) \ Listed(order') : \A z \in Listed(order') : lastUse'[y] < lastUse'[z]
      /\ MaxEntries > 0 => k \in Listed(order')
  BY <1>1, <1>3, <1>4, EvictedLists, LruAssumption DEF LruAssumption
<1>6. Listed(order') = {y \in Keys : items'[y] # None}
  BY DEF OrderInv, Present
<1>7. (lastUse'[x] = uses' /\ MaxEntries > 0) => items'[x] # None
  <2>1. lastUse'[x] = uses' => x = k
    BY <1>2
  <2> QED
    BY <1>5, <1>6, <2>1
<1>8. ASSUME NEW y \in Keys, items[y] # None, items'[y] = None, items'[x] # None
      PROVE  lastUse[y] < lastUse'[x]
  <2>1. y \in Listed(list) \ Listed(order') /\ x \in Listed(order')
    BY <1>3, <1>6, <1>8 DEF Present
  <2>2. lastUse'[y] < lastUse'[x]
    BY <1>5, <2>1
  <2>3. lastUse[y] <= lastUse'[y] /\ lastUse[y] \in Int /\ lastUse'[y] \in Int
    BY <1>2
  <2>4. lastUse'[x] \in Int
    BY <1>2
  <2> QED
    BY <2>2, <2>3, <2>4
<1> QED
  BY <1>7, <1>8 DEF Recency

LEMMA StepIsRecent ==
  ASSUME OrderInv, OrderInv', [CacheNext]_cacheVars, uses' # uses, NEW x \in Keys
  PROVE  Recency(x)
<1>1. ASSUME NEW k \in Keys, Get(k) PROVE Recency(x)
  BY <1>1, HitIsRecent DEF Get, GetMiss, GetExpired
<1>2. ASSUME NEW k \in Keys, NEW v \in Values, RedisSet(k, v) PROVE Recency(x)
  <2>1. items' = items /\ lastUse' = lastUse /\ uses' = uses + 1
    BY <1>2 DEF RedisSet
  <2>2. uses \in Int /\ lastUse[x] \in Int /\ lastUse[x] <= uses
    BY DEF OrderInv
  <2>3. lastUse'[x] # uses'
    BY <2>1, <2>2
  <2> QED
    BY <2>1, <2>3 DEF Recency
<1>3. ~(Clear \/ ClockMoves \/ UNCHANGED cacheVars)
  BY DEF Clear, ClockMoves, cacheVars
<1>4. \A k \in Keys : ~(RedisGet(k) \/ ServerChanges(k))
  BY DEF RedisGet, ServerChanges
<1> QED
  BY <1>1, <1>2, <1>3, <1>4, SetIsRecent DEF CacheNext, InMemory, Next

LEMMA OrderInvariance == CacheSpec => []OrderInv
<1>1. CacheInit => OrderInv
  BY OrderInit DEF CacheInit
<1>2. OrderInv /\ [CacheNext]_cacheVars => OrderInv'
  BY OrderCacheNext
<1> QED
  BY <1>1, <1>2, PTL DEF CacheSpec

(* The table never outgrows max_entries and lists every entry once,        *)
(* whatever is set, read, expires or is cleared (cache.py:68-70).          *)
THEOREM TableBounded == CacheSpec => []BoundedTable
<1>1. OrderInv => BoundedTable
  BY OrderIsBounded
<1> QED
  BY <1>1, OrderInvariance, PTL

(* What was just set or hit is there, if there is room for any entry, and  *)
(* a set makes room at the expense of the entries used least recently      *)
(* (cache.py:62, 65-71).                                                   *)
THEOREM EvictsOldest == CacheSpec => EvictsLeastRecent
<1>1. OrderInv /\ OrderInv' /\ [CacheNext]_cacheVars
        => [uses' # uses => \A x \in Keys :
              /\ (lastUse'[x] = uses' /\ MaxEntries > 0) => items'[x] # None
              /\ \A k \in Keys : (items[k] # None /\ items'[k] = None /\ items'[x] # None)
                                     => lastUse[k] < lastUse'[x]]_vars
  BY StepIsRecent DEF Recency
<1> QED
  BY <1>1, OrderInvariance, PTL DEF CacheSpec, EvictsLeastRecent
=============================================================================
