----------------------------- MODULE RedisCache -----------------------------
(***************************************************************************)
(* cache.RedisCache (cache.py:81-120) beside InMemoryLRUCache (LruCache):  *)
(* a process uses the one or the other.  Entries lie in a server that      *)
(* drops them in its own time, that other processes and other versions of  *)
(* the program write to, and that may be out of reach.                     *)
(***************************************************************************)
EXTENDS LruCache

CONSTANTS Categories,   \* the members of the enumeration Category, by their values
          Foreign       \* payloads a program with other categories may have stored

VARIABLES kind,         \* "memory" or "redis"
          server        \* prefix + key -> the payload stored there, None without one

cacheVars == <<order, items, clock, answer, uses, lastUse, latest, kind, server>>

NoCategory == <<>>
Member(c) == <<"Category", c>>

(* An enumeration member goes as its value, None as null. *)
Wire(c) == IF c = NoCategory THEN "null" ELSE c[2]
EnumOf(w) == IF w = "null" THEN NoCategory ELSE Member(w)

(* A result is its category, its matches, its verdicts and the rest, which *)
(* JSON keeps as it is; a match or a verdict is its category and the rest. *)
SerializePart(part) == [category |-> Wire(part.category), rest |-> part.rest]
DeserializePart(p) == [category |-> EnumOf(p.category), rest |-> p.rest]
SerializeResult(v) ==
  [category |-> Wire(v.category), rest |-> v.rest,
   matches |-> [i \in DOMAIN v.matches |-> SerializePart(v.matches[i])],
   verdicts |-> [i \in DOMAIN v.verdicts |-> SerializePart(v.verdicts[i])]]

DropsVerdicts(p) ==
  [category |-> EnumOf(p.category), rest |-> p.rest, verdicts |-> <<>>,
   matches |-> [i \in DOMAIN p.matches |-> DeserializePart(p.matches[i])]]

(* _deserialize_result *)
DeserializeResult(p) ==
  [category |-> EnumOf(p.category), rest |-> p.rest,
   matches |-> [i \in DOMAIN p.matches |-> DeserializePart(p.matches[i])],
   verdicts |-> [i \in DOMAIN p.verdicts |-> DeserializePart(p.verdicts[i])]]

(* Category(cat) knows every category of the payload. *)
Readable(p) ==
  \A part \in {p} \cup {p.matches[i] : i \in DOMAIN p.matches}
                  \cup {p.verdicts[i] : i \in DOMAIN p.verdicts} :
    part.category \in Categories \cup {"null"}

IsPart(part) ==
  /\ part = [category |-> part.category, rest |-> part.rest]
  /\ part.category \in {Member(c) : c \in Categories} \cup {NoCategory}
AreParts(parts) ==
  /\ parts = [i \in DOMAIN parts |-> parts[i]]
  /\ \A i \in DOMAIN parts : IsPart(parts[i])

(* The values are results, and whoever else writes to the server knows a   *)
(* category that this program does not.                                    *)
ASSUME RedisAssumption ==
  /\ "null" \notin Categories
  /\ \A v \in Values :
       /\ v = [category |-> v.category, rest |-> v.rest, matches |-> v.matches, verdicts |-> v.verdicts]
       /\ IsPart([category |-> v.category, rest |-> v.rest])
       /\ AreParts(v.matches) /\ AreParts(v.verdicts)
       /\ SerializeResult(v) # None
  /\ \A p \in Foreign : ~Readable(p)

(* json.loads and _deserialize_result, whose failure is a miss.            *)
Loaded(k) == IF server[k] = None \/ ~Readable(server[k]) THEN None
             ELSE DeserializeResult(server[k])

CacheInit ==
  /\ Init
  /\ kind \in {"memory", "redis"}
  /\ server = [k \in Keys |-> None]

InMemory == kind = "memory" /\ Next /\ UNCHANGED <<kind, server>>

(* get; the caller takes an error of the connection for a miss             *)
(* (protector.py:290-294).                                                 *)
RedisGet(k) ==
  /\ kind = "redis"
  /\ answer' \in {Loaded(k), None}
  /\ UNCHANGED <<order, items, clock, uses, lastUse, latest, kind, server>>

(* set(prefix + key, payload, ex=int(ttl)), which the server refuses for   *)
(* an ex of 0; what it refuses or never receives changes nothing.          *)
RedisSet(k, v) ==
  /\ kind = "redis" /\ TTL > 0 /\ uses < MaxUses
  /\ uses' = uses + 1
  /\ server' = [server EXCEPT ![k] = SerializeResult(v)]
  /\ latest' = [latest EXCEPT ![k] = v]
  /\ UNCHANGED <<order, items, clock, answer, lastUse, kind>>

(* The server expires or evicts an entry, or another program replaces it.  *)
ServerChanges(k) ==
  /\ kind = "redis"
  /\ server' \in {[server EXCEPT ![k] = p] : p \in Foreign \cup {None}}
  /\ UNCHANGED <<order, items, clock, answer, uses, lastUse, latest, kind>>

CacheNext ==
  \/ InMemory
  \/ \E k \in Keys : RedisGet(k) \/ ServerChanges(k) \/ \E v \in Values : RedisSet(k, v)

CacheSpec == CacheInit /\ [][CacheNext]_cacheVars

-----------------------------------------------------------------------------
(* A lookup gives the value set last for its key or nothing with either    *)
(* cache: what comes back from the server is the result that was stored,   *)
(* categories, matches and verdicts included, and what cannot be read is a *)
(* miss (cache.py:108-120, 142-213).                                       *)
EitherMap == INSTANCE ForgetfulMap WITH
  store <- [k \in Keys |-> IF kind = "redis" THEN Loaded(k)
                           ELSE IF items[k] = None THEN None ELSE items[k].value]
EitherCacheForgets == EitherMap!Spec
=============================================================================
