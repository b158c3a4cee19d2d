------------------------------ MODULE RoundTrip ------------------------------
(***************************************************************************)
(* The round trip of a redacted text: a pre-redactor replaces its hits     *)
(* (Redaction.tla), the mapping goes to the vault under the request's own  *)
(* id (protector.py:266-272), a model answers with the placeholders in     *)
(* some arrangement, and unredact (protector.py:178-182) restores them.    *)
(* All requests share the vault: InMemoryVault (local/vault.py:22-58),     *)
(* with its expiry and its collection of stale entries, which a restart of *)
(* the program empties, or EncryptedFileVault (local/vault.py:61-127),     *)
(* whose files outlive it and are collected by nobody.  A file that a      *)
(* crash cut short belongs to a request that was not answered, so its name *)
(* is a fresh one that nobody knows (protector.py:271) and it is left out. *)
(*                                                                         *)
(* The detectors' hits and the model's answers are open.  A text holds no  *)
(* literal placeholder and no hit is empty.  The clock only moves forward. *)
(* An action is one synchronous call; the two critical sections of put,    *)
(* _gc and the assignment, are one step.                                   *)
(***************************************************************************)
EXTENDS Redaction

CONSTANTS Requests,   \* the ids of the requests, which are the vault ids
          Scans,      \* request -> what may be made of its text: the list of
                      \* hits, and the redactor's style
          Length,     \* the length of every text
          TTL,        \* ttl_seconds
          MaxTime     \* bounds the clock

ASSUME RoundTripAssumption ==
  /\ Length \in Nat /\ TTL \in Nat /\ MaxTime \in Nat
  /\ \A r \in Requests : \A scan \in Scans[r] :
       /\ scan.style \in {"numbered", "labeled", "presidio", "spacy"}
       /\ scan.style = "spacy" =>
            \A i, j \in DOMAIN scan.hits : i # j => ~Overlaps(scan.hits[i], scan.hits[j])
       /\ scan.hits \in Seq(Range(scan.hits))
       /\ \A m \in Range(scan.hits) :
            /\ m.from \in 0..Length /\ m.to \in 0..Length /\ m.from < m.to
            /\ m.score \in Int /\ m.label \notin Requests

(* The characters of a text, all different, and different from another's. *)
Text(r) == [i \in 1..Length |-> <<r, i>>]

Unsent == [style |-> "none", hits |-> <<>>, text |-> <<>>, at |-> 0, gone |-> FALSE]
NoAnswer == [reply |-> <<>>, text |-> <<>>, inTime |-> FALSE]

VARIABLES
  clock,    \* time.time()
  store,    \* "memory" or "file"
  vault,    \* the dict _items, or the files: vault id -> its expiry and mapping
  sent,     \* request -> what was redacted, how and when
  answer    \* request -> the last reply that was unredacted, into what, and
            \* whether it came in time: before the expiry, any deletion, and a
            \* restart that lost the entry

vars == <<clock, store, vault, sent, answer>>

Init ==
  /\ clock = 0
  /\ store \in {"memory", "file"}
  /\ vault = <<>>
  /\ sent = [r \in Requests |-> Unsent]
  /\ answer = [r \in Requests |-> NoAnswer]

IsSent(r) == sent[r] # Unsent

(* put: in memory the stale entries go; then the entry is written. *)
Stale(id) == vault[id].expires < clock
NothingCollected == vault
Collected == IF store = "file" THEN vault
             ELSE [id \in {i \in DOMAIN vault : ~Stale(i)} |-> vault[id]]
With(id, entry) ==
  [i \in DOMAIN Collected \union {id} |-> IF i = id THEN entry ELSE Collected[i]]
PutTwiceAhead(id, mapping) == With(id, [expires |-> clock + clock + TTL, mapping |-> mapping])
Put(id, mapping) == With(id, [expires |-> clock + TTL, mapping |-> mapping])

(* get: an expired entry is dropped and reads as empty. *)
Without(id) == Restrict(vault, DOMAIN vault \ {id})
IsLive(id) == id \in DOMAIN vault /\ ~Stale(id)
Looked(id) == IF IsLive(id) THEN vault[id].mapping ELSE <<>>

(* The redactor's part of _sanitize. *)
Sanitize(r) ==
  /\ ~IsSent(r)
  /\ \E scan \in Scans[r] :
       LET redaction == Redact(Text(r), scan.hits, scan.style)
       IN /\ sent' = [sent EXCEPT ![r] = [style |-> scan.style, hits |-> scan.hits,
                                          text |-> redaction.text, at |-> clock,
                                          gone |-> FALSE]]
          /\ vault' = IF redaction.mapping = <<>> THEN vault ELSE Put(r, redaction.mapping)
  /\ UNCHANGED <<clock, store, answer>>

(* What a model makes of a text: the text, once or twice, or its tokens in *)
(* another order.                                                          *)
Replies(text) == {text, text \o text, Reverse(text)}

Unredact(r) ==
  /\ IsSent(r)
  /\ \E reply \in Replies(sent[r].text) :
       answer' = [answer EXCEPT ![r] = [reply |-> reply, text |-> Restore(reply, Looked(r)),
                                        inTime |-> /\ clock <= sent[r].at + TTL
                                                   /\ ~sent[r].gone]]
  /\ vault' = IF IsLive(r) THEN vault ELSE Without(r)
  /\ UNCHANGED <<clock, store, sent>>

Delete(r) ==
  /\ IsSent(r)
  /\ vault' = Without(r)
  /\ sent' = [sent EXCEPT ![r].gone = TRUE]
  /\ UNCHANGED <<clock, store, answer>>

TimePasses ==
  /\ clock < MaxTime
  /\ clock' = clock + 1
  /\ UNCHANGED <<store, vault, sent, answer>>

AfterRestart == IF store = "file" THEN vault ELSE <<>>

(* The program ends, or crashes, and starts anew. *)
Restart ==
  /\ vault' = AfterRestart
  /\ sent' = IF store = "file" THEN sent
             ELSE [r \in Requests |-> IF IsSent(r) THEN [sent[r] EXCEPT !.gone = TRUE] ELSE Unsent]
  /\ UNCHANGED <<clock, store, answer>>

Next ==
  \/ \E r \in Requests : Sanitize(r) \/ Unredact(r) \/ Delete(r)
  \/ TimePasses
  \/ Restart

Spec == Init /\ [][Next]_vars
-----------------------------------------------------------------------------
(* Types: the vault holds mappings of placeholders to stretches of the     *)
(* text of the request they are filed under, expiring at most TTL ahead.   *)
TypeOK ==
  /\ clock \in 0..MaxTime
  /\ DOMAIN vault \subseteq Requests
  /\ \A id \in DOMAIN vault :
       /\ vault[id].expires \in 0..(clock + TTL)
       /\ \A e \in Range(vault[id].mapping) :
            e[1][1] \notin Requests /\ Range(e[2]) \subseteq Range(Text(id))
  /\ \A r \in Requests : IsSent(r) =>
       \E scan \in Scans[r] : scan.hits = sent[r].hits /\ scan.style = sent[r].style

(* No flagged text is left in clear unless a hit that comes first claims   *)
(* part of it: for every hit there is one that it overlaps or equals, that *)
(* the redactor's order does not put behind it, and of which not one       *)
(* character is left (redaction.py:50 and 108-128,                         *)
(* presidio_backend.py:113-121).                                           *)
InClear(r, m) == Range(Stretch(Text(r), m)) \intersect Range(sent[r].text)
ComesFirst(a, m, style) ==
  IF style = "presidio" THEN ~StartsBefore(m, a) ELSE ~Outranks(m, a)
NoFlaggedTextLeft ==
  \A r \in Requests : \A m \in Range(sent[r].hits) :
    \E a \in Range(sent[r].hits) :
      /\ a = m \/ Overlaps(a, m)
      /\ ComesFirst(a, m, sent[r].style)
      /\ InClear(r, a) = {}

(* A reply that comes back while the entry is live, which a file is across *)
(* any restart, is restored: the text itself, once or twice over, becomes  *)
(* what it was before the redaction, and in another order every character  *)
(* of it comes back once.  When the entry has expired, was deleted or was  *)
(* lost the reply comes back as it is, and never with another request's    *)
(* text (protector.py:178-182, redaction.py:131-149, local/vault.py:30-44  *)
(* and 88-108).  Only the numbered styles are reversible.                  *)
UnredactRestores ==
  \A r \in Requests :
    LET a == answer[r]
        s == sent[r]
    IN (a # NoAnswer /\ s.style \in {"numbered", "presidio"}) =>
         IF ~a.inTime
         THEN a.text = a.reply
         ELSE /\ a.reply = s.text => a.text = Text(r)
              /\ a.reply = s.text \o s.text => a.text = Text(r) \o Text(r)
              /\ Range(a.text) = Range(Text(r))
              /\ Len(a.text) \in {Length, 2 * Length}

(* Personal data does not pile up in memory: once a request has stored its *)
(* mapping no entry is left that had expired by then (local/vault.py:31,   *)
(* 50-55).                                                                 *)
PutSweepsStale ==
  [][\A r \in Requests :
       store = "memory" /\ r \in DOMAIN vault' /\ r \notin DOMAIN vault =>
         \A id \in DOMAIN vault' : vault'[id].expires >= clock]_vars
=============================================================================
