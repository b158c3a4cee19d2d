------------------------------- MODULE Server -------------------------------
(***************************************************************************)
(* The gateway (server.py): one holder with the protector in use, requests *)
(* that are served by the protector they found in it, and reloads of the   *)
(* config file.  /v1/reload is a plain def, which FastAPI runs in a thread *)
(* pool, so reloads run beside each other and beside the requests of the   *)
(* event loop.                                                             *)
(*                                                                         *)
(* A reload is three steps: it reads the file, it sets the log level of    *)
(* the whole process in the middle of build_protector (config.py:407), and *)
(* it builds the rest and assigns the holder.  It may fail at any of them. *)
(* Each reload keeps for the properties what it found in use when it       *)
(* began, how many edits there had been, and whether every other reload    *)
(* under way had read the same edit.  The operator edits the file; a       *)
(* half-written file is a document that does not parse.                    *)
(***************************************************************************)
EXTENDS Config

CONSTANTS Threads,    \* the threads that serve /v1/reload
          Docs,       \* the documents the file may hold
          Texts,      \* [long, matching, objects], see Config
          ClientRules,\* the rules that a client may send
          MaxEdits    \* bounds the edits of the file

(* A provider that is not there is "none" in Config, so no section names   *)
(* one, and the loader reads no other categories than these.               *)
ASSUME DocsAssumption ==
  \A doc \in Docs :
    /\ \A voter \in {"primary", "secondary"} :
         /\ voter \in DOMAIN doc.auditor => doc.auditor[voter] # "none"
         /\ voter \in DOMAIN doc.providers => doc.providers[voter] # "none"
    /\ DOMAIN doc.prevent \subseteq Categories

VARIABLES
  file,      \* the document on disk and its number among the edits
  holder,    \* the protector in use, with the document it was built from
  level,     \* the level of the logger "prompt_protector"
  reload,    \* thread -> the reload it runs
  request,   \* the protector the current request was handed, with the document
             \* that was in use when it came in; or Nobody
  answer     \* the last verdict, with all that went into it

vars == <<file, holder, level, reload, request, answer>>

Idle == [at |-> "idle"]
Nobody == [at |-> "nobody"]
NoAnswer == [at |-> "none"]

(* build_protector gets as far as setLevel; and to its end. *)
SetsLevel(cfg) == BackendsBuild(cfg) /\ LevelIsKnown(cfg)
Builds(cfg) == SetsLevel(cfg) /\ ProtectorBuilds(cfg)

(* The file may be missing when the app is created; one that is there must *)
(* build, or create_app raises.                                            *)
StartsUp(doc) == Loads(doc) /\ Builds(LoadConfigDict(doc))
NoDoc == [parses |-> FALSE, root |-> <<>>, defaults |-> <<>>, providers |-> NoSection,
          auditor |-> NoSection, prevent |-> <<>>, redactors |-> {}, level |-> "WARNING",
          regexes |-> {}]

Init ==
  /\ \/ \E doc \in {d \in Docs : StartsUp(d)} :
          /\ file = [number |-> 0, doc |-> doc]
          /\ holder = [number |-> 0, doc |-> doc, protector |-> Built(LoadConfigDict(doc))]
          /\ level = doc.level
     \/ /\ file = [number |-> 0, doc |-> NoDoc]
        /\ holder = [number |-> 0, doc |-> NoDoc, protector |-> FallbackProtector]
        /\ level = NoDoc.level
  /\ reload = [t \in Threads |-> Idle]
  /\ request = Nobody
  /\ answer = NoAnswer

Reloading(t) == reload[t] # Idle
Config(t) == LoadConfigDict(reload[t].read.doc)

(* No reload is under way that has read an older file. *)
NoneIsStale == \A t \in Threads : Reloading(t) => reload[t].began = file.number

(* load_config_file(path).  A document that does not load ends the reload  *)
(* before it has changed anything, which is no step here.                  *)
InUse == [number |-> holder.number, doc |-> holder.doc]
OnDisk == file
BeginReload(t) ==
  /\ ~Reloading(t)
  /\ Loads(OnDisk.doc)
  /\ reload' = [reload EXCEPT ![t] =
       [at |-> "loaded", read |-> OnDisk, began |-> file.number, fresh |-> NoneIsStale,
        found |-> [holder |-> holder, level |-> level]]]
  /\ UNCHANGED <<file, holder, level, request, answer>>

(* build_protector up to setLevel. *)
SetLevel(t) ==
  /\ reload[t].at = "loaded"
  /\ SetsLevel(Config(t))
  /\ level' = Config(t).level
  /\ reload' = [reload EXCEPT ![t].at = "levelled"]
  /\ UNCHANGED <<file, holder, request, answer>>

(* The rest of build_protector, the assignment of holder.protector, and    *)
(* the answer reloaded=True.                                               *)
Install(t) ==
  /\ reload[t].at = "levelled"
  /\ ProtectorBuilds(Config(t))
  /\ holder' = [number |-> reload[t].read.number, doc |-> reload[t].read.doc,
                protector |-> Built(Config(t))]
  /\ reload' = [reload EXCEPT ![t] = Idle]
  /\ UNCHANGED <<file, level, request, answer>>

(* The exception is caught, logged and answered with reloaded=False. *)
FailReload(t) ==
  /\ \/ reload[t].at = "loaded" /\ ~SetsLevel(Config(t))
     \/ reload[t].at = "levelled" /\ ~ProtectorBuilds(Config(t))
  /\ reload' = [reload EXCEPT ![t] = Idle]
  /\ UNCHANGED <<file, holder, level, request, answer>>

EditFile ==
  /\ file.number < MaxEdits
  /\ \E doc \in Docs : file' = [number |-> file.number + 1, doc |-> doc]
  /\ UNCHANGED <<holder, level, reload, request, answer>>

(* sanitize_input and sanitize_output take holder.protector once; what is  *)
(* swapped in while they await does not concern them.                      *)
BeginRequest ==
  /\ request = Nobody
  /\ request' = [at |-> "judging", by |-> holder.protector, doc |-> holder.doc]
  /\ answer' = NoAnswer
  /\ UNCHANGED <<file, holder, level, reload>>

LookedUpAgain == holder.protector
ServedBy == request.by

(* What a request sends as rules: nothing, or a list of its own. *)
SentRules == {[overridden |-> FALSE, rules |-> {}]}
               \union [overridden : {TRUE}, rules : SUBSET ClientRules]

(* What came with the request is chosen here, as nothing has read it       *)
(* before.  A request that mode sample leaves out passes unjudged.         *)
EndRequest ==
  /\ request # Nobody
  /\ \E kind \in Kinds, sent \in SentRules, text \in Texts,
        down \in SUBSET {"primary", "secondary"} :
       \E sampled \in IF ServedBy.mode = "sample" THEN BOOLEAN ELSE {TRUE} :
         answer' = [at |-> "given", doc |-> request.doc, kind |-> kind, sent |-> sent,
                    text |-> text, down |-> down, sampled |-> sampled,
                    passed |-> ~sampled \/ Verdict(ServedBy, kind, sent, text, down)]
  /\ request' = Nobody
  /\ UNCHANGED <<file, holder, level, reload>>

Next ==
  \/ \E t \in Threads : BeginReload(t) \/ SetLevel(t) \/ Install(t) \/ FailReload(t)
  \/ EditFile
  \/ BeginRequest
  \/ EndRequest

Spec == Init /\ [][Next]_vars
-----------------------------------------------------------------------------
(* What the file says, read section by section. *)
FileSays(doc, key, value) ==
  IF key \in DOMAIN doc.defaults THEN doc.defaults[key] = value
  ELSE key \in DOMAIN doc.root /\ doc.root[key] = value
AuditSection(doc) == IF "primary" \in DOMAIN doc.auditor THEN doc.auditor ELSE doc.providers
Configured(doc) ==
  IF doc = NoDoc THEN {"primary"}
  ELSE IF "primary" \notin DOMAIN AuditSection(doc) THEN {}
  ELSE {"primary", "secondary"} \intersect DOMAIN AuditSection(doc)
PolicyIs(doc, policy) == "policy" \in DOMAIN AuditSection(doc) /\ AuditSection(doc).policy = policy

UnderAudit(doc, kind) ==
  {c \in DOMAIN doc.prevent :
     /\ "enabled" \in DOMAIN doc.prevent[c] => doc.prevent[c].enabled
     /\ "apply_to" \in DOMAIN doc.prevent[c] => kind \in doc.prevent[c].apply_to
     /\ c = "off_topic" => "rules" \in DOMAIN doc.prevent[c] /\ doc.prevent[c].rules}
  \union ({"pii", "secrets", "prompt_injection"} \ DOMAIN doc.prevent)
Questions(a) ==
  LET rules == IF a.sent.overridden THEN a.sent.rules
               ELSE IF a.doc = NoDoc THEN {} ELSE UnderAudit(a.doc, a.kind)
  IN IF rules = {} THEN {DefaultRule} ELSE rules
Objectors(a, rule) == {v \in Configured(a.doc) : rule \in a.text.objects[v]}

Given == answer # NoAnswer

(* The text is longer than the file allows and the file does not say that  *)
(* it be cut, or a detector knows something in it, or a regex of the file  *)
(* with the action block does.                                             *)
StoppedLocally ==
  \/ answer.text.long /\ ~FileSays(answer.doc, "on_oversize", "truncate")
  \/ "builtin" \in answer.text.matching
  \/ "block" \in answer.doc.regexes \intersect answer.text.matching

(* A text passes only for a reason that the file in use when the request   *)
(* came in gives, whatever is reloaded in the meantime: it puts the        *)
(* gateway in shadow mode, or in sample mode and the draw left the text    *)
(* out; or nothing stops the text locally and it configures no auditor, or *)
(* says fail_open and an auditor failed, or the auditors answered and,     *)
(* rule by rule, one of them did not object, none under all_must_pass.     *)
(* The rules are those of the categories that the file enables for that    *)
(* kind of text - unless the request sends rules: then they are the        *)
(* request's, and the file's categories are not asked about                *)
(* (config.py:173-238, 345-466; composite.py:40-56; protector.py:144, 162, *)
(* 769-780; server.py:119-137).                                            *)
PassIsWarranted ==
  Given /\ answer.passed =>
    \/ FileSays(answer.doc, "mode", "shadow")
    \/ FileSays(answer.doc, "mode", "sample") /\ ~answer.sampled
    \/ /\ ~StoppedLocally
       /\ \/ Configured(answer.doc) = {}
          \/ /\ answer.down \intersect Configured(answer.doc) # {}
             /\ FileSays(answer.doc, "failure_mode", "fail_open")
          \/ /\ answer.down \intersect Configured(answer.doc) = {}
             /\ \A rule \in Questions(answer) :
                  /\ Objectors(answer, rule) # Configured(answer.doc)
                  /\ PolicyIs(answer.doc, "all_must_pass") => Objectors(answer, rule) = {}

(* A text is blocked only for a reason: the gateway does not run in shadow *)
(* mode, and the text is too long, or a detector or a regex stops it, or   *)
(* an auditor failed without fail_open, or one objected to a rule that the *)
(* request sent, or to a category that is enabled for that kind of text if *)
(* it sent none (config.py:357-372, 442-473; protector.py:144, 162,        *)
(* 214-261, 387-443; server.py:119-137).                                   *)
BlockIsWarranted ==
  Given /\ ~answer.passed =>
    /\ ~FileSays(answer.doc, "mode", "shadow")
    /\ \/ StoppedLocally
       \/ /\ answer.down \intersect Configured(answer.doc) # {}
          /\ ~FileSays(answer.doc, "failure_mode", "fail_open")
       \/ \E rule \in Questions(answer) : Objectors(answer, rule) # {}

(* A reload puts the file as it is into use, protector and log level, also *)
(* beside other reloads, provided no edit came between its beginning, or   *)
(* that of a reload it met under way, and its end.  If the gateway could   *)
(* not start with the file, the protector is the one in use when the       *)
(* reload began, and so is the log level unless the document is faulty     *)
(* only behind setLevel: such a reload leaves its level behind             *)
(* (server.py:156-164, config.py:404-439).                                 *)
ReloadTakesTheFile ==
  [][\A t \in Threads :
       /\ Reloading(t) /\ ~Reloading(t)'
       /\ reload[t].fresh /\ reload[t].began = file.number
       => /\ IF StartsUp(file.doc)
             THEN /\ holder'.doc = file.doc
                  /\ holder'.protector = Built(LoadConfigDict(file.doc))
             ELSE holder' = reload[t].found.holder
          /\ level' = IF SetsLevel(LoadConfigDict(file.doc)) THEN file.doc.level
                      ELSE reload[t].found.level]_vars

-----------------------------------------------------------------------------
(* What the documentation says, and the code does not do.                  *)

(* What examples/protector_hybrid.yaml:33 says of the policy               *)
(* any_must_pass: "if either says fail, we fail".  The code passes what    *)
(* either of the two passes (config.py:379, composite.py:47-48).           *)
EitherFailBlocks ==
  /\ Given /\ answer.down = {} /\ answer.sampled
  /\ PolicyIs(answer.doc, "any_must_pass") /\ ~StoppedLocally
  /\ \E rule \in Questions(answer) : Objectors(answer, rule) # {}
  => ~answer.passed \/ FileSays(answer.doc, "mode", "shadow")
=============================================================================
