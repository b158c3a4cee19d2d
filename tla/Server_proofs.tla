---------------------------- MODULE Server_proofs ----------------------------
(***************************************************************************)
(* The two ways into the gateway.  Server: a reload takes the file as it   *)
(* is into use, and every verdict has its reason in the document that was  *)
(* in use when the request came in, for any threads, documents, texts,     *)
(* rules of clients and number of edits.  SyncRunner: nobody is forgotten, *)
(* whatever the callers do.                                                *)
(***************************************************************************)
EXTENDS Server, SyncRunner, SequenceTheorems, TLAPS

AnyDoc == Docs \cup {NoDoc}
OnFile == [number : Nat, doc : AnyDoc]
Protectors == {FallbackProtector} \cup {Built(LoadConfigDict(doc)) : doc \in Docs}
Holders == [number : Nat, doc : AnyDoc, protector : Protectors]
Levels == {doc.level : doc \in AnyDoc}
Record == [at : {"loaded", "levelled"}, read : OnFile, began : Nat, fresh : BOOLEAN,
           found : [holder : Holders, level : Levels]]

ReloadTypes ==
  /\ file \in OnFile
  /\ holder \in Holders
  /\ level \in Levels
  /\ reload \in [Threads -> Record \cup {Idle}]

(* What a reload has read is what is on disk, unless there was an edit.    *)
ReadInv ==
  \A t \in Threads : Reloading(t) =>
    /\ reload[t].began <= file.number
    /\ reload[t].began = file.number => reload[t].read = file
    /\ Loads(reload[t].read.doc)

(* A reload that met none with an older file, and no edit since it began.  *)
Current(t) == Reloading(t) /\ reload[t].fresh /\ reload[t].began = file.number

(* Then everyone has read what is on disk.                                 *)
FreshInv ==
  \A t, u \in Threads : Current(t) /\ Reloading(u) => reload[u].began = file.number

OnDiskCfg == LoadConfigDict(file.doc)

(* Behind setLevel the document has come that far, and its level is the    *)
(* process's: of those under way none sets another.                        *)
LevelInv ==
  \A t \in Threads :
    /\ reload[t].at = "levelled" => SetsLevel(Config(t))
    /\ Current(t) /\ reload[t].at = "levelled" => level = file.doc.level
    /\ Current(t) /\ ~SetsLevel(OnDiskCfg) => level = reload[t].found.level

(* No reload under way can put a file into use that does not build.        *)
FoundInv ==
  \A t \in Threads : Current(t) /\ ~StartsUp(file.doc) => holder = reload[t].found.holder

IInv == ReloadTypes /\ ReadInv /\ FreshInv /\ LevelInv /\ FoundInv

LEMMA Reloads ==
  ASSUME ReloadTypes, NEW t \in Threads
  PROVE  /\ Reloading(t) <=> reload[t] \in Record
         /\ Reloading(t) <=> reload[t].at \in {"loaded", "levelled"}
         /\ ~Reloading(t) <=> reload[t] = Idle
BY DEF ReloadTypes, Reloading, Record, Idle

(* A reload under way beside a current one, itself included, builds from   *)
(* the file on disk.                                                       *)
LEMMA BesideCurrent ==
  ASSUME IInv, NEW t \in Threads, Current(t), NEW u \in Threads, Reloading(u)
  PROVE  /\ reload[u].read = file /\ Config(u) = OnDiskCfg /\ Loads(file.doc)
         /\ Config(u).level = file.doc.level
<1>1. reload[u].read = file /\ Loads(file.doc)
  BY DEF IInv, FreshInv, ReadInv
<1> QED
  BY <1>1 DEF Config, OnDiskCfg, LoadConfigDict

LEMMA InitIInv == Init => IInv
<1> SUFFICES ASSUME Init PROVE IInv
  OBVIOUS
<1>1. /\ file \in OnFile /\ holder \in Holders /\ level \in Levels
  BY DEF Init, OnFile, Holders, Protectors, Levels, AnyDoc
<1>2. \A t \in Threads : reload[t] = Idle
  BY DEF Init
<1>3. ReloadTypes
  BY <1>1 DEF Init, ReloadTypes
<1> QED
  BY <1>2, <1>3 DEF IInv, ReadInv, FreshInv, LevelInv, FoundInv, Current, Reloading, Idle

LEMMA BeginReloadKeeps ==
  ASSUME IInv, NEW t \in Threads, BeginReload(t)
  PROVE  IInv'
<1> DEFINE begun == [at |-> "loaded", read |-> file, began |-> file.number,
                     fresh |-> NoneIsStale, found |-> [holder |-> holder, level |-> level]]
<1>1. /\ file' = file /\ level' = level /\ holder' = holder
      /\ reload[t] = Idle /\ Loads(file.doc)
      /\ reload' = [reload EXCEPT ![t] = begun]
  BY DEF BeginReload, Reloading, OnDisk
<1>2. begun \in Record /\ begun # Idle
  BY DEF IInv, ReloadTypes, OnFile, Record, NoneIsStale, Idle
<1>3. /\ begun.at = "loaded" /\ begun.read = file /\ begun.began = file.number
      /\ begun.fresh = NoneIsStale
      /\ begun.found.holder = holder /\ begun.found.level = level
  OBVIOUS
<1> HIDE DEF begun
<1>4. /\ reload'[t] = begun
      /\ \A u \in Threads \ {t} : reload'[u] = reload[u]
  BY <1>1 DEF IInv, ReloadTypes
<1>5. /\ Reloading(t)'
      /\ \A u \in Threads \ {t} : Reloading(u)' <=> Reloading(u)
      /\ \A u \in Threads \ {t} : Current(u)' <=> Current(u)
      /\ Current(t)' <=> NoneIsStale
  BY <1>1, <1>2, <1>3, <1>4 DEF Reloading, Current
<1>6. ReloadTypes'
  BY <1>1, <1>2 DEF IInv, ReloadTypes
<1>7. ReadInv'
  BY <1>1, <1>3, <1>4, <1>5 DEF IInv, ReadInv, ReloadTypes, OnFile
<1>8. FreshInv'
  BY <1>1, <1>3, <1>4, <1>5 DEF IInv, FreshInv, NoneIsStale
<1>9. LevelInv'
  <2>1. ASSUME NEW u \in Threads \ {t}
        PROVE  (/\ reload[u].at = "levelled" => SetsLevel(Config(u))
                /\ Current(u) /\ reload[u].at = "levelled" => level = file.doc.level
                /\ Current(u) /\ ~SetsLevel(OnDiskCfg) => level = reload[u].found.level)'
    <3>1. Config(u)' = Config(u) /\ OnDiskCfg' = OnDiskCfg
      BY <1>1, <1>4 DEF Config, OnDiskCfg
    <3> QED
      BY <1>1, <1>4, <1>5, <3>1 DEF IInv, LevelInv
  <2> QED
    BY <1>1, <1>3, <1>4, <2>1 DEF LevelInv
<1>10. FoundInv'
  BY <1>1, <1>3, <1>4, <1>5 DEF IInv, FoundInv
<1> QED
  BY <1>6, <1>7, <1>8, <1>9, <1>10 DEF IInv

LEMMA SetLevelKeeps ==
  ASSUME IInv, NEW t \in Threads, SetLevel(t)
  PROVE  IInv'
<1>1. /\ file' = file /\ level' = Config(t).level /\ holder' = holder
      /\ reload[t].at = "loaded" /\ SetsLevel(Config(t))
      /\ reload' = [reload EXCEPT ![t].at = "levelled"]
  BY DEF SetLevel
<1>2. reload[t] \in Record /\ Reloading(t)
  BY <1>1, Reloads DEF IInv
<1>3. /\ reload'[t] \in Record /\ reload'[t].at = "levelled"
      /\ reload'[t].read = reload[t].read /\ reload'[t].began = reload[t].began
      /\ reload'[t].fresh = reload[t].fresh /\ reload'[t].found = reload[t].found
      /\ \A u \in Threads \ {t} : reload'[u] = reload[u]
  BY <1>1, <1>2 DEF IInv, ReloadTypes, Record
<1>4. Config(t).level \in Levels
  BY <1>2 DEF Config, LoadConfigDict, Levels, Record, OnFile
<1>5. ReloadTypes'
  BY <1>1, <1>3, <1>4 DEF IInv, ReloadTypes
<1>6. /\ \A u \in Threads : Reloading(u)' <=> Reloading(u)
      /\ \A u \in Threads : Config(u)' = Config(u)
      /\ \A u \in Threads : Current(u)' <=> Current(u)
      /\ OnDiskCfg' = OnDiskCfg
  BY <1>1, <1>2, <1>3 DEF Reloading, Config, Current, OnDiskCfg, Record, Idle
<1>7. ReadInv'
  BY <1>1, <1>3, <1>6 DEF IInv, ReadInv
<1>8. FreshInv'
  BY <1>1, <1>3, <1>6 DEF IInv, FreshInv
<1>9. LevelInv'
  <2>1. ASSUME NEW u \in Threads
        PROVE  (/\ reload[u].at = "levelled" => SetsLevel(Config(u))
                /\ Current(u) /\ reload[u].at = "levelled" => level = file.doc.level
                /\ Current(u) /\ ~SetsLevel(OnDiskCfg) => level = reload[u].found.level)'
    <3>1. reload'[u].at = "levelled" => SetsLevel(Config(u))'
      BY <1>1, <1>3, <1>6 DEF IInv, LevelInv
    <3>2. Current(u) => level' = file.doc.level /\ SetsLevel(OnDiskCfg)
      BY <1>1, <1>2, BesideCurrent
    <3> QED
      BY <1>1, <1>6, <3>1, <3>2
  <2> QED
    BY <2>1 DEF LevelInv
<1>10. FoundInv'
  BY <1>1, <1>3, <1>6 DEF IInv, FoundInv
<1> QED
  BY <1>5, <1>7, <1>8, <1>9, <1>10 DEF IInv

(* A reload that ends is gone; the others are as they were.                *)
LEMMA EndKeeps ==
  ASSUME IInv, NEW t \in Threads, reload' = [reload EXCEPT ![t] = Idle],
         UNCHANGED <<file, level>>, holder' \in Holders,
         \A u \in Threads : Current(u) /\ ~StartsUp(file.doc) => holder' = holder
  PROVE  IInv'
<1>1. /\ ~Reloading(t)' /\ reload'[t].at = "idle"
      /\ \A u \in Threads \ {t} : reload'[u] = reload[u]
  BY DEF IInv, ReloadTypes, Reloading, Idle
<1>2. ReloadTypes'
  BY DEF IInv, ReloadTypes
<1>3. /\ \A u \in Threads : Reloading(u)' => u # t /\ Reloading(u)
      /\ \A u \in Threads : Current(u)' => u # t /\ Current(u)
  BY <1>1 DEF Reloading, Current
<1>4. ReadInv'
  BY <1>1, <1>3 DEF IInv, ReadInv
<1>5. FreshInv'
  BY <1>1, <1>3 DEF IInv, FreshInv
<1>6. LevelInv'
  <2>1. ASSUME NEW u \in Threads
        PROVE  (/\ reload[u].at = "levelled" => SetsLevel(Config(u))
                /\ Current(u) /\ reload[u].at = "levelled" => level = file.doc.level
                /\ Current(u) /\ ~SetsLevel(OnDiskCfg) => level = reload[u].found.level)'
    <3>1. CASE u = t
      BY <1>1, <1>3, <3>1
    <3>2. CASE u # t
      <4>1. Config(u)' = Config(u) /\ OnDiskCfg' = OnDiskCfg
        BY <1>1, <3>2 DEF Config, OnDiskCfg
      <4> QED
        BY <1>1, <1>3, <3>2, <4>1 DEF IInv, LevelInv
    <3> QED
      BY <3>1, <3>2
  <2> QED
    BY <2>1 DEF LevelInv
<1>7. FoundInv'
  BY <1>1, <1>3 DEF IInv, FoundInv
<1> QED
  BY <1>2, <1>4, <1>5, <1>6, <1>7 DEF IInv

(* What is installed beside a current reload is the file, so that starts.  *)
LEMMA InstallKeeps ==
  ASSUME IInv, NEW t \in Threads, Install(t)
  PROVE  IInv'
<1>1. /\ reload[t].at = "levelled" /\ ProtectorBuilds(Config(t))
      /\ holder' = [number |-> reload[t].read.number, doc |-> reload[t].read.doc,
                    protector |-> Built(Config(t))]
      /\ reload' = [reload EXCEPT ![t] = Idle] /\ UNCHANGED <<file, level>>
  BY DEF Install
<1>2. reload[t] \in Record /\ Reloading(t) /\ SetsLevel(Config(t)) /\ Loads(reload[t].read.doc)
  BY <1>1, Reloads DEF IInv, LevelInv, ReadInv
<1>3. holder' \in Holders
  <2>1. reload[t].read.doc \in Docs
    BY <1>2 DEF Record, OnFile, AnyDoc, Loads, NoDoc
  <2> QED
    BY <1>1, <1>2, <2>1 DEF Config, Record, OnFile, AnyDoc, Protectors, Holders
<1>4. ASSUME NEW u \in Threads, Current(u) PROVE StartsUp(file.doc)
  <2>1. Config(t) = OnDiskCfg /\ Loads(file.doc)
    BY <1>2, <1>4, BesideCurrent
  <2> QED
    BY <1>1, <1>2, <2>1 DEF StartsUp, Builds, OnDiskCfg
<1> QED
  BY <1>1, <1>3, <1>4, EndKeeps

LEMMA EditFileKeeps == ASSUME IInv, EditFile PROVE IInv'
<1>1. PICK doc \in Docs : file' = [number |-> file.number + 1, doc |-> doc]
  BY DEF EditFile
<1>2. reload' = reload /\ level' = level /\ holder' = holder
  BY DEF EditFile
<1>3. file' \in OnFile /\ file'.number = file.number + 1 /\ file.number \in Nat
  BY <1>1 DEF IInv, ReloadTypes, OnFile, AnyDoc
<1>4. ReloadTypes'
  BY <1>2, <1>3 DEF IInv, ReloadTypes
<1>5. \A u \in Threads : Reloading(u) =>
        reload[u].began <= file.number /\ reload[u].began \in Nat /\ Loads(reload[u].read.doc)
  BY Reloads DEF IInv, ReadInv, Record
<1>6. ReadInv' /\ \A u \in Threads : ~Current(u)'
  BY <1>2, <1>3, <1>5 DEF ReadInv, Current, Reloading
<1>7. LevelInv'
  BY <1>2, <1>6 DEF IInv, LevelInv, Config
<1> QED
  BY <1>4, <1>6, <1>7 DEF IInv, FreshInv, FoundInv

LEMMA OthersKeep ==
  ASSUME IInv, UNCHANGED <<file, holder, level, reload>>
  PROVE  IInv'
BY DEF IInv, ReloadTypes, ReadInv, FreshInv, LevelInv, FoundInv, Current, Reloading, Config,
       OnDiskCfg

LEMMA NextKeeps == ASSUME IInv, [Next]_vars PROVE IInv'
<1>1. ASSUME NEW t \in Threads, FailReload(t) PROVE IInv'
  BY <1>1, EndKeeps DEF FailReload, IInv, ReloadTypes
<1>2. CASE BeginRequest \/ EndRequest \/ UNCHANGED vars
  BY <1>2, OthersKeep DEF BeginRequest, EndRequest, vars
<1> QED
  BY <1>1, <1>2, BeginReloadKeeps, SetLevelKeeps, InstallKeeps, EditFileKeeps DEF Next

(* What a reload knows of the file, of the others and of the log level.    *)
THEOREM Invariance == Spec => []IInv
<1>1. Init => IInv
  BY InitIInv
<1>2. IInv /\ [Next]_vars => IInv'
  BY NextKeeps
<1> QED
  BY <1>1, <1>2, PTL DEF Spec

-----------------------------------------------------------------------------
(* Only its own last step ends a reload.                                   *)
LEMMA OnlyItselfEnds ==
  ASSUME IInv, Next, NEW t \in Threads, Reloading(t), ~Reloading(t)'
  PROVE  Install(t) \/ FailReload(t)
<1>1. reload[t] # Idle /\ reload'[t] = Idle /\ reload \in [Threads -> Record \cup {Idle}]
  BY DEF IInv, ReloadTypes, Reloading
<1>2. ASSUME NEW u \in Threads, BeginReload(u) PROVE FALSE
  BY <1>1, <1>2 DEF BeginReload, Reloading
<1>3. ASSUME NEW u \in Threads, SetLevel(u) PROVE FALSE
  <2>1. reload'[t] = reload[t] \/ reload'[t] = [reload[t] EXCEPT !.at = "levelled"]
    BY <1>1, <1>3 DEF SetLevel
  <2>2. [reload[t] EXCEPT !.at = "levelled"] # Idle
    BY <1>1 DEF Record, Idle
  <2> QED
    BY <1>1, <2>1, <2>2
<1>4. ASSUME NEW u \in Threads \ {t}, Install(u) \/ FailReload(u) PROVE FALSE
  BY <1>1, <1>4 DEF Install, FailReload
<1>5. ~(EditFile \/ BeginRequest \/ EndRequest)
  BY DEF EditFile, BeginRequest, EndRequest, Reloading
<1> QED
  BY <1>2, <1>3, <1>4, <1>5 DEF Next

(* A reload puts the document on disk into use, protector and log level,   *)
(* also beside other reloads of the same file.  With a document that the   *)
(* gateway could not start with, the protector stays the one it found, and *)
(* so does the level unless the document is faulty only behind setLevel    *)
(* (server.py:156-164, config.py:404-439).                                 *)
THEOREM ReloadsTakeTheFile == Spec => ReloadTakesTheFile
<1> DEFINE Ended(t) == /\ Reloading(t) /\ ~Reloading(t)'
                       /\ reload[t].fresh /\ reload[t].began = file.number
           Taken(t) == /\ IF StartsUp(file.doc)
                          THEN /\ holder'.doc = file.doc
                               /\ holder'.protector = Built(LoadConfigDict(file.doc))
                          ELSE holder' = reload[t].found.holder
                       /\ level' = IF SetsLevel(LoadConfigDict(file.doc)) THEN file.doc.level
                                   ELSE reload[t].found.level
           Ends == \A t \in Threads : Ended(t) => Taken(t)
<1>1. IInv /\ [Next]_vars => [Ends]_vars
  <2> SUFFICES ASSUME IInv, Next, NEW t \in Threads, Ended(t)
               PROVE  Taken(t)
    BY DEF Reloading, vars
  <2>1. Current(t)
    BY DEF Current
  <2>2. /\ reload[t].read = file /\ Config(t) = LoadConfigDict(file.doc) /\ Loads(file.doc)
    BY <2>1, BesideCurrent DEF Current, OnDiskCfg
  <2>3. /\ reload[t].at = "levelled" => SetsLevel(Config(t)) /\ level = file.doc.level
        /\ ~SetsLevel(Config(t)) => level = reload[t].found.level
        /\ ~StartsUp(file.doc) => holder = reload[t].found.holder
    BY <2>1, <2>2 DEF IInv, LevelInv, FoundInv, OnDiskCfg
  <2>4. StartsUp(file.doc) <=> SetsLevel(Config(t)) /\ ProtectorBuilds(Config(t))
    BY <2>2 DEF StartsUp, Builds
  <2>5. Install(t) \/ FailReload(t)
    BY OnlyItselfEnds
  <2>6. CASE Install(t)
    BY <2>2, <2>3, <2>4, <2>6 DEF Install
  <2>7. CASE FailReload(t)
    BY <2>2, <2>3, <2>4, <2>7 DEF FailReload
  <2> QED
    BY <2>5, <2>6, <2>7
<1> QED
  BY <1>1, Invariance, PTL DEF Spec, ReloadTakesTheFile

-----------------------------------------------------------------------------
(* How the two ways of reading a document agree: what the loader and the   *)
(* builder make of a section, and what the section says.                   *)
LEMMA SettingsRead ==
  ASSUME NEW doc
  PROVE  /\ FileSays(doc, "mode", "shadow") <=> Settings(doc).mode = "shadow"
         /\ FileSays(doc, "mode", "sample") <=> Settings(doc).mode = "sample"
         /\ FileSays(doc, "failure_mode", "fail_open") <=> Settings(doc).failure_mode = "fail_open"
         /\ FileSays(doc, "on_oversize", "truncate") <=> Settings(doc).on_oversize = "truncate"
<1>1. \A key \in DOMAIN DefaultSettings :
        Settings(doc)[key] = IF key \in DOMAIN doc.defaults THEN doc.defaults[key]
                             ELSE IF key \in DOMAIN doc.root THEN doc.root[key]
                             ELSE DefaultSettings[key]
  BY DEF Settings, Over
<1>2. /\ {"mode", "failure_mode", "on_oversize"} \subseteq DOMAIN DefaultSettings
      /\ DefaultSettings["mode"] = "enforce" /\ DefaultSettings["failure_mode"] = "fail_closed"
      /\ DefaultSettings["on_oversize"] = "reject"
  BY DEF DefaultSettings
<1> QED
  BY <1>1, <1>2 DEF FileSays

LEMMA SectionRead ==
  ASSUME NEW given, NEW key \in {"primary", "secondary", "policy"}
  PROVE  Section(given)[key] = IF key \in DOMAIN given THEN given[key]
                               ELSE IF key = "policy" THEN "primary_only" ELSE "none"
BY DEF Section, Over

LEMMA VotersRead ==
  ASSUME NEW doc \in Docs, doc # NoDoc
  PROVE  /\ Voters(LoadConfigDict(doc)) = Configured(doc)
         /\ Source(LoadConfigDict(doc)).policy = "all_must_pass" <=> PolicyIs(doc, "all_must_pass")
<1> DEFINE cfg == LoadConfigDict(doc)
<1>1. cfg.auditor = Section(doc.auditor) /\ cfg.providers = Section(doc.providers)
  BY DEF LoadConfigDict
<1>2. Source(cfg) = Section(AuditSection(doc))
  BY <1>1, SectionRead, DocsAssumption DEF Source, AuditSection
<1>3. \A v \in {"primary", "secondary"} :
        v \in DOMAIN AuditSection(doc) => AuditSection(doc)[v] # "none"
  BY DocsAssumption DEF AuditSection
<1>4. \A v \in {"primary", "secondary"} :
        Section(AuditSection(doc))[v] = "none" <=> v \notin DOMAIN AuditSection(doc)
  BY <1>3, SectionRead
<1> QED
  BY <1>2, <1>4, SectionRead DEF Voters, Configured, PolicyIs

LEMMA RulesRead ==
  ASSUME NEW doc \in Docs, NEW kind \in Kinds
  PROVE  Rules(LoadConfigDict(doc), kind) = UnderAudit(doc, kind)
<1> DEFINE prevent == Prevent(doc)
<1>1. LoadConfigDict(doc).prevent = prevent
  BY DEF LoadConfigDict
<1>2. DOMAIN doc.prevent \subseteq Categories
  BY DocsAssumption
<1>3. ASSUME NEW c \in DOMAIN doc.prevent
      PROVE  c \in Rules(LoadConfigDict(doc), kind) <=> c \in UnderAudit(doc, kind)
  <2>1. prevent[c] = Mentioned(doc.prevent[c])
    BY <1>2 DEF Prevent
  <2> DEFINE given == doc.prevent[c]
  <2>2. /\ prevent[c].enabled = IF "enabled" \in DOMAIN given THEN given.enabled ELSE TRUE
        /\ prevent[c].apply_to = IF "apply_to" \in DOMAIN given THEN given.apply_to ELSE Kinds
        /\ prevent[c].rules = IF "rules" \in DOMAIN given THEN given.rules ELSE FALSE
    BY <2>1 DEF Mentioned, Over
  <2> QED
    BY <1>1, <1>2, <2>2 DEF Rules, UnderAudit
<1>4. ASSUME NEW c \in Categories \ DOMAIN doc.prevent
      PROVE  c \in Rules(LoadConfigDict(doc), kind) <=> c \in UnderAudit(doc, kind)
  <2>1. prevent[c] = Unmentioned(c)
    BY <1>4 DEF Prevent
  <2>2. /\ prevent[c].enabled = (c \notin {"nsfw", "off_topic"})
        /\ prevent[c].apply_to = Kinds
    BY <2>1 DEF Unmentioned, Mentioned, Over
  <2> QED
    BY <1>1, <2>2 DEF Rules, UnderAudit, Categories
<1> QED
  BY <1>2, <1>3, <1>4 DEF Rules, UnderAudit, Categories

(* The protector was built from the document, which has loaded.            *)
Served(doc, protector) ==
  \/ doc = NoDoc /\ protector = FallbackProtector
  \/ doc \in Docs \ {NoDoc} /\ Loads(doc) /\ protector = Built(LoadConfigDict(doc))

(* What a document stops without an auditor.                               *)
Stops(doc, text) ==
  \/ text.long /\ ~FileSays(doc, "on_oversize", "truncate")
  \/ "builtin" \in text.matching
  \/ "block" \in doc.regexes \cap text.matching

(* The rules of its own for a kind of text.                                *)
OwnRules(doc, kind) == IF doc = NoDoc THEN {} ELSE UnderAudit(doc, kind)

(* What such a protector does is what its document says.                   *)
LEMMA ServedRead ==
  ASSUME NEW doc, NEW protector, Served(doc, protector)
  PROVE  /\ protector.voters = Configured(doc)
         /\ protector.all_must_pass <=> PolicyIs(doc, "all_must_pass")
         /\ \A kind \in Kinds : protector.rules[kind] = OwnRules(doc, kind)
         /\ protector.mode = "shadow" <=> FileSays(doc, "mode", "shadow")
         /\ protector.mode = "sample" <=> FileSays(doc, "mode", "sample")
         /\ protector.failure_mode = "fail_open" <=> FileSays(doc, "failure_mode", "fail_open")
         /\ \A text : BlockedLocally(protector, text) <=> Stops(doc, text)
<1>1. CASE doc = NoDoc /\ protector = FallbackProtector
  <2>1. /\ NoDoc.defaults = <<>> /\ NoDoc.root = <<>> /\ NoDoc.auditor = <<>>
        /\ NoDoc.providers = <<>> /\ NoDoc.regexes = {} /\ DOMAIN <<>> = {}
    BY DEF NoDoc, NoSection
  <2>2. /\ \A key, value : ~FileSays(NoDoc, key, value)
        /\ ~PolicyIs(NoDoc, "all_must_pass") /\ Configured(NoDoc) = {"primary"}
    BY <2>1 DEF FileSays, PolicyIs, AuditSection, Configured
  <2>3. /\ FallbackProtector.voters = {"primary"} /\ ~FallbackProtector.all_must_pass
        /\ FallbackProtector.rules = [kind \in Kinds |-> {}]
        /\ FallbackProtector.detectors = <<>> /\ FallbackProtector.on_oversize = "reject"
        /\ FallbackProtector.mode = "enforce" /\ FallbackProtector.failure_mode = "fail_closed"
    BY DEF FallbackProtector
  <2>4. \A text : BlockedLocally(FallbackProtector, text) <=> Stops(NoDoc, text)
    BY <2>1, <2>2, <2>3 DEF BlockedLocally, RejectedBySize, Stops
  <2> QED
    BY <1>1, <2>2, <2>3, <2>4 DEF OwnRules
<1>2. CASE doc \in Docs \ {NoDoc} /\ Loads(doc) /\ protector = Built(LoadConfigDict(doc))
  <2> DEFINE cfg == LoadConfigDict(doc)
  <2>1. cfg.settings = Settings(doc) /\ cfg.regexes = doc.regexes
    BY DEF LoadConfigDict
  <2>2. /\ protector.voters = Voters(cfg)
        /\ protector.all_must_pass = (Source(cfg).policy = "all_must_pass")
        /\ protector.rules = [kind \in Kinds |-> Rules(cfg, kind)]
        /\ protector.detectors = [action \in doc.regexes |-> RegexScore(action)]
        /\ protector.failure_mode = Settings(doc).failure_mode
        /\ protector.mode = Settings(doc).mode
        /\ protector.on_oversize = Settings(doc).on_oversize
    BY <1>2, <2>1 DEF Built
  <2>3. \A kind \in Kinds : protector.rules[kind] = OwnRules(doc, kind)
    BY <1>2, <2>2, RulesRead DEF OwnRules
  <2>4. protector.on_oversize = "reject" <=> ~FileSays(doc, "on_oversize", "truncate")
    <3>1. Settings(doc).on_oversize \in {"reject", "truncate"}
      BY <1>2, <2>1 DEF Loads, Valid
    <3> QED
      BY <2>2, <3>1, SettingsRead
  <2>5. \A text : BlockedLocally(protector, text) <=> Stops(doc, text)
    BY <2>2, <2>4 DEF BlockedLocally, RejectedBySize, RegexScore, Stops
  <2> QED
    BY <1>2, <2>2, <2>3, <2>5, VotersRead, SettingsRead
<1> QED
  BY <1>1, <1>2 DEF Served

(* A verdict of such a protector is warranted by its document and by the   *)
(* rules that the request sent.                                            *)
LEMMA VerdictWarranted ==
  ASSUME EndRequest, Served(request.doc, request.by)
  PROVE  PassIsWarranted' /\ BlockIsWarranted'
<1> DEFINE by == request.by
           doc == request.doc
<1>1. PICK kind \in Kinds, sent \in SentRules, text \in Texts,
           down \in SUBSET {"primary", "secondary"} :
        \E sampled \in IF by.mode = "sample" THEN BOOLEAN ELSE {TRUE} :
          answer' = [at |-> "given", doc |-> doc, kind |-> kind, sent |-> sent, text |-> text,
                     down |-> down, sampled |-> sampled,
                     passed |-> ~sampled \/ Verdict(by, kind, sent, text, down)]
  BY DEF EndRequest, ServedBy
<1>2. PICK sampled \in IF by.mode = "sample" THEN BOOLEAN ELSE {TRUE} :
        answer' = [at |-> "given", doc |-> doc, kind |-> kind, sent |-> sent, text |-> text,
                   down |-> down, sampled |-> sampled,
                   passed |-> ~sampled \/ Verdict(by, kind, sent, text, down)]
  BY <1>1
<1>3. /\ answer'.doc = doc /\ answer'.kind = kind /\ answer'.sent = sent
      /\ answer'.text = text /\ answer'.down = down /\ answer'.sampled = sampled
      /\ answer'.passed <=> ~sampled \/ Verdict(by, kind, sent, text, down)
  BY <1>2
<1>4. sampled \/ FileSays(doc, "mode", "sample")
  <2>1. by.mode = "sample" <=> FileSays(doc, "mode", "sample")
    BY ServedRead
  <2> QED
    BY <2>1
<1> DEFINE Against(rule) == {v \in Configured(doc) : rule \in text.objects[v]}
           Stopped == Stops(doc, text)
           Open == FileSays(doc, "failure_mode", "fail_open")
           OfItsOwn == IF sent.overridden THEN sent.rules ELSE OwnRules(doc, kind)
           Rule == IF OfItsOwn = {} THEN {DefaultRule} ELSE OfItsOwn
<1>5. Asked(by, kind, sent) = Rule
  BY ServedRead DEF Asked, RulesFor
<1>6. ASSUME NEW rule
      PROVE  /\ Configured(doc) # {} /\ Passes(by, rule, text.objects) =>
                  /\ Against(rule) # Configured(doc)
                  /\ PolicyIs(doc, "all_must_pass") => Against(rule) = {}
             /\ Configured(doc) # {} /\ ~Passes(by, rule, text.objects) => Against(rule) # {}
  BY ServedRead DEF Passes
<1>7. Verdict(by, kind, sent, text, down) <=>
        \/ FileSays(doc, "mode", "shadow")
        \/ /\ ~Stopped
           /\ \/ Configured(doc) = {}
              \/ IF down \cap Configured(doc) # {} THEN Open
                 ELSE \A rule \in Rule : Passes(by, rule, text.objects)
  BY <1>5, ServedRead DEF Verdict, AuditPasses
<1>8. /\ StoppedLocally' <=> Stopped
      /\ Questions(answer)' = Rule
      /\ \A rule : Objectors(answer, rule)' = Against(rule)
  BY <1>3 DEF StoppedLocally, Stops, Questions, OwnRules, Objectors
<1> HIDE DEF by, doc, Against, Stopped, Open, Rule
<1>9. PassIsWarranted'
  BY <1>3, <1>4, <1>6, <1>7, <1>8 DEF PassIsWarranted, Open
<1>10. BlockIsWarranted'
  BY <1>3, <1>4, <1>6, <1>7, <1>8 DEF BlockIsWarranted, Open
<1> QED
  BY <1>9, <1>10

(* What is in use was built from the document it is filed with, and what   *)
(* serves the request under way from the document that was in use when it  *)
(* came in.                                                                *)
ServedInv ==
  /\ Served(holder.doc, holder.protector)
  /\ request # Nobody => Served(request.doc, request.by)

LEMMA ServedNext == ASSUME IInv, ServedInv, [Next]_vars PROVE ServedInv'
<1>1. ASSUME NEW t \in Threads, Install(t) PROVE ServedInv'
  <2> DEFINE doc == reload[t].read.doc
  <2>1. reload[t].at = "levelled"
    BY <1>1 DEF Install
  <2>2. Reloading(t) /\ reload[t] \in Record
    BY <2>1, Reloads DEF IInv
  <2>3. doc \in Docs \cup {NoDoc} /\ Loads(doc)
    BY <2>2 DEF IInv, ReadInv, Record, OnFile, AnyDoc
  <2>4. doc \in Docs \ {NoDoc}
    BY <2>3 DEF Loads, NoDoc
  <2>5. holder'.doc = doc /\ holder'.protector = Built(LoadConfigDict(doc)) /\ request' = request
    BY <1>1 DEF Install, Config
  <2> QED
    BY <2>3, <2>4, <2>5 DEF ServedInv, Served
<1>2. CASE BeginRequest
  <2>1. holder' = holder /\ request'.by = holder.protector /\ request'.doc = holder.doc
    BY <1>2 DEF BeginRequest
  <2> QED
    BY <2>1 DEF ServedInv, Served
<1>3. CASE EndRequest
  BY <1>3 DEF EndRequest, ServedInv, Served
<1>4. ASSUME holder' = holder, request' = request PROVE ServedInv'
  BY <1>4 DEF ServedInv, Served
<1>5. ASSUME NEW t \in Threads, BeginReload(t) \/ SetLevel(t) \/ FailReload(t) PROVE ServedInv'
  BY <1>4, <1>5 DEF BeginReload, SetLevel, FailReload
<1>6. CASE EditFile \/ UNCHANGED vars
  BY <1>4, <1>6 DEF EditFile, vars
<1> QED
  BY <1>1, <1>2, <1>3, <1>5, <1>6 DEF Next

LEMMA ServedInit == Init => ServedInv
<1>1. ASSUME NEW doc \in Docs, StartsUp(doc) PROVE Loads(doc) /\ doc # NoDoc
  BY <1>1 DEF StartsUp, Loads, NoDoc
<1> SUFFICES ASSUME Init PROVE Served(holder.doc, holder.protector) /\ request = Nobody
  BY DEF ServedInv
<1>2. request = Nobody
  BY DEF Init
<1>3. Served(holder.doc, holder.protector)
  BY <1>1 DEF Init, Served
<1> QED
  BY <1>2, <1>3

LEMMA WarrantNext ==
  ASSUME ServedInv, PassIsWarranted, BlockIsWarranted, [Next]_vars
  PROVE  PassIsWarranted' /\ BlockIsWarranted'
<1>1. CASE EndRequest
  BY <1>1, VerdictWarranted DEF EndRequest, ServedInv
<1>2. CASE BeginRequest
  BY <1>2 DEF BeginRequest, PassIsWarranted, BlockIsWarranted, Given, NoAnswer
<1>3. ASSUME answer' = answer PROVE PassIsWarranted' /\ BlockIsWarranted'
  BY <1>3 DEF PassIsWarranted, BlockIsWarranted, Given, StoppedLocally
<1>4. ASSUME NEW t \in Threads, BeginReload(t) \/ SetLevel(t) \/ Install(t) \/ FailReload(t)
      PROVE  answer' = answer
  BY <1>4 DEF BeginReload, SetLevel, Install, FailReload
<1>5. CASE EditFile \/ UNCHANGED vars
  BY <1>3, <1>5 DEF EditFile, vars
<1> QED
  BY <1>1, <1>2, <1>3, <1>4, <1>5 DEF Next

(* Whatever happens to the file, the reloads and the requests, what is     *)
(* answered has a reason in the document that was in use when the request  *)
(* came in, or in the rules the request sent: both the passes and the      *)
(* blocks (config.py:173-238, 345-473, composite.py:40-56,                 *)
(* protector.py:144, 162, 387-443, server.py:119-137).                     *)
THEOREM VerdictsAreWarranted == Spec => [](PassIsWarranted /\ BlockIsWarranted)
<1>1. Init => ServedInv /\ PassIsWarranted /\ BlockIsWarranted
  BY ServedInit DEF Init, PassIsWarranted, BlockIsWarranted, Given
<1>2. IInv /\ ServedInv /\ PassIsWarranted /\ BlockIsWarranted /\ [Next]_vars
        => (ServedInv /\ PassIsWarranted /\ BlockIsWarranted)'
  BY ServedNext, WarrantNext
<1> QED
  BY <1>1, <1>2, Invariance, PTL DEF Spec

(* A text passes only for a reason that file gives, its categories counting *)
(* as reasons only where the request sends no rules of its own.            *)
THEOREM PassesAreWarranted == Spec => []PassIsWarranted
BY VerdictsAreWarranted, PTL

(* A text is blocked only for its size, a detector or regex, a failure, or *)
(* an objection to a rule the request sent or else the file enables.       *)
THEOREM BlocksAreWarranted == Spec => []BlockIsWarranted
BY VerdictsAreWarranted, PTL

-----------------------------------------------------------------------------
(* The other way in, of callers that are not asynchronous.                 *)

LoopStates == {"starting", "running", "stopped"}

RunnerTypes ==
  /\ pc \in [Callers -> {"idle", "waiting", "alone", "returned", "timed_out"}]
  /\ loops \in Seq(LoopStates)
  /\ current \in 0..Len(loops)
  /\ home \in [Callers -> 0..Len(loops)]
  /\ work \in [Callers -> {"none", "queued", "running", "done", "cancelled"}]
  /\ cancelling \subseteq Callers

(* Work whose caller has given up and that has not come to an end.         *)
Abandoned(c) == pc[c] = "timed_out" /\ work[c] \notin {"done", "cancelled"}

(* A caller that waits was handed to a loop that nobody stops before the   *)
(* wait is over, and what may be cancelled is nobody's any more.           *)
RunnerInv ==
  /\ RunnerTypes
  /\ \A c \in Callers :
       /\ pc[c] = "waiting" => home[c] # 0 /\ loops[home[c]] # "stopped"
       /\ pc[c] = "idle" <=> work[c] = "none"
       /\ pc[c] = "returned" => work[c] = "done"
       /\ work[c] = "cancelled" => pc[c] = "timed_out"
       /\ c \in cancelling => pc[c] = "timed_out"
       /\ Abandoned(c) => c \in cancelling

LEMMA RunnerStarts == RunnerInit => RunnerInv
<1>1. <<>> \in Seq(LoopStates) /\ Len(<<>>) = 0
  OBVIOUS
<1> QED
  BY <1>1 DEF RunnerInit, RunnerInv, RunnerTypes, Abandoned

LEMMA RunnerSteps == RunnerInv /\ [RunnerNext]_runnerVars => RunnerInv'
<1> SUFFICES ASSUME RunnerInv, [RunnerNext]_runnerVars
             PROVE  RunnerInv'
  OBVIOUS
<1> USE DEF RunnerInv, RunnerTypes, Abandoned
<1>1. ASSUME NEW c \in Callers, RunAlone(c)
      PROVE  RunnerInv'
  BY <1>1 DEF RunAlone
<1>2. ASSUME NEW c \in Callers, Submit(c)
      PROVE  RunnerInv'
  <2>1. CASE LoopRuns
    BY <1>2, <2>1 DEF Submit, LoopRuns
  <2>2. CASE ~LoopRuns
    <3>1. /\ loops' \in Seq(LoopStates) /\ Len(loops') = Len(loops) + 1
          /\ loops'[Len(loops) + 1] = "starting"
          /\ \A l \in 1..Len(loops) : loops'[l] = loops[l]
      <4>1. loops' = Append(loops, "starting")
        BY <1>2, <2>2 DEF Submit
      <4>2. "starting" \in LoopStates
        BY DEF LoopStates
      <4> QED
        BY <4>1, <4>2, AppendProperties
    <3> QED
      BY <1>2, <2>2, <3>1 DEF Submit, NewLoop
  <2> QED
    BY <2>1, <2>2
<1>3. ASSUME NEW l \in 1..Len(loops), LoopStarts(l)
      PROVE  RunnerInv'
  BY <1>3 DEF LoopStarts, LoopStates
<1>4. ASSUME NEW c \in Callers, Begin(c) \/ Finish(c)
      PROVE  RunnerInv'
  BY <1>4 DEF Begin, Finish
<1>5. ASSUME NEW c \in Callers, TakeCancel(c)
      PROVE  RunnerInv'
  BY <1>5 DEF TakeCancel
<1>6. ASSUME NEW c \in Callers, GetResult(c)
      PROVE  RunnerInv'
  BY <1>6 DEF GetResult
<1>7. ASSUME NEW c \in Callers, TimeOut(c)
      PROVE  RunnerInv'
  BY <1>7 DEF TimeOut, MayTimeOut, WithCancel
<1>8. CASE Shutdown
  BY <1>8 DEF Shutdown, LoopRuns, LoopStates
<1>9. CASE UNCHANGED runnerVars
  BY <1>9 DEF runnerVars
<1> QED
  BY <1>1, <1>2, <1>3, <1>4, <1>5, <1>6, <1>7, <1>8, <1>9 DEF RunnerNext, AllEnded

(* Of every caller that waits the loop runs or is about to, and no result  *)
(* that someone waits for is lost (protector.py:796-805).                  *)
THEOREM RunnerForgetsNobody == RunnerSpec => []NobodyIsForgotten
<1>1. RunnerInit => RunnerInv
  BY RunnerStarts
<1>2. RunnerInv /\ [RunnerNext]_runnerVars => RunnerInv'
  BY RunnerSteps
<1>3. RunnerInv => NobodyIsForgotten
  BY DEF RunnerInv, NobodyIsForgotten
<1> QED
  BY <1>1, <1>2, <1>3, PTL DEF RunnerSpec

(* Whatever a caller has given up is over or is being cancelled on its     *)
(* loop: the safety half of AbandonedWorkEnds (protector.py:801-802).      *)
THEOREM RunnerCancelsAbandoned ==
  RunnerSpec => [](\A c \in Callers : Abandoned(c) => c \in cancelling)
<1>1. RunnerInit => RunnerInv
  BY RunnerStarts
<1>2. RunnerInv /\ [RunnerNext]_runnerVars => RunnerInv'
  BY RunnerSteps
<1>3. RunnerInv => \A c \in Callers : Abandoned(c) => c \in cancelling
  BY DEF RunnerInv
<1> QED
  BY <1>1, <1>2, <1>3, PTL DEF RunnerSpec
=============================================================================
