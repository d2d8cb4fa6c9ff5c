----------------------------- MODULE Transcripts -----------------------------
(***************************************************************************)
(* How the transcripts of an agent are read: the files are listed, parsed  *)
(* line by line unless they are cached, and each record is told once. The  *)
(* agent appends meanwhile, half a line at a time, moves finished files    *)
(* into its archive and removes old ones; a read that was timed out goes   *)
(* on beside the next one, with the same cache; and the daemon restarts.   *)
(*                                                                         *)
(* What an agent writes into a file is fixed from the start: a file is how *)
(* much of it has been appended, which is also what its size and time tell. *)
(***************************************************************************)
EXTENDS Integers, Sequences, FiniteSets

CONSTANTS
    Files,
    FileOrder,      \* the order in which a directory lists them
    Scripts,        \* [provider, lines, start]: what an agent writes into its files, and how
                    \* many lines it has written before the daemon starts
    CustomModels,   \* the domains of the models that the configuration of Grok names
    FamilyOf,       \* the family a model of Grok belongs to
    OfficialModels, \* the models named as those of Grok are
    Readers,        \* reads that may overlap
    MaxReads,       \* bound: reads
    MaxEvents,      \* bound: changes of the files, and failures to read them
    LastCutoff      \* bound: how far the lookback moves on

\* The lines of a file follow on one another in time, and every file is listed.
TranscriptsAssumption ==
    /\ \A s \in Scripts :
          /\ DOMAIN s.lines = Files /\ DOMAIN s.start = Files
          /\ \A f \in Files :
                /\ s.lines[f] \in Seq({s.lines[f][i] : i \in DOMAIN s.lines[f]})
                /\ s.start[f] \in 0 .. Len(s.lines[f])
                /\ \A i, j \in DOMAIN s.lines[f] :
                      /\ s.lines[f][i].at \in Int
                      /\ i <= j => s.lines[f][i].at <= s.lines[f][j].at
    /\ FileOrder \in Seq(Files)
    /\ \A f \in Files : \E i \in DOMAIN FileOrder : FileOrder[i] = f
ASSUME TranscriptsAssumption

VARIABLES
    script,         \* what is written
    appended,       \* how many lines of each file are, and whether half of another one is
    place,          \* where each file is: "sessions", "archive" or "removed"
    cutoff,
    fileCache,      \* #fileCache
    cacheLoaded,    \* #cacheLoaded
    config,         \* #grokCustomModels: "unread", "reading" or "read"
    cacheFile,      \* what is stored, or Unreadable
    reads,
    begun, events

agentVars == <<script, appended, place, cutoff>>
transcriptVars == <<agentVars, fileCache, cacheLoaded, config, cacheFile, reads, begun, events>>

Unreadable == [state |-> "unreadable"]
StoredCache(files) == [state |-> "stored", files |-> files]

-----------------------------------------------------------------------------
(* Parsing. A line is [kind, id, of, at]: what it is of depends on it.     *)

LastOf(lines, i, kind) ==
    LET before == {j \in 1 .. i : lines[j].kind = kind}
    IN  IF before = {} THEN 0 ELSE CHOOSE j \in before : \A k \in before : k <= j

Record(key, domain, line) ==
    [key |-> key, domain |-> domain, model |-> line.of, selected |-> "none", at |-> line.at]

\* The places of a set, one after the other.
InOrder(places) ==
    [k \in 1 .. Cardinality(places) |->
        CHOOSE i \in places : Cardinality({j \in places : j <= i}) = k]

\* Lines of a kind that carries usage become records.
Records(lines, IsRecord(_), RecordOf(_)) ==
    LET order == InOrder({i \in DOMAIN lines : IsRecord(i)})
    IN  [n \in DOMAIN order |-> RecordOf(order[n])]

IsUsage(lines, i) == lines[i].kind = "usage"

parseClaude(lines) ==
    Records(lines, LAMBDA i : IsUsage(lines, i),
            LAMBDA i : Record(lines[i].id, "subscription", lines[i]))

\* A rollout of Codex: a count is repeated until the next one, and a fork begins with a copy
\* of the counts of its parent, which follow on one another at once.
IsCount(lines, i) == IsUsage(lines, i) /\ LastOf(lines, i, "model") # 0

\* The signature is that of the last count.
IsRepeated(lines, i) ==
    LET previous == {j \in 1 .. i - 1 : IsCount(lines, j)}
    IN  \E j \in previous : lines[j].id = lines[i].id /\ \A k \in previous : k <= j

News(lines, i) == {j \in 1 .. i : IsCount(lines, j) /\ ~IsRepeated(lines, j)}

IsCopy(lines, i) ==
    LET anchor(j) == IF News(lines, j - 1) = {} THEN 1
                     ELSE CHOOSE k \in News(lines, j - 1) : \A l \in News(lines, j - 1) : l <= k
    IN  lines[1].kind = "fork" /\ \A j \in News(lines, i) : lines[j].at = lines[anchor(j)].at

parseCodex(lines) ==
    Records(lines, LAMBDA i : i \in News(lines, i) /\ ~IsCopy(lines, i),
            LAMBDA i : Record(<<lines[1].id, lines[i].at, lines[i].of, lines[i].id>>, "subscription",
                              lines[i]))

\* resolveGrokBillingDomain: a name that the configuration gives to an endpoint, and that was
\* selected, goes before the model that is reported of the same family.
GrokDomain(model, selected, customModels) ==
    IF selected \in DOMAIN customModels /\ FamilyOf[model] = FamilyOf[selected]
    THEN customModels[selected]
    ELSE IF model \in DOMAIN customModels THEN customModels[model]
    ELSE IF model \in OfficialModels THEN "grok-build-subscription" ELSE "custom"

Selected(lines, i) ==
    IF LastOf(lines, i, "model") = 0 THEN "none" ELSE lines[LastOf(lines, i, "model")].of

parseGrok(lines, customModels) ==
    Records(lines, LAMBDA i : IsUsage(lines, i),
            LAMBDA i : [Record(lines[i].id, GrokDomain(lines[i].of, Selected(lines, i),
                                                       customModels), lines[i])
                        EXCEPT !.selected = Selected(lines, i)])

\* A message of dsh names its route or has that of the last request.
Route(lines, i) ==
    IF lines[i].of # "none" THEN lines[i].of
    ELSE IF LastOf(lines, i, "model") # 0 THEN lines[LastOf(lines, i, "model")].of
    ELSE "deepseek-official"

parseDsh(lines) ==
    Records(lines, LAMBDA i : IsUsage(lines, i),
            LAMBDA i : Record(lines[i].id, Route(lines, i), lines[i]))

IsUnsupported(lines) == \E i \in DOMAIN lines : lines[i].kind = "version"

Parsed(lines, customModels) ==
    CASE script.provider = "claude-code" -> parseClaude(lines)
      [] script.provider = "codex" -> parseCodex(lines)
      [] script.provider = "grok" -> parseGrok(lines, customModels)
      [] OTHER -> parseDsh(lines)

\* What has been loaded of the configuration.
Loaded == IF config = "read" THEN CustomModels ELSE <<>>

\* A line that is half written is no record.
LinesOf(file, lines) == SubSeq(script.lines[file], 1, lines)
Exists(file) == appended[file] # [lines |-> 0, half |-> FALSE] /\ place[file] # "removed"
ModifiedAt(file) ==
    script.lines[file][appended[file].lines + (IF appended[file].half THEN 1 ELSE 0)].at

-----------------------------------------------------------------------------
NotReading == [step |-> "none", rebuild |-> FALSE, next |-> 1, files |-> <<>>, kept |-> <<>>,
               complete |-> TRUE, told |-> <<>>, cutoff |-> 0, since |-> <<>>, early |-> FALSE]

TranscriptsInit ==
    /\ script \in Scripts
    /\ appended = [f \in Files |-> [lines |-> script.start[f], half |-> FALSE]]
    /\ place = [f \in Files |-> "sessions"]
    /\ cutoff = 0
    /\ fileCache = <<>> /\ cacheLoaded = FALSE /\ config = "unread"
    /\ cacheFile = StoredCache(<<>>)
    /\ reads = [r \in Readers |-> NotReading]
    /\ begun = 0 /\ events = 0

readVars == <<fileCache, cacheLoaded, config, cacheFile, reads, begun>>

(* The agent and its files.                                                *)

Happens == events < MaxEvents /\ events' = events + 1

\* A file that was moved is not written any more.
Write(file) ==
    /\ Happens
    /\ place[file] = "sessions" /\ appended[file].lines < Len(script.lines[file])
    /\ \E half \in BOOLEAN :
          /\ half => ~appended[file].half
          /\ appended' = [appended EXCEPT ![file] =
                            [half |-> half, lines |-> IF half THEN @.lines ELSE @.lines + 1]]
    /\ UNCHANGED <<script, place, cutoff>> /\ UNCHANGED readVars

Archive(file) ==
    /\ Happens
    /\ script.provider = "codex" /\ Exists(file) /\ place[file] = "sessions"
    /\ place' = [place EXCEPT ![file] = "archive"]
    /\ UNCHANGED <<script, appended, cutoff>> /\ UNCHANGED readVars

RemoveFile(file) ==
    /\ Happens
    /\ Exists(file)
    /\ place' = [place EXCEPT ![file] = "removed"]
    /\ UNCHANGED <<script, appended, cutoff>> /\ UNCHANGED readVars

LookbackMoves ==
    /\ Happens
    /\ cutoff < LastCutoff
    /\ cutoff' = cutoff + 1
    /\ UNCHANGED <<script, appended, place>> /\ UNCHANGED readVars

-----------------------------------------------------------------------------
(* A read.                                                                 *)

At(r, step) == reads[r].step = step
Changed(r, read) == reads' = [reads EXCEPT ![r] = read]

\* What follows once the cache has been loaded, with what is cached by then.
ListsFiles(r, read, cached) ==
    /\ Changed(r, [read EXCEPT !.step = "sessions", !.cutoff = cutoff,
                               !.early = config' = "reading"])
    /\ fileCache' = IF read.rebuild THEN <<>> ELSE cached

\* The first read loads the cache, and the others do not wait for it.
LoadsCache(r, read) ==
    IF cacheLoaded THEN ListsFiles(r, read, fileCache) /\ UNCHANGED cacheLoaded
    ELSE /\ cacheLoaded' = TRUE
         /\ Changed(r, [read EXCEPT !.step = "cache"])
         /\ UNCHANGED fileCache

BeginRead(r, rebuild) ==
    /\ At(r, "none") /\ begun < MaxReads
    /\ begun' = begun + 1
    /\ LET read == [NotReading EXCEPT !.rebuild = rebuild, !.since = appended]
       IN  IF script.provider = "grok" /\ config = "unread"
           THEN /\ config' = "reading"
                /\ Changed(r, [read EXCEPT !.step = "config"])
                /\ UNCHANGED <<fileCache, cacheLoaded>>
           ELSE UNCHANGED config /\ LoadsCache(r, read)
    /\ UNCHANGED <<agentVars, cacheFile, events>>

ReadConfig(r) ==
    /\ At(r, "config")
    /\ config' = "read"
    /\ LoadsCache(r, reads[r])
    /\ UNCHANGED <<agentVars, cacheFile, begun, events>>

\* What is stored is added to what is cached.
LoadCache(r) ==
    /\ At(r, "cache")
    /\ UNCHANGED <<agentVars, cacheLoaded, config, cacheFile, begun, events>>
    /\ LET kept == IF cacheFile = Unreadable THEN <<>> ELSE cacheFile.files
       IN  ListsFiles(r, reads[r], [p \in DOMAIN kept \cup DOMAIN fileCache |->
                                     IF p \in DOMAIN kept THEN kept[p] ELSE fileCache[p]])

PathsOf(files) == {<<files[i].place, files[i].file>> : i \in DOMAIN files}

\* A directory is listed. A file that is gone before its size is known, and a directory that
\* cannot be listed, are gaps; when all have been, the cache of other files is dropped.
ListRoot(r, root) ==
    /\ At(r, root)
    /\ \E gaps \in SUBSET {f \in Files : Exists(f) /\ place[f] = root} :
          LET isFound(f) == /\ Exists(f) /\ place[f] = root
                            /\ f \notin gaps
                            /\ ModifiedAt(f) >= reads[r].cutoff
              found == InOrder({i \in DOMAIN FileOrder : isFound(FileOrder[i])})
              entry(f) == [place |-> root, file |-> f, stamp |-> appended[f]]
              files == reads[r].files \o [n \in DOMAIN found |-> entry(FileOrder[found[n]])]
          IN  /\ IF gaps = {} THEN UNCHANGED events ELSE Happens
              /\ Changed(r, [reads[r] EXCEPT !.files = files, !.complete = @ /\ gaps = {},
                                !.step = IF root = "sessions" THEN "archive" ELSE "next"])
              /\ fileCache' = IF root = "sessions" THEN fileCache
                              ELSE [p \in DOMAIN fileCache \cap PathsOf(files) |-> fileCache[p]]
    /\ UNCHANGED <<agentVars, cacheLoaded, config, cacheFile, begun>>

\* Faulty variant: a cached file is not looked at again.
CachedForGood(path, stamp) == path \in DOMAIN fileCache

IsCached(path, stamp) == path \in DOMAIN fileCache /\ fileCache[path].stamp = stamp

\* Records of Grok get the domain the configuration gives them now.
Remapped(records) ==
    IF script.provider # "grok" THEN records
    ELSE [i \in DOMAIN records |->
            [records[i] EXCEPT !.domain = GrokDomain(records[i].model, records[i].selected,
                                                     Loaded)]]

\* Records within the lookback are told unless one of their key has been.
Tells(read, records) ==
    LET recent == {i \in DOMAIN records : records[i].at >= read.cutoff}
        fresh == InOrder({i \in recent :
                    /\ \A n \in DOMAIN read.told : read.told[n].key # records[i].key
                    /\ \A j \in recent : j < i => records[j].key # records[i].key})
    IN  [read EXCEPT !.told = @ \o [n \in DOMAIN fresh |-> records[fresh[n]]],
                     !.step = "next", !.next = @ + 1]

\* The next file is told from the cache, or opened.
OpenFile(r) ==
    /\ At(r, "next") /\ reads[r].next <= Len(reads[r].files)
    /\ LET entry == reads[r].files[reads[r].next]
           path == <<entry.place, entry.file>>
           cached == IF path \in DOMAIN fileCache THEN fileCache[path].records ELSE <<>>
       IN  Changed(r, IF IsCached(path, entry.stamp) THEN Tells(reads[r], Remapped(cached))
                      ELSE [reads[r] EXCEPT !.step = "file", !.kept = cached])
    /\ UNCHANGED <<agentVars, fileCache, cacheLoaded, config, cacheFile, begun, events>>

\* A file that cannot be read tells what was cached of it, and one of an unknown version
\* nothing; neither is cached.
ReadFile(r, fails) ==
    /\ At(r, "file")
    /\ LET entry == reads[r].files[reads[r].next]
           path == <<entry.place, entry.file>>
           lines == LinesOf(entry.file, appended[entry.file].lines)
           records == Parsed(lines, Loaded)
           isThere == place[entry.file] = entry.place
           gap == [reads[r] EXCEPT !.complete = FALSE]
       IN  /\ IF fails THEN isThere /\ Happens ELSE UNCHANGED events
           /\ IF fails \/ ~isThere
              THEN Changed(r, Tells(gap, reads[r].kept)) /\ UNCHANGED fileCache
              ELSE IF IsUnsupported(lines)
              THEN Changed(r, Tells(gap, <<>>)) /\ UNCHANGED fileCache
              ELSE /\ Changed(r, Tells(reads[r], records))
                   /\ fileCache' = [p \in DOMAIN fileCache \cup {path} |->
                                       IF p = path THEN [stamp |-> entry.stamp, records |-> records]
                                       ELSE fileCache[p]]
    /\ UNCHANGED <<agentVars, cacheLoaded, config, cacheFile, begun>>

HasToldAll(r) == At(r, "next") /\ reads[r].next > Len(reads[r].files)

\* The cache is stored, or is not, and the read is answered; two reads write it by way of the
\* same file.
PersistCache(r) ==
    /\ HasToldAll(r)
    /\ Changed(r, NotReading)
    /\ cacheFile' \in {StoredCache(fileCache), cacheFile} \cup
                       (IF \E q \in Readers \ {r} : HasToldAll(q) THEN {Unreadable} ELSE {})
    /\ UNCHANGED <<agentVars, fileCache, cacheLoaded, config, begun, events>>

\* The daemon ends and starts again.
RestartReader ==
    /\ fileCache' = <<>> /\ cacheLoaded' = FALSE /\ config' = "unread"
    /\ reads' = [r \in Readers |-> NotReading]
    /\ UNCHANGED <<agentVars, cacheFile, begun, events>>

TranscriptsNext ==
    \/ \E f \in Files : Write(f) \/ Archive(f) \/ RemoveFile(f)
    \/ LookbackMoves
    \/ \E r \in Readers :
          \/ \E rebuild \in BOOLEAN : BeginRead(r, rebuild)
          \/ ReadConfig(r) \/ LoadCache(r) \/ OpenFile(r) \/ PersistCache(r)
          \/ \E root \in {"sessions", "archive"} : ListRoot(r, root)
          \/ \E fails \in BOOLEAN : ReadFile(r, fails)
    \/ RestartReader

TranscriptsSpec == TranscriptsInit /\ [][TranscriptsNext]_transcriptVars

-----------------------------------------------------------------------------
(* Properties.                                                             *)

\* An answer that is called complete, and by which what was stored of other usage is retired,
\* tells everything that was in the files when the read began, each record once and as the
\* file tells it: whatever was cached, added, moved or read at the same time, no record is
\* missed and none is told of a domain that it is not of. Only where the configuration was
\* still being read by another read are domains of Grok wrong.
CompleteAnswersTellTheFiles ==
    \A r \in Readers : HasToldAll(r) /\ reads[r].complete =>
        LET read == reads[r]
            told == {read.told[i] : i \in DOMAIN read.told}
            recordsOf(f, lines) ==
                LET parsed == Parsed(LinesOf(f, lines), CustomModels)
                IN  {parsed[i] : i \in DOMAIN parsed}
            all == UNION {recordsOf(f, appended[f].lines) : f \in Files}
        IN  /\ Cardinality({x.key : x \in told}) = Len(read.told)
            /\ \A f \in {g \in Files : place[g] # "removed"} :
                  \A x \in recordsOf(f, read.since[f].lines) :
                      x.at >= read.cutoff => \E y \in told : y.key = x.key
            /\ \A x \in told : \E y \in all : x = y \/ (read.early /\ x.key = y.key)
=============================================================================
