---------------------------- MODULE CodexContext ----------------------------
(***************************************************************************)
(* AGENTS.md directives: the parser with its cache in instructions.db       *)
(* (src/instructions/parser.ts), and the builder of the context attached to *)
(* prompts with its cache in the memory of the process                      *)
(* (src/cli/codex-context.ts).  Terminals run `instructions sync`,          *)
(* `validate`, `cache --clear` and commands with `--codex`, each in a       *)
(* process of its own; consoles are long-lived and build contexts for the   *)
(* prompts of the menu.  Editors change the files at any moment: each read  *)
(* of a guide by the parser is a step of its own; a walk of the tree        *)
(* (scanRepository, loadAgentGuides) takes them all in one, as nothing is   *)
(* said of two guides at the same time.                                     *)
(* One repository root; an artifact is a .codex* directory or a database.   *)
(***************************************************************************)
EXTENDS Sorting, FiniteSetsExt, SequencesExt

CONSTANTS
    Terminals, Consoles,
    ByPath,       \* the places an AGENTS.md may be in, in the order of their paths
    Depth,        \* [place -> directories below the root]
    Readme, Artifacts,  \* the other files a context is built from
    Contents,     \* what may be written to a file: [flaws, size]
    Scenes,       \* of a behaviour: what the files hold at first, the ones edited, what is typed
    Ttl,          \* validity of a cached row (one hour)
    West,         \* hours the local clock is behind UTC
    AgentLimit,   \* MAX_AGENT_BYTES
    MaxTime,      \* bound of the clock
    MaxEdits,     \* edits in a behaviour
    MaxStarts     \* commands and prompts in a behaviour

VARIABLES
    writes,   \* [file -> what was written to it, oldest first: [content, at]]
    rows,     \* instruction_cache: at most one row for each content
    now,      \* the clock; every write takes a moment of its own
    proc,     \* what each terminal and each console is doing
    scene,    \* the scene of the behaviour
    starts,   \* how often one was given something to do
    memory    \* contextCache of each console

codexVars == <<writes, rows, now, proc, scene, starts, memory>>

Guides == Range(ByPath)
Flaws == {"empty", "header", "fence", "plain"}    \* what a validation may find
ContextFiles == Guides \cup {Readme} \cup Artifacts
Absent == [flaws |-> {"absent"}, size |-> 0]

ASSUME CodexAssumption ==
    /\ Terminals \cap Consoles = {}
    /\ MaxTime \in Nat \ {0} /\ Ttl \in Nat /\ West \in Int
    /\ ByPath \in Seq(Range(ByPath))
    /\ \A content \in Contents : content.flaws \subseteq Flaws
    /\ Scenes # {}
    /\ \A sc \in Scenes :
          /\ sc.edited \subseteq ContextFiles
          /\ \A f \in ContextFiles : sc.first[f] = Absent \/ sc.first[f].flaws \subseteq Flaws

Rest == [pc |-> "rest"]
Disk(f) == Last(writes[f]).content
Stat(f) == Last(writes[f]).at
There(f) == Disk(f) # Absent

-----------------------------------------------------------------------------
(* Directives.                                                              *)
DeterminePrecedence(g) == IF Depth[g] = 0 THEN 0 ELSE IF Depth[g] <= 2 THEN 1 ELSE IF Depth[g] <= 4 THEN 2 ELSE 3
\* Sorted by precedence, those of one precedence by path.
InPrecedence(guides) ==
    Ranked(ByPath, [k \in {i \in DOMAIN ByPath : ByPath[i] \in guides} |-> -DeterminePrecedence(ByPath[k])])
Sound(content) == content.flaws \cap Flaws = {}
Read(guides) == [k \in DOMAIN guides |-> [guide |-> guides[k], content |-> Disk(guides[k])]]
Those(guides, kept) == InOrder(guides, {k \in DOMAIN guides : guides[k] \in kept})
Reachable(guides) == Those(guides, {g \in Guides : There(g)})

\* The row a lookup finds is one of the newest; SQLite keeps the creation time in UTC, and the
\* parser reads it as local time.
NewestRows == {r \in rows : \A q \in rows : q.at <= r.at}
Expired_Never(row) == FALSE
Expired(row) == now - (row.at + West) > Ttl

CodexStart(sc) ==
    /\ scene = sc
    /\ writes = [f \in ContextFiles |-> <<[content |-> scene.first[f], at |-> 0]>>]
    /\ rows = {}
    /\ now = 1
    /\ proc = [p \in Terminals \cup Consoles |-> Rest]
    /\ starts = 0
    /\ memory = [c \in Consoles |-> <<>>]
CodexInit == \E sc \in Scenes : CodexStart(sc)

Passes == now' = now + 1
Goes(p, pc) == proc' = [proc EXCEPT ![p].pc = pc]
stores == <<writes, rows, now, scene, starts>>

EditsMade == FoldSet(LAMBDA f, sum : sum + Len(writes[f]) - 1, 0, ContextFiles)
\* Somebody edits, creates or deletes a file.
Edits(f, content) ==
    /\ now < MaxTime /\ EditsMade < MaxEdits
    /\ content # Disk(f)
    /\ Passes
    /\ writes' = [writes EXCEPT ![f] = Append(@, [content |-> content, at |-> now'])]
    /\ UNCHANGED <<rows, proc, scene, starts, memory>>
Ticks ==
    /\ now < MaxTime
    /\ Passes
    /\ UNCHANGED <<writes, rows, proc, scene, starts, memory>>

\* A command is typed; `sync` ("cached") and `--codex` ("codex") use the cache, `sync --no-cache` and
\* `validate` do not.
Cached == {"cached", "codex"}
Starts(p, kind) ==
    /\ proc[p] = Rest
    /\ starts < MaxStarts
    /\ starts' = starts + 1
    /\ proc' = [proc EXCEPT ![p] = [pc |-> IF kind \in Cached THEN "lookup"
                                            ELSE IF kind = "clear" THEN "clear" ELSE "scan",
                                     kind |-> kind, began |-> now]]
    /\ UNCHANGED <<writes, rows, now, scene, memory>>
\* `instructions cache --clear`.
Clears(p) ==
    /\ proc[p].pc = "clear"
    /\ rows' = {}
    /\ proc' = [proc EXCEPT ![p] = Rest]
    /\ UNCHANGED <<writes, now, scene, starts, memory>>

\* getCachedInstructions.
Replies(p, answer) ==
    proc' = [proc EXCEPT ![p] = [pc |-> "answered", kind |-> @.kind, began |-> @.began, answer |-> answer]]
Fresh(p, segments) == [segments |-> segments, began |-> proc[p].began, at |-> now]
LooksUp(p) ==
    /\ proc[p].pc = "lookup"
    /\ \/ \E row \in NewestRows : ~Expired(row) /\ Replies(p, row)
       \/ (rows = {} \/ \E row \in NewestRows : Expired(row)) /\ Goes(p, "scan")
    /\ UNCHANGED <<stores, memory>>
\* Without any guide the defaults are the answer, and are not cached.
Scans(p) ==
    /\ proc[p].pc = "scan"
    /\ LET found == {g \in Guides : There(g)} IN
       IF found = {} THEN Replies(p, Fresh(p, <<>>))
       ELSE proc' = [proc EXCEPT ![p] = [pc |-> "validate", kind |-> @.kind, began |-> @.began,
                                         guides |-> InPrecedence(found), valid |-> <<>>]]
    /\ UNCHANGED <<stores, memory>>
\* validateInstructions: the files are read again, one after the other.
Validates(p) ==
    /\ proc[p].pc = "validate" /\ proc[p].guides # <<>>
    /\ LET g == Head(proc[p].guides) IN
       proc' = [proc EXCEPT ![p].guides = Tail(@),
                            ![p].valid = IF There(g) /\ Sound(Disk(g)) THEN Append(@, g) ELSE @]
    /\ UNCHANGED <<stores, memory>>
Validated(p) ==
    /\ proc[p].pc = "validate" /\ proc[p].guides = <<>>
    /\ proc' = [proc EXCEPT ![p] = [pc |-> "build", kind |-> @.kind, began |-> @.began,
                                    guides |-> @.valid, segments |-> <<>>]]
    /\ UNCHANGED <<stores, memory>>
\* buildInstructionContext: those that were valid are read once more; one that has vanished since is
\* left out.
Includes(p) ==
    /\ proc[p].pc = "build" /\ proc[p].guides # <<>>
    /\ LET g == Head(proc[p].guides) IN
       proc' = [proc EXCEPT ![p].guides = Tail(@),
                            ![p].segments = IF There(g) THEN Append(@, [guide |-> g, content |-> Disk(g)]) ELSE @]
    /\ UNCHANGED <<stores, memory>>
Builds(p) ==
    /\ proc[p].pc = "build" /\ proc[p].guides = <<>>
    /\ IF proc[p].kind \in Cached
       THEN proc' = [proc EXCEPT ![p] = [pc |-> "store", kind |-> @.kind, began |-> @.began,
                                         segments |-> @.segments]]
       ELSE Replies(p, Fresh(p, proc[p].segments))
    /\ UNCHANGED <<stores, memory>>
\* cacheInstructions.
Stores(p) ==
    /\ proc[p].pc = "store"
    /\ LET mine == Fresh(p, proc[p].segments) IN
       /\ rows' = {r \in rows : r.segments # mine.segments} \cup {mine}
       /\ Replies(p, mine)
    /\ UNCHANGED <<writes, now, scene, starts, memory>>
\* An error of instructions.db rejects the parse: `sync` reports it, `--codex` falls back to the legacy
\* parser (withEnhancedAgentDirectives).  A process that is stopped has changed nothing.
Fails(p) ==
    /\ proc[p].pc \in {"lookup", "store"}
    /\ proc' = [proc EXCEPT ![p] = IF @.kind = "codex"
                                   THEN [pc |-> "legacy", kind |-> "legacy", began |-> @.began] ELSE Rest]
    /\ UNCHANGED <<stores, memory>>

-----------------------------------------------------------------------------
(* Contexts of a console: withLegacyAgentDirectives, withReadmeExcerpts,    *)
(* withDirectoryInventory and withDatabaseMetadata, then build, which takes *)
(* the cached context instead when no file of it has changed.               *)
\* What is watched twice is what was seen later.
Over(later, earlier) ==
    [f \in DOMAIN later \cup DOMAIN earlier |-> IF f \in DOMAIN later THEN later[f] ELSE earlier[f]]
Watch(files) == [f \in {g \in files : There(g)} |-> [at |-> Stat(f), size |-> Disk(f).size]]
Unchanged_Size(watches) == \A f \in DOMAIN watches : There(f) /\ Disk(f).size = watches[f].size
Unchanged(watches) ==
    \A f \in DOMAIN watches : There(f) /\ Stat(f) = watches[f].at /\ Disk(f).size = watches[f].size
\* Guides beyond the limit are left out; the one that crosses it is cut.
SizeOf(guides) == FoldLeft(LAMBDA sum, s : sum + s.content.size, 0, guides)
Fitting(found) == {k \in DOMAIN found : SizeOf(SubSeq(found, 1, k - 1)) < AgentLimit}
Kept(found) == InOrder(found, Fitting(found))

Notes(c, pc, watches) ==
    proc' = [proc EXCEPT ![c] = [pc |-> pc, began |-> @.began, found |-> @.found,
                                 watches |-> Over(watches, @.watches)]]
Known(c) == {s.guide : s \in Range(proc[c].found)}
ReadsGuides(c) ==
    /\ proc[c].pc = "scan"
    /\ proc' = [proc EXCEPT ![c] = [pc |-> "watch", began |-> @.began, watches |-> <<>>,
                                    found |-> Read(Reachable(ByPath))]]
    /\ UNCHANGED <<stores, memory>>
\* withLegacyAgentDirectives of a terminal: what is found is the answer, valid or not.
FallsBack(p) ==
    /\ proc[p].pc = "legacy"
    /\ Replies(p, Fresh(p, Kept(Read(Reachable(ByPath)))))
    /\ UNCHANGED <<stores, memory>>
\* trackWatch, after the whole tree has been walked.
WatchesGuides(c) ==
    /\ proc[c].pc = "watch"
    /\ Notes(c, "readme", Watch({s.guide : s \in Range(Kept(proc[c].found))}))
    /\ UNCHANGED <<stores, memory>>
ReadsReadme(c) ==
    /\ proc[c].pc = "readme"
    /\ Notes(c, "artifacts", Watch({Readme}))
    /\ UNCHANGED <<stores, memory>>
FindsArtifacts(c) ==
    /\ proc[c].pc = "artifacts"
    /\ Notes(c, "finish", Watch(Artifacts))
    /\ UNCHANGED <<stores, memory>>
\* getCachedContext.
StillStands(c) == \E cached \in Range(memory[c]) : Unchanged(cached.watches)
\* The context that was just put together is dropped when the cached one still stands.
TakesCached(c) ==
    /\ proc[c].pc = "finish"
    /\ StillStands(c)
    /\ proc' = [proc EXCEPT ![c] = [pc |-> "built", segments |-> memory[c][1].segments]]
    /\ UNCHANGED <<stores, memory>>
\* collectWatches looks at the guides and the README once more.
Caches(c) ==
    /\ proc[c].pc = "finish"
    /\ ~StillStands(c)
    /\ LET again == Known(c) \cup ({Readme} \cap DOMAIN proc[c].watches) IN
       memory' = [memory EXCEPT ![c] = <<[segments |-> Kept(proc[c].found), began |-> proc[c].began,
                                          ended |-> now, watches |-> Over(Watch(again), proc[c].watches)]>>]
    /\ proc' = [proc EXCEPT ![c] = [pc |-> "built", segments |-> Kept(@.found)]]
    /\ UNCHANGED stores

Closes(p) ==
    /\ proc[p].pc \in {"answered", "built"}
    /\ proc' = [proc EXCEPT ![p] = Rest]
    /\ UNCHANGED <<stores, memory>>
\* A console that is stopped loses its memory.
Restarts(c) ==
    /\ memory[c] # <<>>
    /\ proc' = [proc EXCEPT ![c] = Rest]
    /\ memory' = [memory EXCEPT ![c] = <<>>]
    /\ UNCHANGED stores

CodexStep ==
    \/ \E f \in scene.edited, content \in Contents \cup {Absent} : Edits(f, content)
    \/ Ticks
    \/ \E p \in Terminals :
          \/ \E kind \in scene.typed \ {"prompt"} : Starts(p, kind)
          \/ Clears(p) \/ LooksUp(p) \/ Scans(p)
          \/ Validates(p) \/ Validated(p) \/ Includes(p) \/ Builds(p)
          \/ Stores(p) \/ Fails(p) \/ FallsBack(p)
    \/ \E c \in Consoles : \/ "prompt" \in scene.typed /\ Starts(c, "prompt")
                           \/ ReadsGuides(c) \/ WatchesGuides(c) \/ ReadsReadme(c) \/ FindsArtifacts(c)
                           \/ TakesCached(c) \/ Caches(c) \/ Restarts(c)
    \/ \E p \in Terminals \cup Consoles : Closes(p)

CodexSpec == CodexInit /\ [][CodexStep]_codexVars

-----------------------------------------------------------------------------
\* The moment a write was replaced, or never.
Until(f, k) == IF k = Len(writes[f]) THEN MaxTime + 1 ELSE writes[f][k + 1].at
Held(f, content, since) ==
    \E k \in DOMAIN writes[f] : writes[f][k].content = content /\ Until(f, k) > since

\* Every segment of an answer was in its file at some moment since the parse that read it began,
\* and unless the command has read the files itself, that parse had ended within the validity of
\* a row before it was typed; however many commands, clears and edits were interleaved.
Answered(p) == p \in Terminals /\ proc[p].pc = "answered"
SegmentsWereThere ==
    \A p \in Terminals : Answered(p) =>
        /\ \A s \in Range(proc[p].answer.segments) : Held(s.guide, s.content, proc[p].answer.began)
        /\ proc[p].began - proc[p].answer.at <= Ttl

\* A file that is not sound gets into the directives only when it was, or was not yet, what has
\* been validated: a sound one was replaced by it during the parse; or the parse failed, and the
\* legacy parser, which validates nothing, took its place.
UnsoundOnlyByRace ==
    \A p \in Terminals : Answered(p) /\ proc[p].kind # "legacy" =>
        \A s \in Range(proc[p].answer.segments) :
            s.content.flaws # {} =>
                \E k \in DOMAIN writes[s.guide] :
                    writes[s.guide][k].content.flaws = {} /\ Until(s.guide, k) \in proc[p].answer.began..proc[p].answer.at

\* A prompt's context taken from memory holds what its guides hold now, unless one was edited
\* while that context was being built or the prompt's own context was.
EditedIn(f, from, to) == \E k \in DOMAIN writes[f] : writes[f][k].at \in (from + 1)..to
MemoryIsCurrent ==
    [][\A c \in Consoles :
          TakesCached(c) =>
              \A s \in Range(memory[c][1].segments) :
                  Disk(s.guide) = s.content \/ EditedIn(s.guide, memory[c][1].began, memory[c][1].ended)]_codexVars

\* "`codex-synaptic instructions sync` after you edit any AGENTS.md file": the directives are
\* then those of the files, unless one was edited since the command was typed.
SyncSeesEdits ==
    \A p \in Terminals : Answered(p) /\ proc[p].kind = "cached" =>
        \A s \in Range(proc[p].answer.segments) :
            s.content = Disk(s.guide) \/ EditedIn(s.guide, proc[p].began, now)

\* What a prompt is given was in a guide within the validity of the cache, and was valid there unless
\* the guide was edited during the parse or the cache failed (InstructionParser).
GuidesAreSound == SegmentsWereThere /\ UnsoundOnlyByRace
=============================================================================
