-------------------------- MODULE CodexPassthrough --------------------------
(***************************************************************************)
(* `codex-synaptic --codex <command>` (src/cli/codex-passthrough.ts,         *)
(* src/cli/codex-guidance.ts): a context is built, five files are written    *)
(* in place under .codex-synaptic, an executable is looked for, and          *)
(* instructions that name both are printed.  Several terminals share the     *)
(* files.                                                                    *)
(***************************************************************************)
EXTENDS Naturals, Integers, Sequences, FiniteSets

CONSTANTS
    Terminals,
    Installations,   \* [path, npx, strategy]: versions of the binaries in PATH order and of npx;
                     \* <<>> is an unknown version, npx is a sequence of at most one version
    Changes,         \* pairs of installations, one taking the place of the other meanwhile
    Fragile          \* documents whose writing may fail

Versions == {<<>>} \cup (Nat \X Nat \X Nat)

ASSUME PassthroughAssumption ==
    /\ Installations # {}
    /\ \A x \in Installations :
          x.path \in Seq(Versions) /\ x.npx \in Seq(Versions) /\ Len(x.npx) <= 1

Documents == <<"toolkit", "handbook", "context", "prompt", "enriched">>
Repl == {"prompt", "enriched"}

VARIABLES
    installed,    \* an installation
    phase,        \* [Terminals -> "idle", "building", "opening", "writing", "resolving", "over", "failed"]
    preview,      \* [Terminals -> BOOLEAN]: --dry-run
    item,         \* [Terminals -> number of the document it is at]
    documents,    \* [documents -> terminal whose content it holds, "none", "empty" or "mixed"]
    named,        \* [Terminals -> documents its instructions name]
    version,      \* [Terminals -> <<version>> of the executable named, <<>> for none]
    alone         \* [Terminals -> no other terminal has been at work since it started]

passthroughVars == <<installed, phase, preview, item, documents, named, version, alone>>

-----------------------------------------------------------------------------
(* resolveCodexExecutable.                                                  *)
Newer(a, b) ==
    /\ a # <<>>
    /\ b = <<>> \/ \E i \in 1..3 : a[i] > b[i] /\ \A j \in 1..(i - 1) : a[j] = b[j]
Best_InPathOrder(path) == path[1]
\* The first of the newest binaries, or npx when that is newer still.
Best(path) ==
    path[CHOOSE i \in DOMAIN path : \A j \in DOMAIN path :
            ~Newer(path[j], path[i]) /\ (j < i => Newer(path[i], path[j]))]
Resolved(x) ==
    IF x.strategy = "npx" \/ x.path = <<>> THEN x.npx
    ELSE IF x.npx # <<>> /\ Newer(x.npx[1], Best(x.path)) THEN x.npx
    ELSE <<Best(x.path)>>

-----------------------------------------------------------------------------
PassthroughStart(x) ==
    /\ installed = x
    /\ phase = [t \in Terminals |-> "idle"] /\ preview = [t \in Terminals |-> FALSE]
    /\ item = [t \in Terminals |-> 1]
    /\ documents = [d \in {Documents[i] : i \in DOMAIN Documents} |-> "none"]
    /\ named = [t \in Terminals |-> {}] /\ version = [t \in Terminals |-> <<>>]
    /\ alone = [t \in Terminals |-> FALSE]

Busy == {t \in Terminals : phase[t] \notin {"idle", "over", "failed"}}

\* main: without an executable only a dry run goes on.
StartsPassthrough(t, dry) ==
    /\ phase[t] = "idle"
    /\ preview' = [preview EXCEPT ![t] = dry]
    /\ phase' = [phase EXCEPT ![t] = IF dry \/ Resolved(installed) # <<>> THEN "building" ELSE "failed"]
    /\ alone' = IF phase'[t] = "failed" THEN alone
                ELSE [u \in Terminals |-> IF u = t THEN Busy = {} ELSE alone[u] /\ u \notin Busy]
    /\ UNCHANGED <<installed, item, documents, named, version>>

BuildsContext(t) ==
    /\ phase[t] = "building"
    /\ \E next \in {"opening", "failed"} : phase' = [phase EXCEPT ![t] = next]
    /\ UNCHANGED <<installed, preview, item, documents, named, version, alone>>

Goes(t, i) ==
    /\ item' = [item EXCEPT ![t] = i]
    /\ phase' = [phase EXCEPT ![t] = IF i <= Len(Documents) THEN "opening"
                                     ELSE IF preview[t] THEN "over" ELSE "resolving"]

\* A document that cannot be written is not named; of the two REPL documents, neither is.
Misses(t) ==
    /\ Documents[item[t]] \in Fragile
    /\ IF Documents[item[t]] \in Repl
       THEN named' = [named EXCEPT ![t] = @ \ Repl] /\ Goes(t, Len(Documents) + 1)
       ELSE UNCHANGED named /\ Goes(t, item[t] + 1)

\* writeFile empties the file, then writes it from the start.
OpensDocument(t) ==
    /\ phase[t] = "opening"
    /\ \/ /\ documents' = [documents EXCEPT ![Documents[item[t]]] = "empty"]
          /\ phase' = [phase EXCEPT ![t] = "writing"]
          /\ UNCHANGED <<item, named>>
       \/ Misses(t) /\ UNCHANGED documents
    /\ UNCHANGED <<installed, preview, version, alone>>

WritesDocument(t) ==
    /\ phase[t] = "writing"
    /\ LET d == Documents[item[t]]
       IN  \/ /\ \E content \in {t} \cup (IF documents[d] = "empty" THEN {} ELSE {"mixed"}) :
                    documents' = [documents EXCEPT ![d] = content]
              /\ named' = IF preview[t] /\ d \in Repl THEN named ELSE [named EXCEPT ![t] = @ \cup {d}]
              /\ Goes(t, item[t] + 1)
           \/ Misses(t) /\ UNCHANGED documents
    /\ UNCHANGED <<installed, preview, version, alone>>

\* The executable is looked for a second time: it may be gone by now.
PrintsInstructions(t) ==
    /\ phase[t] = "resolving"
    /\ version' = [version EXCEPT ![t] = Resolved(installed)]
    /\ phase' = [phase EXCEPT ![t] = IF Resolved(installed) = <<>> THEN "failed" ELSE "over"]
    /\ UNCHANGED <<installed, preview, item, documents, named, alone>>

Installs ==
    /\ \E x \in Installations : <<installed, x>> \in Changes /\ installed' = x
    /\ UNCHANGED <<phase, preview, item, documents, named, version, alone>>

TerminalStep(t) == BuildsContext(t) \/ OpensDocument(t) \/ WritesDocument(t) \/ PrintsInstructions(t)
PassthroughStep ==
    Installs \/ \E t \in Terminals : TerminalStep(t) \/ \E dry \in BOOLEAN : StartsPassthrough(t, dry)

TerminalsAtRest == \A t \in Terminals : phase[t] \in {"idle", "over", "failed"}

-----------------------------------------------------------------------------
(* Properties.                                                              *)

\* The instructions of a command that had the files to itself name only files that hold what it
\* wrote, and an executable none of those installed is newer than; a command that shared them can
\* at least rely on its executable (executeCodexPassthrough, resolveCodexExecutable).
Usable(x) == (IF x.strategy = "npx" THEN {} ELSE {x.path[i] : i \in DOMAIN x.path})
             \cup {x.npx[i] : i \in DOMAIN x.npx}
InstructionsAreSound ==
    [][\A t \in Terminals : (phase[t] # "over" /\ phase'[t] = "over") =>
          /\ alone[t] => \A d \in named'[t] : documents'[d] = t
          /\ ~preview[t] => /\ Len(version'[t]) = 1
                            /\ \A v \in Usable(installed) : ~Newer(v, version'[t][1])]_passthroughVars
=============================================================================
