--------------------------- MODULE PresetCommands ---------------------------
(***************************************************************************)
(* `clawreview presets diff', `resolve' and `show' of                      *)
(* apps/cli/src/commands/presets.ts, and the presets they resolve: those   *)
(* built in (packages/types/src/presets.ts) and those of the repository,   *)
(* which may extend each other (apps/cli/src/config.ts).                   *)
(*                                                                         *)
(* A preset is a function from fields to values.  A field is a path to a   *)
(* value; what is an object in one preset is an object in all, as the      *)
(* schema of the configuration has it.                                     *)
(*                                                                         *)
(* A request is a record:                                                  *)
(*   kind     "diff", "resolve" or "show"                                  *)
(*   a, b     the chains, <<>> when missing, with "" for an empty entry;   *)
(*            resolve has one, show the name of one preset                 *)
(*   atRef    the chains whose local presets are read at a git ref         *)
(*   since    the flags that say so do not clash                           *)
(*   fields   the fields that are compared; "clash" in `picked' when       *)
(*            --only-fields and --exclude-fields are both or badly given   *)
(*   format, output, cap, hooks, env    as in ReviewCommands; output is    *)
(*            "none", "file" or "stdout"                                   *)
(***************************************************************************)
EXTENDS ReviewCommands, Sequences, SequencesExt

CONSTANTS
    Builtin,     \* the built-in presets, by name
    Directories, \* what .clawreview/presets may hold
    Requests     \* the requests

\* A list of names.
IsChain(s) == s \in Seq(ToSet(s))

\* A directory is a finite number of files; `show' takes one name, and no ref.
ASSUME PresetAssumption ==
    /\ Directories # {} /\ Requests # {}
    /\ \A dir \in Directories :
         IsFiniteSet(DOMAIN dir.files) /\ \A n \in DOMAIN dir.files : IsChain(dir.files[n].extends)
    /\ \A q \in Requests :
         /\ q.kind \in {"diff", "resolve", "show"} /\ IsChain(q.a) /\ IsChain(q.b)
         /\ q.kind = "show" => q.atRef = {} /\ Len(q.a) <= 1

VARIABLES
    request, \* the command line
    phase,   \* what the command waits for: "read", "write", "hook"; or "none", "exit", "killed"
    ended,   \* process.exitCode
    dirs,    \* what the directory holds in the working tree and at the refs
    outcome, \* what was resolved
    heard    \* history: the hook has run

presetVars == <<request, phase, ended, dirs, outcome, heard>>

-----------------------------------------------------------------------------
(* Resolution.  A result is [ok, body]: a preset, or an exception.         *)

Threw == [ok |-> FALSE, body |-> <<>>]
Got(body) == [ok |-> TRUE, body |-> body]

\* Mutant: the first wins.
MergePresetsFirst(a, b) == a @@ b

\* mergePresets(): the second wins.
MergePresets(a, b) == [p \in DOMAIN a \cup DOMAIN b |-> IF p \in DOMAIN b THEN b[p] ELSE a[p]]

\* What presets in a row make; one that threw makes all throw.
MergeAll(results) ==
    IF \A i \in DOMAIN results : results[i].ok
    THEN Got(FoldLeft(LAMBDA all, r : MergePresets(all, r.body), <<>>, results))
    ELSE Threw

\* resolveOne(), for a local preset and the presets above it: it extends local
\* presets, else built-in ones, and its own fields come last.
ResolveOne(files) ==
    LET one[v \in (DOMAIN files) \X SUBSET DOMAIN files] ==
            LET name == v[1]
                above == v[2] \cup {name}
                Referenced(n) == IF n \in DOMAIN files THEN one[<<n, above>>]
                                 ELSE IF n \in DOMAIN Builtin THEN Got(Builtin[n]) ELSE Threw
            IN  IF name \in v[2] THEN Threw
                ELSE LET base == MergeAll([i \in DOMAIN files[name].extends |->
                                              Referenced(files[name].extends[i])])
                     IN  IF base.ok THEN Got(MergePresets(base.body, files[name].own)) ELSE Threw
    IN  [name \in DOMAIN files |-> one[<<name, {}>>]]

\* loadLocalPresets() and loadLocalPresetsAtRef(): one bad file, or preset, is enough
\* to throw.
LoadLocal(dir) ==
    LET resolved == ResolveOne(dir.files)
    IN  IF dir.broken \/ \E n \in DOMAIN resolved : ~resolved[n].ok THEN Threw
        ELSE Got([n \in DOMAIN resolved |-> resolved[n].body])

\* resolveExtendsChain(): local presets shadow built-in ones; a name that comes
\* twice is taken for a cycle.
ResolveChain(chain, local) ==
    IF IsInjective(chain)
    THEN MergeAll([i \in DOMAIN chain |->
                     IF chain[i] \in DOMAIN local THEN Got(local[chain[i]])
                     ELSE IF chain[i] \in DOMAIN Builtin THEN Got(Builtin[chain[i]]) ELSE Threw])
    ELSE Threw

\* computePresetDelta(), filtered: the fields that differ.
PresetDelta(a, b, fields) ==
    {p \in fields \cap (DOMAIN a \cup DOMAIN b) :
        \/ p \notin DOMAIN a \/ p \notin DOMAIN b
        \/ p \in DOMAIN a \cap DOMAIN b /\ a[p] # b[p]}

-----------------------------------------------------------------------------
(* The commands.                                                           *)

PresetTypes ==
    /\ request.kind \in {"diff", "show", "resolve"}
    /\ phase \in {"none", "read", "write", "hook", "exit", "killed"}
    /\ ended \in 0 .. 3
    /\ dirs.head \in Directories /\ dirs.ref \in Directories
    /\ heard \in BOOLEAN

PresetInit ==
    /\ request = CHOOSE q \in Requests : TRUE
    /\ phase = "none"
    /\ ended = 0
    /\ LET some == CHOOSE d \in Directories : TRUE IN dirs = [head |-> some, ref |-> some]
    /\ outcome = {}
    /\ heard = FALSE

\* The git refs: a range that is none, or two flags for one chain.
SinceRefused(q) == ~q.since

\* What is looked at before anything is read: the exit code, 0 if nothing is wrong.
DiffFlags(q) ==
    CASE <<>> \in {q.a, q.b} -> 1
      [] <<>> \notin {q.a, q.b} ->
            IF \/ q.format = "bad" \/ q.picked = "clash" \/ SinceRefused(q)
               \/ "" \in ToSet(q.a) \cup ToSet(q.b) THEN 2 ELSE 0

ResolveFlags(q) ==
    CASE q.a = <<>> -> 1
      [] q.a # <<>> -> IF q.format = "bad" \/ SinceRefused(q) \/ "" \in ToSet(q.a) THEN 2 ELSE 0

ShowFlags(q) == IF q.a = <<>> \/ q.format = "bad" THEN 2 ELSE 0

FlagsExit(q) ==
    CASE q.kind = "diff" -> DiffFlags(q) [] q.kind = "resolve" -> ResolveFlags(q)
      [] q.kind = "show" -> ShowFlags(q)

\* The local presets a chain is resolved with.
LocalOf(q, side) == LoadLocal(IF side \in q.atRef THEN dirs.ref ELSE dirs.head)

\* presets diff: the working tree is read in any case, and not caught.
DiffExit(q) ==
    CASE ~LoadLocal(dirs.head).ok -> 1
      [] OTHER -> IF /\ LocalOf(q, "a").ok /\ ResolveChain(q.a, LocalOf(q, "a").body).ok
                     /\ LocalOf(q, "b").ok /\ ResolveChain(q.b, LocalOf(q, "b").body).ok
                  THEN 0 ELSE 2

ResolveExit(q) ==
    IF LocalOf(q, "a").ok THEN (IF ResolveChain(q.a, LocalOf(q, "a").body).ok THEN 0 ELSE 2)
    ELSE IF "a" \in q.atRef THEN 2 ELSE 1

\* What `show' composes: what the preset extends, as a chain, and the preset itself,
\* which is flat already.
Shown(q) ==
    LET local == LocalOf(q, "a").body
        name == q.a[1]
        base == IF name \in DOMAIN local THEN ResolveChain(dirs.head.files[name].extends, local)
                ELSE Got(<<>>)
        own == IF name \in DOMAIN local THEN local[name] ELSE Builtin[name]
    IN  IF base.ok THEN Got(MergePresets(base.body, own)) ELSE Threw

ShowExit(q) ==
    IF ~LocalOf(q, "a").ok THEN 1
    ELSE IF q.a[1] \notin DOMAIN LocalOf(q, "a").body \cup DOMAIN Builtin THEN 1
    ELSE IF Shown(q).ok THEN 0 ELSE 2

ReadExit(q) ==
    CASE q.kind = "diff" -> DiffExit(q)
      [] q.kind = "resolve" -> ResolveExit(q)
      [] q.kind = "show" -> ShowExit(q)

\* The fields that differ, or the preset.
Resolved(q) ==
    CASE q.kind = "diff" -> PresetDelta(ResolveChain(q.a, LocalOf(q, "a").body).body,
                                        ResolveChain(q.b, LocalOf(q, "b").body).body, q.fields)
      [] q.kind = "resolve" -> ResolveChain(q.a, LocalOf(q, "a").body).body
      [] q.kind = "show" -> Shown(q).body

\* A bad --max-output-bytes, and an artifact longer than that.
DiffCapRefuses(q) == q.cap = "bad" \/ (q.output # "none" /\ q.cap = "over")

\* An artifact is not text, and not longer than it may be.
ArtifactRefused(q) ==
    \/ q.kind # "show" /\ q.output # "none" /\ q.format = "text"
    \/ q.kind = "diff" /\ DiffCapRefuses(q)

\* --on-delta and --on-delta-template.
DeltaHook(q) == OnHook(q, "delta")

\* The output is out: the exit code of a delta, and only then the flags of the hook.
Conclude(q, found) ==
    LET delta == q.kind = "diff" /\ found # {}
    IN  CASE q.kind = "diff" /\ DeltaHook(q) = "invalid" -> phase' = "exit" /\ ended' = 2
          [] delta /\ DeltaHook(q) = "set" -> phase' = "hook" /\ ended' = 3
          [] OTHER -> phase' = "exit" /\ ended' = IF delta THEN 3 ELSE 0

\* Between two commands the presets are edited, or the ref is another one.
EditPresets(head, ref) ==
    /\ phase \in {"none", "exit", "killed"}
    /\ dirs' = [head |-> head, ref |-> ref]
    /\ phase' = "none" /\ ended' = 0 /\ outcome' = {} /\ heard' = FALSE
    /\ UNCHANGED request

StartPresets(q) ==
    /\ phase \in {"none", "exit", "killed"}
    /\ request' = q
    /\ ended' = FlagsExit(q)
    /\ phase' = IF FlagsExit(q) = 0 THEN "read" ELSE "exit"
    /\ outcome' = {}
    /\ heard' = FALSE
    /\ UNCHANGED dirs

ReadPresets ==
    /\ phase = "read"
    /\ IF ReadExit(request) # 0 \/ ArtifactRefused(request)
       THEN /\ phase' = "exit"
            /\ ended' = IF ReadExit(request) # 0 THEN ReadExit(request) ELSE 2
            /\ UNCHANGED outcome
       ELSE /\ outcome' = Resolved(request)
            /\ IF request.kind # "show" /\ request.output = "file"
               THEN phase' = "write" /\ UNCHANGED ended
               ELSE Conclude(request, outcome')
    /\ UNCHANGED <<request, dirs, heard>>

\* The file is written, or writing it throws.
WritePresets ==
    /\ phase = "write"
    /\ Conclude(request, outcome) \/ (phase' = "exit" /\ ended' = 1)
    /\ UNCHANGED <<request, dirs, outcome, heard>>

\* The hook ends, with whatever code.
RunHook ==
    /\ phase = "hook"
    /\ phase' = "exit"
    /\ heard' = TRUE
    /\ UNCHANGED <<request, ended, dirs, outcome>>

KillPresets ==
    /\ phase \in {"read", "write", "hook"}
    /\ phase' = "killed"
    /\ UNCHANGED <<request, ended, dirs, outcome, heard>>

PresetNext ==
    \/ \E d \in Directories : EditPresets(d, dirs.ref) \/ EditPresets(dirs.head, d)
    \/ \E q \in Requests : StartPresets(q)
    \/ ReadPresets \/ WritePresets \/ RunHook \/ KillPresets

PresetSpec == PresetInit /\ [][PresetNext]_presetVars

-----------------------------------------------------------------------------
(* Properties                                                              *)

\* The last word in a row of them.
LastSaid(words) ==
    LET saying == {i \in DOMAIN words : words[i] # {}}
    IN  IF saying = {} THEN {} ELSE words[Max(saying)]

\* {}, or {the value}.
Word(preset, p) == {preset[n] : n \in {p} \cap DOMAIN preset}

\* What a chain of names says of a field, each name saying what its own fields say,
\* else the last of those it extends that says something.
Says(files, chain, p) ==
    LET Named(said, n) == IF n \in DOMAIN files THEN said[n] ELSE Word(Builtin[n], p)
        said[n \in DOMAIN files] ==
            IF p \in DOMAIN files[n].own THEN Word(files[n].own, p)
            ELSE LastSaid([i \in DOMAIN files[n].extends |-> Named(said, files[n].extends[i])])
    IN  LastSaid([i \in DOMAIN chain |-> Named(said, chain[i])])

\* Every name that is used is known, and the presets have an order in which each
\* comes after those it extends.
Sound(dir) ==
    LET names == DOMAIN dir.files
    IN  /\ ~dir.broken
        /\ \A n \in names : ToSet(dir.files[n].extends) \subseteq names \cup DOMAIN Builtin
        /\ \E rank \in [names -> 1 .. Cardinality(names)] :
               \A n \in names : \A m \in ToSet(dir.files[n].extends) \cap names : rank[m] < rank[n]

DirOf(side) == IF side \in request.atRef THEN dirs.ref ELSE dirs.head

ChainOf(side) == IF side = "a" THEN request.a ELSE request.b

\* What a chain comes to is found preset by preset, merging what each extends; the
\* answer is the one read off field by field.  A diff that ends well (0 or 3) has read
\* sound presets and known names only, closes the gate (3) exactly when a field it was
\* asked about has another last word in the other chain, and calls its hook exactly
\* then.  A preset that is resolved or shown says of each field what its name, written
\* in a chain, says.
ChainsResolve ==
    LET sides == IF request.kind = "diff" THEN {"a", "b"} ELSE {"a"}
        Said(side, p) == Says(DirOf(side).files, ChainOf(side), p)
    IN  phase = "exit" /\ ended \in {0, 3} =>
            /\ \A side \in sides :
                   /\ Sound(DirOf(side))
                   /\ ToSet(ChainOf(side)) \subseteq DOMAIN DirOf(side).files \cup DOMAIN Builtin
            /\ request.kind = "diff" =>
                   /\ ended = 3 <=> \E p \in request.fields : Said("a", p) # Said("b", p)
                   /\ heard <=> ended = 3 /\ DeltaHook(request) = "set"
            /\ request.kind # "diff" =>
                   /\ ended = 0
                   /\ \A p \in request.fields : Word(outcome, p) = Said("a", p)

=============================================================================
