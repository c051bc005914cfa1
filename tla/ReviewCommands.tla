--------------------------- MODULE ReviewCommands ---------------------------
(***************************************************************************)
(* `clawreview review drift' and `clawreview review filter-report' of      *)
(* apps/cli/src/commands/review.ts: commands that read reports of the      *)
(* server, once or in a loop, run an operator's hooks on what they saw and *)
(* tell the rest by their exit code, which CI gates on.                    *)
(*                                                                         *)
(* A command line is a record:                                             *)
(*   kind     "drift" (one report from a file), "watch" (its loop),        *)
(*            "compare" (two reviews), "report" (one filter report),       *)
(*            "reportWatch" (its loop), "diff" (two filter reports)        *)
(*   server, numbers   --server is there; the numbers given are valid      *)
(*   format   "text", "json" or "bad"                                      *)
(*   polls    --max-polls, 0 for ever                                      *)
(*   hooks    for each hook its command ("absent", "empty", "given") and   *)
(*            its template ("absent", "unknown", "known")                  *)
(*   env      which variables with a URL are set: the hook's "own", the    *)
(*            "shared" one                                                 *)
(*   once     --on-drift-once                                              *)
(*   require  --require-filter                                             *)
(*   input, strict     --input, --input-strict                             *)
(*   output   --output is given                                            *)
(*   cap      --max-output-bytes: "bad", or the result "fits" or is "over" *)
(*   dedup    "none", "one" or "clash": --on-delta-once and                *)
(*            --on-delta-once-per, "clash" when invalid or both given      *)
(*                                                                         *)
(* What is read is "worse", "better" or "same", as drift or delta go; of a *)
(* filter report, "same" if the filter was applied and "worse" if not;     *)
(* "odd", an object of another shape; "empty"; or "bad", everything that   *)
(* does not arrive as JSON with status 200.                                *)
(***************************************************************************)
EXTENDS Naturals

CONSTANTS CommandLines \* the command lines that are run

ASSUME CommandAssumption ==
    /\ CommandLines # {}
    /\ \A f \in CommandLines :
          /\ f.kind \in {"drift", "watch", "compare", "report", "reportWatch", "diff"}
          /\ f.polls \in Nat

VARIABLES
    line,    \* the command line
    at,      \* what the command waits for: "read", "write", "hook", "sleep";
             \* or "none", "exit", "killed"
    code,    \* process.exitCode
    polls,   \* pollCount, as far as --max-polls looks at it
    stopped, \* it has got a SIGINT
    prev,    \* prevHadDrift, prevApplied: "none", "hit" or "clear"
    fired,   \* onDriftFiredOnce
    due,     \* the hook that is run now
    first,   \* history: what the command saw first: "none", "hit" or "clear"
    seen,    \* history: what it saw last
    told     \* history: what the hooks told last

commandVars == <<line, at, code, polls, stopped, prev, fired, due, first, seen, told>>

Watches == {"watch", "reportWatch"}
Replies == {"worse", "better", "same", "odd", "empty", "bad"}
Sights == {"none", "hit", "clear"}
Hooks == {"drift", "recover", "applied", "regression", "delta"}

CommandTypes ==
    /\ line.kind \in {"drift", "watch", "compare", "report", "reportWatch", "diff"}
    /\ at \in {"none", "read", "write", "hook", "sleep", "exit", "killed"}
    /\ code \in 0 .. 3
    /\ polls \in Nat /\ (line.polls > 0 => polls <= line.polls)
    /\ stopped \in BOOLEAN /\ fired \in BOOLEAN
    /\ prev \in Sights /\ first \in Sights /\ seen \in Sights /\ told \in Sights
    /\ due \in Hooks \cup {"none"} /\ (at = "hook" => due # "none")

CommandInit ==
    /\ line = CHOOSE f \in CommandLines : TRUE
    /\ at = "none"
    /\ code = 0
    /\ polls = 0
    /\ stopped = FALSE
    /\ prev = "none"
    /\ fired = FALSE
    /\ due = "none"
    /\ first = "none" /\ seen = "none" /\ told = "none"

-----------------------------------------------------------------------------
(* Flags.                                                                  *)

\* Where a template posts to; only --on-drift-template has no variable of its own.
TemplateUrl(h, env) == IF h = "drift" THEN "shared" \in env ELSE env # {}

\* A hook's two flags: "none", "set" or "invalid".
OnHook(f, h) ==
    LET g == f.hooks[h]
    IN  IF g.cmd = "absent" /\ g.template = "absent" THEN "none"
        ELSE IF \/ g.cmd = "given" /\ g.template = "absent"
                \/ g.cmd = "absent" /\ g.template = "known" /\ TemplateUrl(h, f.env)
             THEN "set" ELSE "invalid"

DriftRefused(f) == f.kind = "drift" /\ f.format = "bad"

WatchRefused(f) ==
    /\ f.kind = "watch"
    /\ \/ ~f.server \/ ~f.numbers \/ f.format = "bad"
       \/ \E h \in {"drift", "recover"} : OnHook(f, h) = "invalid"

CompareRefused(f) ==
    f.kind = "compare" /\ (~f.server \/ f.format = "bad" \/ OnHook(f, "regression") = "invalid")

ReportRefused(f) == f.kind = "report" /\ (~f.server \/ f.format = "bad")

OnApplied(f) == OnHook(f, "applied")

ReportWatchRefused(f) ==
    /\ f.kind = "reportWatch"
    /\ ~f.server \/ ~f.numbers \/ f.format = "bad" \/ OnApplied(f) = "invalid"

OnDelta(f) == OnHook(f, "delta")

DiffRefused(f) ==
    /\ f.kind = "diff"
    /\ (~f.server /\ ~f.input) \/ f.format = "bad" \/ OnDelta(f) = "invalid"

Refused(f) ==
    \/ DriftRefused(f) \/ WatchRefused(f) \/ CompareRefused(f)
    \/ ReportRefused(f) \/ ReportWatchRefused(f) \/ DiffRefused(f)

-----------------------------------------------------------------------------
(* What is read, and what it means.                                        *)

\* The input of diff is looked at as closely as --input-strict asks for.
StrictRefuses(f, r) == f.input /\ f.strict /\ r = "odd"

\* The exit code of a command that cannot use what it read, 0 if it can.
DriftFailure(r) == CASE r \in {"bad", "odd"} -> 2 [] r = "empty" -> 1 [] OTHER -> 0

WatchFailure(r) == IF r \in {"bad", "odd", "empty"} THEN 2 ELSE 0

CompareFailure(r) == IF r \in {"bad", "odd", "empty"} THEN 2 ELSE 0

\* The text of a filter report throws on an odd one, JSON prints it and finds no
\* filter applied.
ReportFailure(f, r) ==
    CASE r \in {"bad", "empty"} -> 2 [] r = "odd" /\ f.format = "text" -> 1 [] OTHER -> 0

ReportWatchFailure(f, r) ==
    CASE r \in {"bad", "empty"} -> 2 [] r = "odd" /\ f.format = "text" -> 1 [] OTHER -> 0

DiffFailure(f, r) == IF r \in {"bad", "empty"} \/ StrictRefuses(f, r) THEN 2 ELSE 0

Failure(f, r) ==
    CASE f.kind = "drift" -> DriftFailure(r)
      [] f.kind = "watch" -> WatchFailure(r)
      [] f.kind = "compare" -> CompareFailure(r)
      [] f.kind = "report" -> ReportFailure(f, r)
      [] f.kind = "reportWatch" -> ReportWatchFailure(f, r)
      [] f.kind = "diff" -> DiffFailure(f, r)

\* Drift, a delta, or no filter applied; in an odd filter report nothing is applied,
\* and its totals differ from every number.
Sight(r) == IF r = "same" THEN "clear" ELSE "hit"

\* The slice of a comparison that got worse, if there is one.
Regression(r) == r = "worse"

Set(f, h) == OnHook(f, h) = "set"

\* On every drift, or the first; and on the way back.
DriftHookDue(f, s) == Set(f, "drift") /\ s = "hit" /\ (~f.once \/ ~fired)
RecoverHookDue(f, s) == Set(f, "recover") /\ s = "clear" /\ prev = "hit"

\* On a change since the poll before.
AppliedHookDue(f, s) == OnApplied(f) = "set" /\ prev \notin {"none", s}

RegressionHookDue(f, r) == Set(f, "regression") /\ Regression(r)

DeltaHookDue(f, s) == OnDelta(f) = "set" /\ s = "hit"

\* The hook that a reply calls for.
HookDue(f, r) ==
    CASE f.kind = "watch" /\ DriftHookDue(f, Sight(r)) -> "drift"
      [] f.kind = "watch" /\ RecoverHookDue(f, Sight(r)) -> "recover"
      [] f.kind = "reportWatch" /\ AppliedHookDue(f, Sight(r)) -> "applied"
      [] f.kind = "compare" /\ RegressionHookDue(f, r) -> "regression"
      [] f.kind = "diff" /\ DeltaHookDue(f, Sight(r)) -> "delta"
      [] OTHER -> "none"

\* What a command that has read all it wants exits with.
GateCode(f, s) ==
    IF \/ s = "clear"
       \/ f.kind \in Watches /\ stopped
       \/ f.kind \in {"report", "reportWatch"} /\ ~f.require
    THEN 0 ELSE 3

-----------------------------------------------------------------------------
(* Steps.  `at' and `code' are set by the two operators below.             *)

Exit(c) == at' = "exit" /\ code' = c

\* Mutant: the last sight is not reset.
TurnLatches(s, n) ==
    /\ prev' = IF prev = "hit" THEN "hit" ELSE s
    /\ IF line.kind \notin Watches \/ stopped \/ (line.polls > 0 /\ n >= line.polls)
       THEN Exit(GateCode(line, s))
       ELSE at' = "sleep" /\ UNCHANGED code

\* A poll is over: the loop ends or sleeps.  Other commands have read all they want.
Turn(s, n) ==
    /\ prev' = s
    /\ IF line.kind \notin Watches \/ stopped \/ (line.polls > 0 /\ n >= line.polls)
       THEN Exit(GateCode(line, s))
       ELSE at' = "sleep" /\ UNCHANGED code

\* --on-delta-once and --on-delta-once-per.
DedupRefused(f) == f.dedup = "clash"

\* After the delta is out: the exit code, then the flags that limit the hook.
Announce(s, h) ==
    IF line.kind = "diff" /\ DedupRefused(line) THEN Exit(2) /\ UNCHANGED prev
    ELSE IF h = "none" THEN Turn(s, polls')
    ELSE at' = "hook" /\ UNCHANGED <<code, prev>>

\* --max-output-bytes, and a result that does not fit it.
CapRefuses(f) == f.cap \in {"bad", "over"}

\* --output needs a format of its own, and a cap that lets the result through.
OutputRefused(f) == f.output /\ (f.format = "text" \/ CapRefuses(f))

Launch(f) ==
    /\ at \in {"none", "exit", "killed"}
    /\ line' = f
    /\ IF Refused(f) THEN Exit(2) ELSE at' = "read" /\ code' = 0
    /\ polls' = 0 /\ stopped' = FALSE /\ prev' = "none" /\ fired' = FALSE /\ due' = "none"
    /\ first' = "none" /\ seen' = "none" /\ told' = "none"

\* The reports arrive, or do not.
Read(r) ==
    /\ at = "read"
    /\ polls' = IF line.polls > 0 THEN polls + 1 ELSE polls
    /\ IF Failure(line, r) # 0
       THEN /\ Exit(Failure(line, r))
            /\ UNCHANGED <<prev, due, first, seen>>
       ELSE /\ seen' = Sight(r)
            /\ first' = IF first = "none" THEN Sight(r) ELSE first
            /\ due' = HookDue(line, r)
            /\ IF line.kind = "diff" /\ OutputRefused(line) THEN Exit(2) /\ UNCHANGED prev
               ELSE IF line.kind = "diff" /\ line.output THEN at' = "write" /\ UNCHANGED <<code, prev>>
               ELSE Announce(Sight(r), due')
    /\ UNCHANGED <<line, stopped, fired, told>>

\* The file is written, or writing it throws.
Write ==
    /\ at = "write"
    /\ \/ Announce(seen, due)
       \/ Exit(1) /\ UNCHANGED prev
    /\ UNCHANGED <<line, polls, stopped, fired, due, first, seen, told>>

\* The hook ends; with which code makes no difference.
Hook ==
    /\ at = "hook"
    /\ told' = seen
    /\ fired' = (fired \/ due = "drift")
    /\ Turn(seen, polls)
    /\ UNCHANGED <<line, polls, stopped, due, first, seen>>

\* The interval is over.
Wake ==
    /\ at = "sleep"
    /\ IF stopped THEN Exit(GateCode(line, seen)) ELSE at' = "read" /\ UNCHANGED code
    /\ UNCHANGED <<line, polls, stopped, prev, fired, due, first, seen, told>>

\* SIGINT: a watch notes the first one, anything else ends the process.
Interrupt ==
    /\ at \in {"read", "write", "hook", "sleep"}
    /\ IF line.kind \in Watches /\ ~stopped
       THEN stopped' = TRUE /\ UNCHANGED at
       ELSE at' = "killed" /\ UNCHANGED stopped
    /\ UNCHANGED <<line, code, polls, prev, fired, due, first, seen, told>>

CommandNext ==
    \/ \E f \in CommandLines : Launch(f)
    \/ \E r \in Replies : Read(r)
    \/ Write \/ Hook \/ Wake \/ Interrupt

CommandSpec == CommandInit /\ [][CommandNext]_commandVars

-----------------------------------------------------------------------------
(* Properties                                                              *)

\* A gate that opens (0) has read a report and found nothing, was told to stop, or
\* was not asked to gate; one that closes (3) has found something in its last
\* report.  It depends neither on the hooks nor on when a SIGINT comes.
GateHonest ==
    at = "exit" =>
        /\ code = 3 => seen = "hit"
        /\ code = 0 => /\ seen # "none"
                       /\ \/ seen = "clear" \/ stopped
                          \/ line.kind \in {"report", "reportWatch"} /\ ~line.require

\* Who hears only the hooks of a watch knows what it saw last, whenever it sleeps
\* or has ended: drift and its end with both hooks and no
\* --on-drift-once, the filter with its one, silence meaning that nothing changed.
HooksTellAll ==
    at \in {"sleep", "exit"} =>
        /\ (/\ line.kind = "watch" /\ ~line.once
            /\ OnHook(line, "drift") = "set" /\ OnHook(line, "recover") = "set")
           => told = seen \/ (told = "none" /\ seen = "clear")
        /\ (line.kind = "reportWatch" /\ OnApplied(line) = "set")
           => told = seen \/ (told = "none" /\ seen = first)

\* Neither the exit code of a command nor its hooks say other than what it read.
TellsTruth == GateHonest /\ HooksTellAll
=============================================================================
