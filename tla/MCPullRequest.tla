--------------------------- MODULE MCPullRequest ----------------------------
(***************************************************************************)
(* TLC instances of PullRequest: two heads of a small pull request, what   *)
(* the agents may answer about them, and two claims of the repository that *)
(* the code does not keep.                                                 *)
(***************************************************************************)
EXTENDS PullRequest, TLC

-----------------------------------------------------------------------------
(* The diff.                                                               *)

Add == [kind |-> "+", marks |-> {}, secret |-> FALSE, doubled |-> FALSE]
Keep == [Add EXCEPT !.kind = " "]
Del == [Add EXCEPT !.kind = "-"]
Key == [Add EXCEPT !.secret = TRUE]
IgnoreStyle(type) == [Add EXCEPT !.marks = {[type |-> type, rules |-> {"style"}]}]

Hunk(at, lines) == [at |-> at, lines |-> lines, size |-> Len(lines)]
File(path, hunks) ==
    [path |-> path, binary |-> FALSE, deleted |-> FALSE, generated |-> FALSE,
     bytes |-> 10, hunks |-> hunks]

\* File 1 has two hunks that share a chunk, with a key in the second, and a line
\* on which style findings are ignored; file 2 is small; file 3 is generated,
\* file 4 ignored by the configuration, file 5 too long.
MCDiff ==
    << <<File(1, <<Hunk(1, <<Keep, Add, Add, IgnoreStyle("next"), Add>>),
                   Hunk(8, <<Del, Key, Keep>>)>>),
         File(2, <<Hunk(21, <<Add, Add>>)>>),
         [File(3, <<Hunk(1, <<Add>>)>>) EXCEPT !.generated = TRUE],
         File(4, <<Hunk(1, <<Add>>)>>),
         File(5, <<Hunk(1, <<Add, Add, Add, Add, Add, Add, Add>>)>>)>>,
       <<File(1, <<Hunk(2, <<Keep, Add, Add, Add, Add>>)>>)>> >>

-----------------------------------------------------------------------------
(* What the agents say.                                                    *)

Say(category, severity, title, why, path, line, confidence) ==
    [agent |-> "model", category |-> category, severity |-> severity, title |-> title,
     why |-> why, file |-> path, line |-> line, endLine |-> line,
     confidence |-> confidence, tags |-> {}]

\* An injection on line 2 of file 1; style sees the same, with less weight, and
\* more below it.
Injected(line) == Say("sql-injection", Medium, <<"sql", "built">>, <<"input", "in", "query">>, 1, line, 90)
Concat == Say("style", Low, <<"use", "template">>, <<"query", "in", "pieces">>, 1, 3, 70)
Naming(line) == Say("style", Low, <<"bad", "name">>, <<"unclear">>, 1, line, 60)
\* Below the last line of the chunk, where no comment can stand.
Below == Say("bug", High, <<"not", "closed">>, <<"leak">>, 1, 10, 75)
\* In file 2: severe but unsure, sure but mild, the same thing.
Unsure == Say("security", High, <<"race">>, <<"two", "writers">>, 2, 21, 40)
Sure == Say("security", Low, <<"shared", "state">>, <<"two", "writers", "here">>, 2, 22, 80)
Worst == Say("security", Critical, <<"eval">>, <<"runs", "input">>, 2, 22, 97)

MCReplies(agent, chunk) ==
    CASE agent = "security" /\ chunk.path = 1 /\ chunk.last > 6 ->
            {<<Injected(2), Below>>, Throws}
      [] agent = "security" /\ chunk.path = 1 /\ chunk.last <= 6 ->
            {<<Injected(3)>>}
      [] agent = "security" /\ chunk.path = 2 -> {<<Unsure, Sure, Worst>>}
      [] agent = "style" /\ chunk.last > 6 /\ chunk.path = 1 ->
            {<<Concat, Naming(5)>>}
      [] agent = "style" /\ chunk.last <= 6 -> {<<Naming(6)>>}
      [] agent = "style" /\ chunk.path = 2 -> {<<>>}
      [] agent = "secrets" -> {Garbled}

MCSkips(agent, path) == agent = "style" /\ path = 2

-----------------------------------------------------------------------------
(* .clawreview.yml                                                         *)

AnyAgent == {"security", "style", "secrets"}
Rule(categories, effect, arg) ==
    [agents |-> AnyAgent, categories |-> categories, paths |-> 1 .. 5, min |-> 0, max |-> 100,
     effect |-> effect, arg |-> arg]

Usual ==
    [rules |-> <<Rule({"bug"}, "bump", -1), Rule({"security"}, "bump", -1)>>,
     floor |-> 50, threshold |-> Low, maxPerFile |-> 3,
     ignore |-> <<[paths |-> {4}, negate |-> FALSE]>>,
     limits |-> [includeGenerated |-> FALSE, maxBytes |-> 100, maxLines |-> 6],
     inline |-> [enabled |-> TRUE, min |-> Low, max |-> 3], budget |-> 50]
Lax == [Usual EXCEPT !.rules = <<Rule({"bug"}, "drop", 0)>>, !.maxPerFile = 2,
                     !.inline.enabled = FALSE]
Tight == [Usual EXCEPT !.budget = 2]

MCConfigs == <<{Usual}, {Lax, Tight}>>
MCAgents == <<"security", "style", "secrets">>

-----------------------------------------------------------------------------
\* README.md: "per-installation monthly spend against a USD budget".  A review
\* that has used tokens shows in what the installation has spent, until the
\* ledger is reset.
SpendingCounted ==
    budgetOps = 0 =>
        \A r \in Reviews : rows[r].status = "completed" /\ rows[r].tokens > 0 => ledger.spent > 0

\* run.ts: "Honor inline clawreview-ignore markers in the diff so local runs match
\* what the server-side worker would post".  The text of a local run lists the
\* findings that the worker's comment on the same answers lists.
TextMatchesComment ==
    \A r \in {q \in Reviews : step[q] = "comment"} :
        TextReport(LocalReport(pool[r].results, Diff[seen[r]], cfg[r])).files
            = PrComment(made[r].summed, made[r].digest).files
=============================================================================
