---------------------------- MODULE MCApiClients -----------------------------
(***************************************************************************)
(* TLC instance of ApiClients: four deliveries of two events and two       *)
(* repositories in a store of two, three reviews in pages of one, one      *)
(* review that is run twice, the command lines that differ in a flag the   *)
(* commands look at, and presets of two fields that extend each other in   *)
(* the ways that matter; desk and browser have instances of their own.     *)
(***************************************************************************)
EXTENDS ApiClients, MCTriageDesk, MCReviewBrowser, TLC

CONSTANTS d1, d2, d3, d4

MCEventOf == d1 :> "push" @@ d2 :> "push" @@ d3 :> "push" @@ d4 :> "pull_request"
MCRepoOf == d1 :> 1 @@ d2 :> 1 @@ d3 :> 2 @@ d4 :> 2

Query(event, repo, since, limit) ==
    [event |-> event, repo |-> repo, since |-> since, limit |-> limit]

MCQueries ==
    {Query(Unset, Unset, 0, 1), Query(Unset, Unset, 0, 2), Query("push", 1, 2, 1)}

-----------------------------------------------------------------------------
Flag(cmd, template) == [cmd |-> cmd, template |-> template]
Off == [h \in Hooks |-> Flag("absent", "absent")]
On(S) == [h \in Hooks |-> IF h \in S THEN Flag("given", "absent") ELSE Flag("absent", "absent")]

\* A command line with the flags it has by default.
Plain(kind) ==
    [kind |-> kind, server |-> TRUE, numbers |-> TRUE, format |-> "json", polls |-> 0,
     hooks |-> Off, env |-> {}, once |-> FALSE, require |-> FALSE, input |-> FALSE,
     strict |-> FALSE, output |-> FALSE, cap |-> "fits", dedup |-> "none"]

\* All ways to give one hook.
AllFlags(kind, h) ==
    {[Plain(kind) EXCEPT !.polls = 1, !.env = e,
                         !.hooks[h] = Flag(c, t)] :
        e \in {{}, {"own"}, {"shared"}}, c \in {"absent", "empty", "given"},
        t \in {"absent", "unknown", "known"}}

MCCommandLines ==
    {Plain(k) : k \in {"drift", "watch", "compare", "report", "reportWatch", "diff"}}
    \cup {[Plain(k) EXCEPT !.format = m, !.require = TRUE] :
            k \in {"drift", "report", "reportWatch"}, m \in {"text", "bad"}}
    \cup {[Plain(k) EXCEPT !.server = FALSE] : k \in {"watch", "compare", "report", "reportWatch", "diff"}}
    \cup {[Plain(k) EXCEPT !.numbers = FALSE] : k \in {"watch", "reportWatch"}}
    \cup {[Plain("watch") EXCEPT !.hooks = On({"drift", "recover"}), !.polls = n, !.once = o] :
            n \in {0, 1, 3}, o \in BOOLEAN}
    \cup {[Plain("reportWatch") EXCEPT !.hooks = On({"applied"}), !.polls = n, !.require = TRUE] :
            n \in {0, 2}}
    \cup {[Plain("compare") EXCEPT !.hooks = On({"regression"})]}
    \cup {[Plain("diff") EXCEPT !.hooks = On({"delta"}), !.server = FALSE, !.input = TRUE, !.strict = s,
                               !.output = o, !.cap = c, !.dedup = d] :
            s \in BOOLEAN, o \in BOOLEAN, c \in {"bad", "over", "fits"}, d \in {"none", "one", "clash"}}
    \cup {[Plain("diff") EXCEPT !.format = "text", !.output = TRUE]}
    \cup AllFlags("watch", "drift") \cup AllFlags("watch", "recover")
    \cup AllFlags("compare", "regression") \cup AllFlags("reportWatch", "applied")
    \cup AllFlags("diff", "delta")

-----------------------------------------------------------------------------
MCBuiltin == "strict" :> ("p" :> 1) @@ "lax" :> ("p" :> 2 @@ "q" :> 2)

File(extends, own) == [extends |-> extends, own |-> own]
Files(files) == [broken |-> FALSE, files |-> files]

\* Nothing; a preset that overrides; a chain that shadows a built-in preset;
\* a diamond; a cycle; a name nobody knows; a preset twice in a row; no YAML.
MCDirectories ==
    {Files(<<>>),
     Files("x" :> File(<<"lax">>, "p" :> 3)),
     Files("x" :> File(<<"strict">>, "q" :> 3) @@ "strict" :> File(<<"lax">>, <<>>)),
     Files("x" :> File(<<"y", "z">>, <<>>) @@ "y" :> File(<<"lax">>, "p" :> 1)
           @@ "z" :> File(<<"lax">>, "q" :> 1)),
     Files("x" :> File(<<"y">>, "p" :> 1) @@ "y" :> File(<<"x">>, "p" :> 2)),
     Files("x" :> File(<<"nobody">>, "p" :> 1)),
     Files("x" :> File(<<"lax", "lax">>, "q" :> 1)),
     [broken |-> TRUE, files |-> <<>>]}

\* A request with the flags it has by default.
Ask(kind, a, b) ==
    [kind |-> kind, a |-> a, b |-> b, atRef |-> {}, since |-> TRUE, fields |-> {"p", "q"},
     picked |-> "fits", format |-> "json", output |-> "none", cap |-> "fits", hooks |-> Off, env |-> {}]

Told(q) == [q EXCEPT !.hooks = On({"delta"})]

MCRequests ==
    {Told([Ask("diff", a, b) EXCEPT !.atRef = r]) :
        a \in {<<"x">>, <<"lax", "strict">>}, b \in {<<"strict", "x">>, <<"lax">>},
        r \in {{}, {"a"}, {"a", "b"}}}
    \cup {Told([Ask("diff", <<"lax">>, <<"x">>) EXCEPT !.fields = {"q"}, !.output = o, !.cap = c]) :
            o \in {"file", "stdout"}, c \in {"fits", "over", "bad"}}
    \cup {[Ask("diff", <<"lax">>, <<"x">>) EXCEPT !.output = "file", !.format = m] : m \in {"text", "bad"}}
    \cup {[Ask("diff", <<"lax">>, <<"x">>) EXCEPT !.since = FALSE],
          [Ask("diff", <<"lax">>, <<"x">>) EXCEPT !.picked = "clash"],
          [Ask("diff", <<"lax">>, <<"x">>) EXCEPT !.hooks["delta"] = Flag("given", "known")]}
    \cup {Ask("diff", a, <<"lax">>) : a \in {<<>>, <<"lax", "">>, <<"lax", "lax">>, <<"nobody">>}}
    \cup {Ask("diff", <<"lax">>, <<>>), Ask("show", <<>>, <<>>), Ask("resolve", <<>>, <<>>)}
    \cup {Ask("show", <<n>>, <<>>) : n \in {"x", "strict", "nobody"}}
    \cup {[Ask("resolve", <<"strict", "x">>, <<>>) EXCEPT !.atRef = r, !.output = o] :
            r \in {{}, {"a"}}, o \in {"none", "file"}}
-----------------------------------------------------------------------------
Finding(category, severity, title, path, place, confidence, tags) ==
    [agent |-> "model", category |-> category, severity |-> severity, title |-> <<title>>,
     why |-> <<title>>, file |-> path, line |-> place, endLine |-> place,
     confidence |-> confidence, tags |-> tags]

Injected == Finding("security", 0, "injection", 1, 2, 90, {<<"nit-floor">>})
Leak == Finding("bug", 1, "leak", 1, 40, 60, {})
Spacing == Finding("style", 3, "spacing", 2, 2, 60, {})

\* Nothing; three findings of which one stands in another file; one of them again,
\* from a run with a floor.
MCOutcomes ==
    {[findings |-> <<>>, floor |-> 0, threshold |-> 3],
     [findings |-> <<Injected, Leak, Spacing>>, floor |-> 0, threshold |-> 4],
     [findings |-> <<Leak>>, floor |-> 50, threshold |-> 2]}

MCNameOrder ==
    [file |-> <<1, 2>>, agent |-> <<"model">>, category |-> <<"bug", "security", "style">>,
     tag |-> <<<<"untagged">>, <<"nit-floor">>>>]

Allow(names) == [i \in DOMAIN names |-> [minus |-> FALSE, name |-> names[i]]]
Deny(names) == [i \in DOMAIN names |-> [minus |-> TRUE, name |-> names[i]]]

\* The form of a list, over two fields.
Lists(one, other) ==
    {<<>>, Allow(<<"all">>), Allow(<<"none">>), Allow(<<one>>), Deny(<<one>>), Deny(<<one, other>>),
     Allow(<<one, "all">>), Deny(<<"all">>), Allow(<<"nothing">>), Deny(<<"">>),
     Allow(<<one>>) \o Deny(<<other>>)}

NoNumber == [given |-> TRUE, number |-> FALSE, value |-> 0]
DigestOf(recompute, slim, confidence, severity) ==
    [recompute |-> recompute, slim |-> slim, confidence |-> confidence, severity |-> severity]

MCDigestQueries ==
    {DigestOf(r, l, NotGiven, NotGiven) : r \in {"cached", "fresh"}, l \in Lists("byFile", "byTag")}
    \cup {DigestOf("fresh", <<>>, c, s) :
             c \in {NotGiven, NoNumber, Given(-5), Given(70), Given(130)},
             s \in {NotGiven, Given(1), Given(4), Given(9)}}
    \cup {DigestOf("cached", <<>>, Given(70), Given(9)), DigestOf("bad", <<>>, NotGiven, NotGiven)}

MCReportQueries ==
    {[slim |-> s, fields |-> l] : s \in BOOLEAN, l \in Lists("appliedFilters", "inputTotal")}
=============================================================================
