--------------------------- MODULE MCReviewBrowser ---------------------------
(* The browser alone: three reviews of two repositories on a list of two, four    *)
(* pages, the words "r" and "fail" besides the statuses.                         *)
EXTENDS ReviewBrowser, TLC

MCFindingsIn == <<1, 9, 1>>
MCCostOf == <<40, 2, 3>>
MCTookOf == <<5, 5, 7>>
MCPlaceOf == <<1, 2, 1>>
MCAgeOf == <<100, 30, 80>>
MCOpenOf == <<{0, 3}, {0, 1}, {1}>>
MCDefaultPolicy == 0 :> 24 @@ 1 :> 72 @@ 2 :> 168 @@ 3 :> 336 @@ 4 :> 720
MCFirstFleet == <<"completed", "running">>

MCRoutes == <<"overview", "reviews", "sla", "settings">>
MCLettersOfPage == "overview" :> <<"o", "v">> @@ "reviews" :> <<"v", "e">>
                   @@ "sla" :> <<"s", "l">> @@ "settings" :> <<"s", "e">>
MCLettersOfReview == <<<<"a", "e">>, <<"e", "a", "v">>, <<"s">>>>

MCBegins == [w \in StatusValues \cup {"r", "fail"} |->
                CASE w = "r" -> {"running"} [] w = "fail" -> {"failed"} [] OTHER -> {w}]

Keyed(token, words, text) == [token |-> token, words |-> words, text |-> text]
MCTyped == {Keyed("none", {}, <<"e">>), Keyed("none", {}, <<"a", "v">>), Keyed("bare", {}, <<>>),
            Keyed("list", {"r"}, <<>>), Keyed("list", {"running", "completed"}, <<"a">>),
            Keyed("comma", {"running"}, <<>>), Keyed("comma", {"failed", "fail"}, <<>>)}

MCBookmarks ==
    {[page |-> "reviews", query |-> [status |-> {"running", "completed", "r"}, sort |-> "spend"]],
     [page |-> "reviews", query |-> [status |-> {"completed"}, place |-> {1}, dir |-> "asc"]],
     [page |-> "sla", query |-> [sev |-> {0}, sort |-> "age", dir |-> "asc", policy |-> (1 :> 20 @@ 2 :> 0)]]}
=============================================================================
