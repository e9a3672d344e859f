------------------------------ MODULE MCDomain ------------------------------
(* The cases over which the properties are evaluated. *)
EXTENDS RenderProps, TLC, FiniteSets

\* Sequences of up to four steps: conditions with every pair of branches in and
\* around the sequence, and sound and broken steps of other types.
Step(type) == [Blank EXCEPT !.step_type = type]
Variant(id, weight) == [id |-> id, weight |-> weight, template |-> TRUE]
PlainSteps == {Step("visit_profile"), Step("end"), Step("invite"), Step(""),
               [Step("message") EXCEPT !.template = TRUE],
               [Step("ab_test") EXCEPT !.variants = <<Variant("a", 1), Variant("b", 0)>>]}
OddSteps == {[Step("invite") EXCEPT !.template = TRUE, !.char_limit = n] : n \in {0, 1, 300, 301}}
     \cup {[Step("like_post") EXCEPT !.post_selector = "last_n_posts", !.post_count = n] : n \in {0, 1}}
     \cup {[Step("wait") EXCEPT !.delay = n, !.unit = u] : n \in {-1, 0}, u \in {"", "days", "weeks"}}
     \cup {[Step("ab_test") EXCEPT !.variants = v] :
             v \in {<<Variant("a", 1)>>, <<Variant("a", 1), Variant("a", 1)>>, <<Variant("a", 0), Variant("b", 0)>>}}
Conditions(n) == {[Step("condition") EXCEPT !.predicate = p, !.branch_if_true = t, !.branch_if_false = f] :
                    p \in {"always_true"}, t \in {<<>>} \cup {<<k>> : k \in -1 .. n}, f \in {<<>>} \cup {<<k>> : k \in 0 .. n}}
Four(first) == {<<a, b, c, d>> : a \in first, b \in Conditions(4), c \in Conditions(4), d \in {Step("end")}}
AllSequences == {<<>>} \cup {<<s>> : s \in PlainSteps \cup OddSteps}
                  \cup {<<a, b>> : a, b \in PlainSteps \cup Conditions(2)} \cup Four({Step("visit_profile")})

Delay(value, unit, minPct, maxPct, draw) ==
  [value |-> value, unit |-> unit, minPct |-> minPct, maxPct |-> maxPct, draw |-> draw]
Delays == {Delay(3, "hours", 0, 0, 0), Delay(2, "days", -20, 30, 4), Delay(150, "minutes", -50, 30, 0)}
Config(start, end, lunch, weekends, holidays, respect) ==
  [start |-> start, end |-> end, lunchStart |-> lunch[1], lunchEnd |-> lunch[2],
   weekends |-> weekends, holidays |-> holidays, respect |-> respect]
Configs == {Config(h[1], h[2], l, w, d, r) :
              h \in {<<0, 0>>, <<9, 18>>, <<22, 24>>}, l \in {<<0, 0>>, <<13, 14>>, <<9, 12>>, <<17, 23>>},
              w \in BOOLEAN, d \in {{}, {0, 1, 2, 3}, {4, 7}}, r \in BOOLEAN}
AllDelays == [cfg : {c @@ d : c \in {k \in Configs : k.start = 22 => k.lunchEnd # 23}, d \in Delays}, base : {24 * d + h : d \in 0 .. 8, h \in {0, 5, 6, 9, 10, 14, 15, 16, 20, 21, 23}}]

\* Staircases with gaps, overlaps, falls and percentages below none and above all.
Stair(from, to, pct) == [from |-> from, to |-> to, pct |-> pct]
Stairs == {DefaultStairs, <<>>, <<Stair(2, 4, 50)>>, <<Stair(1, 3, 150), Stair(4, 9, 80)>>,
           <<Stair(1, 5, 20), Stair(4, 9, 10)>>, <<Stair(3, 6, -10), Stair(1, 9, 0)>>, <<Stair(5, 2, 30), Stair(-3, 0, 40)>>}
AllRamps == [action : ToSet(Actions) \cup {"unknown"}, tier : ToSet(Tiers) \cup {"", "unknown"}, day : 1 .. 9,
             ramp : {[kind |-> "off"], LemListRampCurve} \cup [kind : {"stairs"}, stairs : Stairs]
                                     \cup [kind : {"linear"}, start : -1 .. 3, increment : -1 .. 3]]

AllBackoffs == [kind : {"throttle", "transient", "rate_limit", ""}, base : {0, 1, 7}, max : {0, 100},
                jitter : {0, 5, 50}, attempt : -1 .. 11]

AllAnswers == {NothingBack} \cup
  [status : {200, 400, 401, 403, 404, 409, 422, 429, 451, 500, 503, 599, 600},
   type : {"", "invalid_provider_id", "errors/other"}, words : SUBSET Wordings, decodes : BOOLEAN]

Leads == {[FirstName |-> f, FullName |-> "full", Company |-> "", Position |-> "", JobTitle |-> j, Headline |-> "",
           Icebreaker |-> IF f = "" THEN "" ELSE "hi", Enrichment |-> "", Gender |-> g, custom |-> "own"] :
            f \in {"", "first"}, j \in {"", "a job"}, g \in {"", "F"}}
Leaves == {Text("a"), <<"var", "firstName", <<>> >>, <<"var", "company", <<>> >>, <<"var", "company", <<"us">> >>,
           <<"var", "company", <<"">> >>, <<"named", "icebreaker">>,
           <<"var", "custom", <<>> >>, <<"named", "nombre">>, <<"named", "cargo">>, <<"choice", <<"x", "y", "z">> >>,
           <<"media", "foto1">>}
Filled(name) == [name |-> name, op |-> "filled"]
Compared(name, op, right) == [name |-> name, op |-> op, right |-> right]
Asked == {<< <<"", Filled("firstName")>> >>,
          << <<"", Filled("company")>>, <<"or", Compared("headline", "contains", "job")>>,
             <<"and", Compared("firstName", "!=", "")>> >>}
Short == {<<>>} \cup {<<x>> : x \in Leaves}
Turns == {<<"turn", << <<x>>, <<Text("b"), <<"var", "company", <<>> >> >> >> >> : x \in Leaves}
Inner == Turns \cup {<<"block", c, t, f>> : c \in Asked, t \in Short, f \in {<<>>, <<Text("e")>>}}
Outer == {<<"block", c, <<i, x>>, f>> : c \in Asked, i \in Inner, x \in {Text("t")}, f \in {<<>>} \cup {<<j>> : j \in Inner}}
AllRenders == [lead : Leads, rng : {0, 3}, nodes : {<<x, i>> : x \in Leaves, i \in Inner} \cup {<<o>> : o \in Outer}]
=============================================================================
