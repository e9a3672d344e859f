----------------------------- MODULE RenderProps -----------------------------
(***************************************************************************)
(* What a template means, beside what its passes make of it.               *)
(***************************************************************************)
EXTENDS DomainProps

\* A template as the tree its blocks form, and the tokens it is written with.
RECURSIVE Written(_)
Written(nodes) ==
  FlattenSeq([i \in DOMAIN nodes |->
    LET node == nodes[i] IN
    CASE Kind(node) = "block" -> << <<"if", node[2]>> >> \o Written(node[3])
                                   \o (IF node[4] = <<>> THEN <<>> ELSE << <<"else">> >> \o Written(node[4]))
                                   \o << <<"endif">> >>
      [] Kind(node) = "turn"  -> << <<"spin">> >> \o FlattenSeq([k \in DOMAIN node[2] |->
                                                       << <<"variation">> >> \o node[2][k]])
                                   \o << <<"endspin">> >>
      [] OTHER                -> <<node>>])

\* What it means: the tokens that are left of it for a lead.
RECURSIVE Meant(_, _, _)
Meant(lead, rng, nodes) ==
  FlattenSeq([i \in DOMAIN nodes |->
    LET node == nodes[i] IN
    CASE Kind(node) = "block" -> Meant(lead, rng, IF EvaluateCondition(lead, node[2]) THEN node[3] ELSE node[4])
      [] Kind(node) = "turn"  -> Picked(node[2], rng)
      [] OTHER                -> <<node>>])

\* A variable or a named token left without a value. A fallback is a value, an empty one
\* too, and of {icebreaker} the absence is no gap.
Gap(lead, node) ==
  LET filled(names) == \E name \in names : ReadVar(lead, name) # "" IN
  CASE Kind(node) = "var"   -> ~filled({node[2]}) /\ node[3] = <<>>
    [] Kind(node) = "named" -> node # <<"named", "icebreaker">> /\ ~filled(Range(LegacyNames[node[2]]))
    [] OTHER                -> FALSE

\* However its blocks are nested, a template renders to the text of the branches its
\* conditions choose, with every token in it resolved; and the variables reported missing
\* are those that left a gap in it: not those of the other branches, nor {icebreaker}
\* (template.go:760-765), nor one with a fallback, even if that is empty (409-412),
\* of which Render's comment (107-109) says otherwise (template.go:111-159, 444-542).
RendersMeaning ==
  case.kind = "render" =>
    LET lead == case.of.lead
        meant == Meant(lead, case.of.rng, case.of.nodes)
        out == Render(lead, case.of.rng, Written(case.of.nodes))
    IN /\ Len(out.text) = Len(meant)
       /\ \A i \in DOMAIN out.text : Kind(out.text[i]) = "text"
       /\ \A i \in Places(meant, "text") : out.text[i] = meant[i]
       /\ \A i \in Places(meant, "var") \cup Places(meant, "named") : Gap(lead, meant[i]) => out.text[i] = Text("")
       /\ out.missing = {meant[i][2] : i \in {k \in DOMAIN meant : Gap(lead, meant[k])}}
=============================================================================
