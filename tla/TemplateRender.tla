--------------------------- MODULE TemplateRender ---------------------------
(***************************************************************************)
(* internal/domain/template: Render as its passes over a sequence of       *)
(* tokens. A token is a tuple that begins with its kind: text, if, else,   *)
(* endif, spin, variation, endspin, var, choice, named or media. A value   *)
(* is a lower-case text without tokens in it; filters, escapes and the     *)
(* sender's variables (sender.name and the like, read from another record) *)
(* are left out.                                                           *)
(***************************************************************************)
EXTENDS Integers, Sequences, SequencesExt, Functions, Loops

Kind(token) == token[1]
Places(tokens, kind) == {i \in DOMAIN tokens : Kind(tokens[i]) = kind}
Lowest(S) == CHOOSE x \in S : \A y \in S : x <= y
Highest(S) == CHOOSE x \in S : \A y \in S : x >= y
Text(x) == <<"text", x>>
Replaced(tokens, from, to, by) == SubSeq(tokens, 1, from - 1) \o by \o SubSeq(tokens, to + 1, Len(tokens))

(* The lead's fields that stand for a name, in the order they are tried.   *)
FieldsOf == [firstName  |-> <<"FirstName">>,
             fullName   |-> <<"FullName">>,
             nombre     |-> <<"FirstName", "FullName">>,
             company    |-> <<"Company">>,
             position   |-> <<"Position", "JobTitle", "Headline">>,
             headline   |-> <<"Headline", "Position", "JobTitle">>,
             icebreaker |-> <<"Icebreaker", "Enrichment">>]

FirstFilled(lead, fields) == LET i == SelectInSeq(fields, LAMBDA f : lead[f] # "")
                             IN IF i = 0 THEN "" ELSE lead[fields[i]]

(* A lead's own variable counts when no field of that name is filled.      *)
ReadVar(lead, name) == FirstFilled(lead, (IF name \in DOMAIN FieldsOf THEN FieldsOf[name] ELSE <<>>)
                                           \o (IF name \in DOMAIN lead THEN <<name>> ELSE <<>>))

HasPart(text, part) == \E i \in 1 .. Len(text) + 1 - Len(part) : SubSeq(text, i, i + Len(part) - 1) = part

(* One comparison: a variable alone, or what it has to be against a text.  *)
(* A variable that is missing compares as the empty text.                  *)
EvalSimple(lead, simple) ==
  LET left == ReadVar(lead, simple.name) IN
  CASE simple.op = "filled"       -> left # ""
    [] simple.op = "=="           -> left = simple.right
    [] simple.op = "!="           -> left # simple.right
    [] simple.op = "contains"     -> HasPart(left, simple.right)
    [] simple.op = "not_contains" -> ~HasPart(left, simple.right)

(* "A and B or C" is taken from the left, without precedence; a condition  *)
(* is a sequence of joiner and comparison, the first joiner meaning        *)
(* nothing.                                                                *)
EvaluateCondition(lead, cond) ==
  LET upTo[k \in 1 .. Len(cond)] ==
        LET holds == EvalSimple(lead, cond[k][2]) IN
        IF k = 1 THEN holds
        ELSE IF cond[k][1] = "and" THEN upTo[k - 1] /\ holds ELSE upTo[k - 1] \/ holds
  IN Len(cond) > 0 /\ upTo[Len(cond)]

(* The first endif that closes anything closes the last if before it; the  *)
(* first else between the two parts the block.                             *)
Closers(tokens) == {e \in Places(tokens, "endif") : \E b \in Places(tokens, "if") : b < e}
InnermostEnd(tokens) == Lowest(Closers(tokens))
(* A plausible bug: a block is taken from the first if.                    *)
OutermostIf(tokens) == Lowest({b \in Places(tokens, "if") : b < InnermostEnd(tokens)})
InnermostIf(tokens) == Highest({b \in Places(tokens, "if") : b < InnermostEnd(tokens)})
ElsesWithin(tokens, b, e) == {k \in Places(tokens, "else") : b < k /\ k < e}

Branch(tokens, b, e, holds) ==
  LET elses == ElsesWithin(tokens, b, e)
      split == IF elses = {} THEN e ELSE Lowest(elses)
  IN IF holds THEN SubSeq(tokens, b + 1, split - 1) ELSE SubSeq(tokens, split + 1, e - 1)

(* Every round removes a block; the code stops after a hundred.            *)
MaxRounds == 100

ExpandInnermost(lead, tokens) ==
  IF Closers(tokens) = {} THEN tokens
  ELSE LET b == InnermostIf(tokens)  e == InnermostEnd(tokens)
       IN Replaced(tokens, b, e, Branch(tokens, b, e, EvaluateCondition(lead, tokens[b][2])))

RenderConditionals(lead, tokens) ==
  After([out \in Seq(Range(tokens)) |-> ExpandInnermost(lead, out)], tokens)[MaxRounds]

(* The number drawn is rng / Draws of the way through the alternatives.    *)
Draws == 4
Picked(options, rng) == IF options = <<>> THEN <<>> ELSE options[((rng * Len(options)) \div Draws) + 1]

Variations(body) ==
  LET cuts == <<0>> \o SetToSortSeq(Places(body, "variation"), <) \o <<Len(body) + 1>>
      parts == [i \in 1 .. Len(cuts) - 1 |-> SubSeq(body, cuts[i] + 1, cuts[i + 1] - 1)]
  IN SelectSeq(parts, LAMBDA part : part # <<>>)

(* The first spin up to the next endspin, so that blocks cannot be nested. *)
SpinEnds(tokens) == {c \in Places(tokens, "endspin") : \E o \in Places(tokens, "spin") : o < c}

ExpandSpin(rng, tokens) ==
  IF SpinEnds(tokens) = {} THEN tokens
  ELSE LET o == Lowest(Places(tokens, "spin"))  c == Lowest(SpinEnds(tokens))
       IN Replaced(tokens, o, c, Picked(Variations(SubSeq(tokens, o + 1, c - 1)), rng))

RenderSpinBlocks(rng, tokens) ==
  After([out \in Seq(Range(tokens)) |-> ExpandSpin(rng, out)], tokens)[MaxRounds]

(* {{ name | fallback }}: the fallback is a sequence of one text or none.  *)
VarMissing(lead, token) == ReadVar(lead, token[2]) = "" /\ token[3] = <<>>
VarValue(lead, token) == CASE ReadVar(lead, token[2]) # "" -> ReadVar(lead, token[2])
                           [] VarMissing(lead, token)      -> ""
                           [] OTHER                        -> token[3][1]
RenderVariable(lead, token) == IF Kind(token) = "var" THEN Text(VarValue(lead, token)) ELSE token

(* {H|M|N} is a choice by gender when there are three and it is known.     *)
GenderOption == [H |-> 1, M |-> 2, F |-> 2, N |-> 3]
RenderGender(lead, token) ==
  IF Kind(token) = "choice" /\ Len(token[2]) = 3 /\ lead.Gender \in DOMAIN GenderOption
  THEN Text(token[2][GenderOption[lead.Gender]]) ELSE token

(* {nombre}, {empresa}, {cargo}, {icebreaker}, and a media token, which is *)
(* an attachment or a hard error and leaves no text.                       *)
LegacyNames == [nombre |-> <<"firstName", "fullName">>, empresa |-> <<"company">>,
                cargo |-> <<"headline", "position">>, icebreaker |-> <<"icebreaker">>]
NamedValue(lead, token) ==
  LET names == LegacyNames[token[2]]
      i == SelectInSeq(names, LAMBDA name : ReadVar(lead, name) # "")
  IN IF i = 0 THEN "" ELSE ReadVar(lead, names[i])
NamedMissing(lead, token) == token[2] # "icebreaker" /\ NamedValue(lead, token) = ""
RenderNamed(lead, token) == CASE Kind(token) = "named" -> Text(NamedValue(lead, token))
                              [] Kind(token) = "media" -> Text("")
                              [] OTHER                 -> token

(* Spintax: what is left of {A|B|C}.                                       *)
RenderChoice(rng, token) == IF Kind(token) = "choice" THEN Text(Picked(token[2], rng)) ELSE token

(* Each pass rewrites what the one before left.                            *)
Render(lead, rng, tokens) ==
  LET chosen == RenderSpinBlocks(rng, RenderConditionals(lead, tokens))
      legacy == [i \in DOMAIN chosen |-> RenderGender(lead, RenderVariable(lead, chosen[i]))]
  IN [text    |-> [i \in DOMAIN legacy |-> RenderChoice(rng, RenderNamed(lead, legacy[i]))],
      missing |-> {chosen[i][2] : i \in {k \in Places(chosen, "var") : VarMissing(lead, chosen[k])}
                                    \cup {k \in Places(chosen, "named") : NamedMissing(lead, chosen[k])}},
      media   |-> {chosen[i][2] : i \in Places(chosen, "media")}]
=============================================================================
