----------------------------- MODULE ModelCalls -----------------------------
(***************************************************************************)
(* internal/ai: one job given to a language model - a posting to rank, a   *)
(* post or a message to classify, a lead to enrich, a reply to write -     *)
(* through the retry loop of the clients and the escalation to the smart   *)
(* model. What the model says is whether its text has the JSON object      *)
(* asked for, and the contact details a reply names; an answer may be cut  *)
(* off while its body is read. Prompts are left out.                       *)
(***************************************************************************)
EXTENDS Naturals, Sequences

CONSTANT MaxAttempts        \* 3 in OpenAIClient.Create and AnthropicClient.Create

ASSUME AttemptsAssumption == MaxAttempts \in Nat \ {0}

Kinds == {"rank_job", "classify_post", "enrich", "classify", "reply"}

\* What a message to classify looks like: its patterns, and whether the prospect
\* wrote something substantive before.
MessagePatterns == {"opt_out", "aggressive", "obvious"}

\* Contact details: two pages of one site and an email there, a URL without a host or that
\* does not parse, a phone, and two numbers of less than eight digits that next to each
\* other are the digits of that phone.
Pages == {"page", "other_page"}
Details == Pages \cup {"broken_url", "email", "phone", "numbers"}

\* What comes back: a text with the object asked for, with another one or with none, a 2xx
\* body that does not decode or that breaks off while it is read, or an error.
Texts == {"object", "odd", "prose"}
Undecoded == {"garbled", "cut"}
Replies == Texts \cup Undecoded \cup {"throttled", "server", "refused", "unreachable"}

Retryable(reply) == reply \in {"throttled", "server", "unreachable"}

VARIABLES
  job,        \* the kind, for a message its patterns and context, and for a reply
              \* the details its authorized context holds
  at,         \* "start", "attempt", "backoff" or "done"
  model,      \* the model asked
  attempts,   \* per model: the answers Create had from it
  last,       \* the last of them
  said,       \* the details in the text of a reply
  stopped,    \* the context of the caller is done
  verdict     \* what the caller gets

vars == <<job, at, model, attempts, last, said, stopped, verdict>>

Escalates == job.kind \in {"classify", "reply"}

Init ==
  /\ job \in [kind : Kinds, patterns : SUBSET MessagePatterns, context : BOOLEAN, known : SUBSET Details]
  /\ job.kind # "classify" => job.patterns = {} /\ ~job.context
  /\ job.kind # "reply" => job.known = {}
  /\ at = "start" /\ model = IF Escalates THEN "fast" ELSE "smart"
  /\ attempts = [m \in {"fast", "smart"} |-> 0]
  /\ last = "none" /\ said = {} /\ stopped = FALSE /\ verdict = "none"

Answer(v) == at' = "done" /\ verdict' = v

\* What a message says by itself, in the order Classify looks for it.
ByPattern ==
  CASE "opt_out" \in job.patterns                      -> "not_interested"
    [] "opt_out" \notin job.patterns /\ "aggressive" \in job.patterns -> "aggressive"
    [] job.patterns = {"obvious"} /\ ~job.context      -> "obvious"
    [] OTHER                                           -> "none"

Begin ==
  /\ at = "start"
  /\ \/ ByPattern # "none" /\ Answer(ByPattern)
     \/ ByPattern = "none" /\ at' = "attempt" /\ UNCHANGED verdict
  /\ UNCHANGED <<job, model, attempts, last, said, stopped>>

\* Create returned an error: with the fast model the caller asks the smart one.
GiveUp(error) ==
  \/ Escalates /\ model = "fast" /\ model' = "smart" /\ at' = "attempt" /\ UNCHANGED verdict
  \/ ~(Escalates /\ model = "fast") /\ Answer(error) /\ UNCHANGED model

\* From the first brace to the last one.
HasObject(text) == text \in {"object", "odd"}

\* The text of a 2xx answer. A ranking, a post's class and an enrichment need an object;
\* of a message, its absence and an intent nobody knows are 'other'.
RankJob(text) == IF HasObject(text) THEN "ranked" ELSE "permanent"
ClassifyPost(text) == IF HasObject(text) THEN "classed" ELSE "permanent"
Enrich(text) == IF HasObject(text) THEN "enriched" ELSE "permanent"
ValidIntent(text) == text = "object"
Intent(text) == IF ValidIntent(text) THEN "intent" ELSE "other"

\* What of a detail is looked for in the authorized context: the whole address of an email,
\* but of a URL only its host, which an email there has too, and of a phone its digits
\* among all those of the context, whatever stands between them. A URL without a host
\* and a short number are not looked for.
Held(detail) ==
  CASE detail \in {"broken_url", "numbers"} -> TRUE
    [] detail \in Pages                     -> job.known \cap (Pages \cup {"email"}) # {}
    [] detail = "phone"                     -> job.known \cap {"phone", "numbers"} # {}
    [] detail = "email"                     -> "email" \in job.known

\* A detail that the context does not hold blocks the reply.
Leaks(details) == {d \in details : ~Held(d)}
Reply(details) == IF Leaks(details) # {} THEN "blocked" ELSE "text"

Read(text, details) == CASE job.kind = "rank_job"      -> RankJob(text)
                         [] job.kind = "classify_post" -> ClassifyPost(text)
                         [] job.kind = "enrich"        -> Enrich(text)
                         [] job.kind = "classify"      -> Intent(text)
                         [] OTHER                      -> Reply(details)

\* A plausible bug: one attempt too many.
AttemptsLeftAfterAll == attempts[model] <= MaxAttempts

\* After the attempt under way.
AttemptsLeft == attempts[model] + 1 < MaxAttempts

\* The error of the last attempt keeps its class, wrapped or not. io.ReadAll's error is
\* dropped, so that a body that breaks off is one that does not decode: not retried, and
\* lasting. Once the caller has stopped the call fails, before or while its body is read.
Attempt ==
  /\ at = "attempt"
  /\ \E reply \in (IF stopped THEN {"unreachable", "cut"} ELSE Replies) :
       /\ last' = reply
       /\ attempts' = [attempts EXCEPT ![model] = @ + 1]
       /\ \/ /\ reply \in Texts /\ UNCHANGED model
             /\ said' \in IF job.kind = "reply" THEN SUBSET Details ELSE {{}}
             /\ Answer(Read(reply, said'))
          \/ reply \in Undecoded \cup {"refused"} /\ GiveUp("permanent") /\ UNCHANGED said
          \/ Retryable(reply) /\ ~AttemptsLeft /\ GiveUp("transient") /\ UNCHANGED said
          \/ /\ Retryable(reply) /\ AttemptsLeft
             /\ at' = "backoff" /\ UNCHANGED <<model, said, verdict>>
  /\ UNCHANGED <<job, stopped>>

\* The select between the timer and ctx.Done: with both ready either is taken.
Elapsed == at = "backoff" /\ at' = "attempt" /\ UNCHANGED <<job, model, attempts, last, said, stopped, verdict>>

Cancelled == at = "backoff" /\ stopped /\ GiveUp("permanent") /\ UNCHANGED <<job, attempts, last, said, stopped>>

\* The process shuts down, or the request that asked is abandoned.
Stop == ~stopped /\ at # "done" /\ stopped' = TRUE /\ UNCHANGED <<job, at, model, attempts, last, said, verdict>>

Next == Begin \/ Attempt \/ Elapsed \/ Cancelled \/ Stop

Spec == Init /\ [][Next]_vars
=============================================================================
