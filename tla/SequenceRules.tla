---------------------------- MODULE SequenceRules ----------------------------
(***************************************************************************)
(* internal/domain/sequence: Validate, the rules a campaign's sequence     *)
(* must meet. Steps are numbered from 0 as in the code. A text is the      *)
(* condition that it is not empty; a number that may be missing is Unset.  *)
(* Nothing in the repository calls Validate: SequenceHandler.Replace       *)
(* stores what it is given, and scheduleNextStep follows step_order.       *)
(***************************************************************************)
EXTENDS Integers, Sequences, Functions

Unset == -1000

NeedsTemplate == {"invite", "message", "send_message", "comment_post", "inmail"}
KnownStepTypes == NeedsTemplate \cup {"visit_profile", "follow", "like_post", "withdraw_invite",
                                      "voice_note", "wait", "condition", "ab_test", "end"}
FirstStepAllowed == {"invite", "visit_profile", "follow", "send_message", "message", "ab_test"}

PostSelectors == {"last_post", "last_n_posts", "last_n_posts:N"}
Units == {"minutes", "hours", "days"}
Metrics == {"reply_rate", "accept_rate", "click_rate"}
KnownPredicates == {"accepted_invite_within_days", "replied_within_days", "visited_profile_within_days",
                    "tag_equals", "always_true", "always_false"}

(* The zero value of the struct; a step is this with some fields set. *)
Blank == [step_type |-> "", template |-> FALSE, char_limit |-> Unset, note_max_chars |-> Unset,
          subject |-> FALSE, audio |-> FALSE, post_selector |-> "", post_count |-> Unset,
          delay |-> Unset, unit |-> "", delay_hours |-> Unset, predicate |-> "",
          branch_if_true |-> <<>>, branch_if_false |-> <<>>, variants |-> <<>>, metric |-> ""]

At(steps, i) == steps[i + 1]
Indices(steps) == 0 .. Len(steps) - 1
Targets(step) == Range(step.branch_if_true) \cup Range(step.branch_if_false)

InviteLimit(step) == IF step.char_limit # Unset THEN step.char_limit
                     ELSE IF step.note_max_chars # Unset THEN step.note_max_chars ELSE 200

InviteFits(step) == InviteLimit(step) \in 1 .. 300

LikeFits(step) == /\ step.post_selector \in PostSelectors \cup {""}
                  /\ step.post_selector = "last_n_posts" /\ step.post_count # Unset => step.post_count >= 1

WaitFits(step) == /\ step.delay # Unset \/ step.delay_hours # Unset
                  /\ step.delay # Unset => step.delay >= 0 /\ step.unit \in Units \cup {""}

(* A plausible bug: a step may branch to itself.                          *)
BranchFitsItself(steps, i, target) == target \in Indices(steps) /\ target >= i

(* A branch leads to a later step of the sequence, so that nothing loops. *)
BranchFits(steps, i, target) == target \in Indices(steps) /\ target > i

ConditionFits(steps, i) == /\ At(steps, i).predicate \in KnownPredicates
                           /\ \A target \in Targets(At(steps, i)) : BranchFits(steps, i, target)

VariantsFit(variants) == /\ Len(variants) >= 2
                         /\ \A k \in DOMAIN variants : /\ variants[k].id # "" /\ variants[k].template
                                                       /\ variants[k].weight >= 0
                         /\ IsInjective([k \in DOMAIN variants |-> variants[k].id])
                         /\ \E k \in DOMAIN variants : variants[k].weight > 0

(* The rules of one step by its type; the first step has one more. *)
StepFits(steps, i) ==
  LET step == At(steps, i) IN
  /\ step.step_type \in KnownStepTypes
  /\ i = 0 => step.step_type \in FirstStepAllowed
  /\ step.step_type \in NeedsTemplate => step.template
  /\ step.step_type = "invite" => InviteFits(step)
  /\ step.step_type = "inmail" => step.subject
  /\ step.step_type = "voice_note" => step.audio
  /\ step.step_type = "like_post" => LikeFits(step)
  /\ step.step_type = "wait" => WaitFits(step)
  /\ step.step_type = "condition" => ConditionFits(steps, i)
  /\ step.step_type = "ab_test" => /\ VariantsFit(step.variants)
                                   /\ step.metric \in Metrics \cup {""}

Valid(steps) == Len(steps) >= 1 /\ \A i \in Indices(steps) : StepFits(steps, i)
=============================================================================
