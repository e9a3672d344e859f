---------------------------- MODULE UnipileErrors ----------------------------
(***************************************************************************)
(* internal/unipile/client.go and errors.go with handleUnipileError of the *)
(* campaign loop: from what comes back of a call to what becomes of the    *)
(* row. The wording of a body is the set of the patterns it matches.       *)
(***************************************************************************)
EXTENDS Integers

(* The patterns of errors.go; "resend" is cannot_resend_yet, which is in two *)
(* of them, "limit" stands for the wordings that name a rate limit only.     *)
Wordings == {"premium", "credit", "reauth", "provider_id", "refused", "weekly", "resend", "limit"}

(* What comes back: nothing, or a status with a body that names its type   *)
(* or not, matches some patterns, and decodes or not.                      *)
NothingBack == [status |-> 0, type |-> "", words |-> {}, decodes |-> FALSE]

IsAPIError(back) == back.status >= 400

(* The error that is no APIError: no answer, or a 2xx body that is no JSON. *)
IsOtherError(back) == back.status = 0 \/ (back.status < 400 /\ ~back.decodes)

Inferred == [premium |-> "premium_required", credit |-> "inmail_credit_exhausted",
             reauth |-> "account_disconnected", provider_id |-> "invalid_provider_id"]

(* Only a body without a type has it inferred, the first pattern first. *)
ErrorType(back) ==
  IF back.type # "" THEN back.type
  ELSE IF "premium" \in back.words THEN Inferred.premium
  ELSE IF "credit" \in back.words THEN Inferred.credit
  ELSE IF "reauth" \in back.words THEN Inferred.reauth
  ELSE IF "provider_id" \in back.words THEN Inferred.provider_id
  ELSE ""

IsPermanent(back) == \/ back.status \in {403, 404, 451}
                     \/ ErrorType(back) \in {Inferred[w] : w \in DOMAIN Inferred}
                     \/ "refused" \in back.words

IsWeeklyCap(back) == back.words \cap {"weekly", "resend"} # {}

IsThrottled(back) == back.status = 429

IsLinkedInRateLimit(back) == back.status = 422 \/ back.words \cap {"resend", "limit"} # {}

IsTransient(back) == back.status \in 500 .. 599

Retried(back) == IsThrottled(back) \/ IsLinkedInRateLimit(back) \/ IsTransient(back)

(* A plausible bug: the status is looked at before the wording.            *)
FateByStatus(back) == CASE IsOtherError(back) \/ Retried(back) -> "released"
                        [] IsAPIError(back) /\ ~Retried(back)  -> "failed"
                        [] OTHER                               -> "performed"

(* failStep or releaseStep; a row whose call returned no error goes on. *)
Fate(back) ==
  CASE IsOtherError(back)                                     -> "released"
    [] IsAPIError(back) /\ (IsPermanent(back) \/ IsWeeklyCap(back) \/ ~Retried(back)) -> "failed"
    [] IsAPIError(back) /\ ~IsPermanent(back) /\ ~IsWeeklyCap(back) /\ Retried(back)  -> "released"
    [] OTHER                                                  -> "performed"
=============================================================================
