------------------------------ MODULE MCOutcome ------------------------------
EXTENDS BinanceOutcome

CONSTANT Doubted   \* Codes after which a 503 without a known text is no refusal.

\* What the venue means: bans, rate limits and reasoned rejections are
\* refusals, and so is a 503 that does not say that the outcome is unknown.
Refused(r) ==
  \/ r.status \in {"418", "429"}
  \/ r.status = "400" /\ r.text # "not_json"
  \/ r.status = "503" /\ (r.code = "overload" \/ r.text # "unknown_error") /\ r.code \notin Doubted
  \/ r.status \in {"500", "503"} /\ r.code \in {"post_only", "not_found", "other"}
MCRefusals == {r \in AllReplies : Refused(r)}
=============================================================================
