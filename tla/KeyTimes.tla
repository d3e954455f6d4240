------------------------------- MODULE KeyTimes -------------------------------
(* The life of signing keys and tokens (contracts, oidc.ts), in ticks.        *)
EXTENDS Naturals

CONSTANTS
  Life,            \* of a key
  RenewAhead,      \* how long before its end it is replaced
  PublishGrace,    \* how long after its end it is published
  TokenTtl         \* of a token, with the leeway of its check

\* A key is given up RenewAhead before its end and published until PublishGrace
\* after it; in between a token that a request signs with it last, a tick after it
\* took the key, comes to its own end (ACCESS_TOKEN_TTL_BOUNDS in token.ts).
ASSUME KeyTimesAssumption ==
  /\ {Life, RenewAhead, PublishGrace, TokenTtl} \subseteq Nat
  /\ RenewAhead < Life /\ TokenTtl + 1 < RenewAhead + PublishGrace
=============================================================================
