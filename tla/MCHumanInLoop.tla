--------------------------- MODULE MCHumanInLoop ---------------------------
(* Small instances of HumanInLoop for TLC.                                  *)
EXTENDS HumanInLoop, TLC

CONSTANTS p1, p2, c1, c2

OneProvider == {p1}
TwoProviders == {p1, p2}
TwoIds == {c1, c2}
NoIds == {}
SecondId == {c2}

\* Providers and identifiers are only compared for equality.
Symmetry == Permutations(Providers) \cup Permutations(Ids \ TokenHolders)

CaptchaOnly == {"captcha"}
=============================================================================
