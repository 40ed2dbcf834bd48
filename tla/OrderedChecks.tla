--------------------------- MODULE OrderedChecks ---------------------------
(* A validation that returns at its first failed check.                     *)
EXTENDS Naturals

Ok == "Ok"

First(places) == CHOOSE i \in places : \A j \in places : i <= j

\* Each check is a pair: when it fails, and what the code returns then.
FirstOf(checks, default) ==
    LET failed == {i \in DOMAIN checks : checks[i][1]}
    IN  IF failed = {} THEN default ELSE checks[First(failed)][2]
FirstFailure(checks) == FirstOf(checks, Ok)

\* The first verdict of a sequence that is not Ok: a loop that stops at it,
\* or validations one after the other.
FirstVerdict(verdicts) ==
    LET bad == {i \in DOMAIN verdicts : verdicts[i] # Ok}
    IN  IF bad = {} THEN Ok ELSE verdicts[First(bad)]
=============================================================================
