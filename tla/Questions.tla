------------------------------- MODULE Questions -------------------------------
(***************************************************************************)
(* The functions of the program that keep no state - the rules by which    *)
(* wells are typed, windows cut, models chosen, plans made and evaluations *)
(* called for - are asked one question in a behaviour: an input of a kind  *)
(* is there at the start, and one step computes the result.                *)
(***************************************************************************)
VARIABLES
  kind,           \* the rule that is asked
  input,          \* what it is given
  result,         \* what it answers
  done            \* whether it has

questionVars == <<kind, input, result, done>>

Nothing0 == <<>>

\* A question of a kind, before it is answered.
Asked(k, inputs) ==
  /\ kind = k
  /\ input \in inputs
  /\ result = Nothing0
  /\ done = FALSE

\* Nothing is asked: another part of the program runs.
NotAsked(k) ==
  /\ kind = k
  /\ input = Nothing0
  /\ result = Nothing0
  /\ done = FALSE

Open(k) == kind = k /\ ~done

Answer(r) ==
  /\ result' = r
  /\ done' = TRUE
  /\ UNCHANGED <<kind, input>>

Answered(k) == kind = k /\ done
=============================================================================
