------------------------------- MODULE Loops -------------------------------
(* The for loops of the code, as functions of what they begin with.        *)
EXTENDS Naturals

\* A loop of n turns: turn k makes of what is done so far what is done next.
Loop(Turn(_, _), base, n) ==
    LET done[k \in 0 .. n] == IF k = 0 THEN base ELSE Turn(done[k - 1], k)
    IN  done[n]

=============================================================================
