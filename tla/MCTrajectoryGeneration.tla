------------------------ MODULE MCTrajectoryGeneration ------------------------
(***************************************************************************)
(* TrajectoryGeneration on paths of one to three segments and four to six  *)
(* units: one for each thing that can stop a forward pass.                 *)
(***************************************************************************)
EXTENDS TrajectoryGeneration

Seg(start, end, acc, vel, delta, turns, corner, admits) ==
  [start |-> start, end |-> end,
   acc |-> [s \in start..end |-> acc[s - start + 1]],
   vel |-> [s \in start..end |-> vel[s - start + 1]],
   delta |-> [s \in start..end |-> delta[s - start + 1]],
   turns |-> turns, corner |-> corner, admits |-> admits]

\* A blend with an extremum between two lines, the second after a corner.
Dip == <<Seg(0, 1, <<9, 9>>, <<3, 3>>, <<-1, -1>>, {}, FALSE, FALSE),
         Seg(1, 4, <<2, 1, 2, 3>>, <<3, 3, 3, 3>>, <<-1, -1, -1, -1>>, {2, 4}, TRUE, FALSE),
         Seg(4, 6, <<9, 9, 9>>, <<2, 2, 2>>, <<-1, -1, -1>>, {}, FALSE, FALSE)>>

\* The acceleration curve steps down and up again.
Step == <<Seg(0, 2, <<9, 9, 9>>, <<3, 3, 2>>, <<-1, -1, -1>>, {}, FALSE, TRUE),
          Seg(2, 3, <<1, 1>>, <<2, 2>>, <<-1, -1>>, {}, FALSE, TRUE),
          Seg(3, 5, <<9, 9, 9>>, <<2, 3, 3>>, <<-1, -1, -1>>, {}, FALSE, FALSE)>>

\* A trap on the velocity curve with an escape, and a second one.
Trap == <<Seg(0, 2, <<9, 9, 9>>, <<3, 2, 1>>, <<1, 1, 1>>, {}, FALSE, FALSE),
          Seg(2, 6, <<9, 9, 9, 9, 9>>, <<1, 1, 2, 1, 1>>, <<1, -1, 1, -1, -1>>, {}, FALSE, FALSE)>>

\* A trap that lasts to the end of the path.
DeadEnd == <<Seg(0, 1, <<9, 9>>, <<2, 2>>, <<-1, -1>>, {}, FALSE, FALSE),
             Seg(1, 4, <<9, 9, 9, 9>>, <<2, 2, 1, 1>>, <<-1, 1, 1, 1>>, {}, FALSE, FALSE)>>

\* An extremum where the velocity curve falls away.
Cross == <<Seg(0, 4, <<3, 3, 2, 3, 3>>, <<3, 3, 2, 1, 2>>, <<-1, -1, 1, 1, -1>>, {2}, FALSE, FALSE)>>

\* An escape, then an extremum, then a fall of the acceleration curve.
Both == <<Seg(0, 6, <<9, 9, 9, 9, 1, 2, 1>>, <<1, 1, 1, 1, 1, 1, 1>>,
              <<1, 1, 1, -1, -1, -1, -1>>, {4}, FALSE, FALSE)>>

\* A circular segment between a shorter and a longer one, with curves that dip, step and
\* cross: what a search meets together, and more than one search between two results.
Mixed ==
  {<<Seg(0, 1, <<3, 3>>, <<2, 2>>, <<1, 1>>, {}, FALSE, TRUE),
     Seg(1, 3, acc, vel, d2, {1, 2, 3}, c2, a2),
     Seg(3, 5, <<2, 1, 2>>, <<2, 2, 2>>, <<1, -1, -1>>, {3, 4}, FALSE, FALSE)>> :
     acc \in {<<3, 1, 2>>, <<2, 2, 3>>}, vel \in {<<2, 2, 2>>, <<2, 1, 1>>},
     d2 \in {<<1, -1, 1>>, <<1, 1, -1>>}, c2 \in BOOLEAN, a2 \in BOOLEAN}

MCPaths == {Dip, Step, Trap, DeadEnd, Cross, Both} \cup Mixed

=============================================================================
