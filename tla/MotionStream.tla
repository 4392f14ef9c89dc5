----------------------------- MODULE MotionStream -----------------------------
(***************************************************************************)
(* What a streaming session promises, whatever it does to keep it: a plan  *)
(* of motions, each starting at the instant its predecessor ends, sampled  *)
(* in order and forward only.  A motion that samples have left is settled; *)
(* the one being sampled may be revised as long as what samples were taken *)
(* from is kept; at most one motion waits behind it.                       *)
(***************************************************************************)
EXTENDS Integers, Sequences

CONSTANTS
  Trajectory,   \* sequences of integration points [t, m]
  Period        \* sample period, in ticks

VARIABLES
  plan,     \* motions in order, each with the global time it starts at
  running,  \* index of the motion the latest sample came from, or 0
  now       \* global time of the latest sample, or 0

vars == <<plan, running, now>>

Ends(item) == item.at + item.motion[Len(item.motion)].t
PlanEnd == IF plan = <<>> THEN 0 ELSE Ends(plan[Len(plan)])

Init == plan = <<>> /\ running = 0 /\ now = 0

\* A motion joins the end of the plan.
Follow(tr) ==
  /\ Len(plan) < 2 \/ running = Len(plan)
  /\ plan' = Append(plan, [at |-> PlanEnd, motion |-> tr])
  /\ UNCHANGED <<running, now>>

\* tr agrees with item on every integration point that starts by now.
Keeps(item, tr) ==
  \A i \in 1..Len(item.motion) :
    item.at + item.motion[i].t <= now => i <= Len(tr) /\ tr[i] = item.motion[i]

\* The last motion is replaced: freely before it runs; afterwards only by one that
\* keeps what has been sampled and goes on past the next sample.
Revise(tr) ==
  /\ plan # <<>>
  /\ LET item == plan[Len(plan)] IN
       /\ running = Len(plan) => Keeps(item, tr) /\ now + Period < item.at + tr[Len(tr)].t
       /\ plan' = [plan EXCEPT ![Len(plan)] = [item EXCEPT !.motion = tr]]
  /\ UNCHANGED <<running, now>>

\* The first sample is the start of the plan.
Begin ==
  /\ running = 0
  /\ plan # <<>>
  /\ running' = 1
  /\ now' = 0
  /\ UNCHANGED plan

\* A sample at most one period on, within the motion being sampled.
Sample ==
  /\ running > 0
  /\ now' \in (now + 1)..(now + Period)
  /\ now' <= Ends(plan[running])
  /\ UNCHANGED <<plan, running>>

\* The first sample of the next motion.  The instant between the two motions is
\* sampled once: by this sample unless the motion behind has done so.
Cross ==
  /\ running > 0
  /\ running < Len(plan)
  /\ running' = running + 1
  /\ now' \in (now + 1)..(now + Period)
  /\ now' <= Ends(plan[running'])
  /\ IF now < plan[running'].at THEN now' = plan[running'].at ELSE TRUE
  /\ UNCHANGED plan

Next ==
  \/ \E tr \in Trajectory : Follow(tr) \/ Revise(tr)
  \/ Begin
  \/ Sample
  \/ Cross

Spec == Init /\ [][Next]_vars

=============================================================================
