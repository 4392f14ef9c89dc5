------------------------------ MODULE Observers ------------------------------
(***************************************************************************)
(* The composite observer of trajectory generation (totg/observers.cpp):   *)
(* it passes each event on to its observers in turn, and refuses to be     *)
(* called again by one of them while it does.  An observer may return,     *)
(* throw, add another observer, or generate a trajectory that is observed  *)
(* by the same composite.                                                  *)
(*                                                                         *)
(* Abstractions.  The calls in progress are a stack of frames: a           *)
(* generation with its latest event, a dispatch of an event, a dispatch of *)
(* a failure; the last two with the observer whose turn it is.  A          *)
(* generation emits its events in the order that TrajectoryGeneration's    *)
(* EventsInOrder allows and may fail at any of them.                       *)
(***************************************************************************)
EXTENDS Integers, SequencesExt

CONSTANTS
  FailureReactions,  \* what observers may do when they are told of a failure
  MaxDepth,          \* bound on the frames on the stack
  MaxEvents,         \* bound on the events of a generation
  MaxObservers       \* bound on observers_

VARIABLES
  observers,    \* observers_: the number of them
  dispatching,  \* dispatching_
  stack,        \* the calls in progress, innermost first
  heard,        \* what each observer heard of the outermost generation
  ending        \* how the latest outermost generation ended

observerVars == <<observers, dispatching, stack, heard, ending>>

Generation(last, count) == [call |-> "generation", event |-> last, turn |-> count]
Dispatch(event) == [call |-> "dispatch", event |-> event, turn |-> 1]
Failure == [call |-> "failure", event |-> "failed", turn |-> 1]
Thrown == [call |-> "thrown", event |-> "none", turn |-> 0]

Follows(last) ==
  CASE last \in {"none", "extended"} -> {"forward"}
    [] last = "forward" -> {"hit", "backward"}
    [] last = "hit" -> {"backward"}
    [] last = "backward" -> {"extended"}

ObserversInit ==
  /\ observers = 2
  /\ dispatching = FALSE
  /\ stack = <<>>
  /\ heard = [i \in 1..2 |-> <<>>]
  /\ ending = "none"

Top == Head(stack)
In(call) == stack # <<>> /\ Top.call = call
Below == Tail(stack)
Replace(frame) == <<frame>> \o Below
Enter(frame) == Len(stack) < MaxDepth /\ stack' = <<frame>> \o stack

\* Outside of a dispatch an observer is added without more ado.
add_observer ==
  /\ stack = <<>>
  /\ observers < MaxObservers
  /\ observers' = observers + 1
  /\ heard' = Append(heard, <<>>)
  /\ ending' = "none"
  /\ UNCHANGED <<dispatching, stack>>

Generate ==
  /\ stack = <<>>
  /\ Enter(Generation("none", 0))
  /\ heard' = [i \in 1..observers |-> <<>>]
  /\ ending' = "none"
  /\ UNCHANGED <<observers, dispatching>>

\* A generation has thrown: on_failed is told before its caller is, and does nothing while
\* the composite dispatches an event.
ThrownFrom(rest) == stack' = IF dispatching' THEN <<Thrown>> \o rest ELSE <<Failure, Thrown>> \o rest

\* The composite's event handlers: the reentrancy guard throws or sets the flag.
Emit(event) ==
  /\ In("generation")
  /\ event \in Follows(Top.event) /\ Top.turn < MaxEvents
  /\ UNCHANGED <<observers, heard, ending>>
  /\ IF dispatching
       THEN UNCHANGED dispatching /\ ThrownFrom(Below)
       ELSE /\ dispatching' = TRUE
            /\ stack' = <<Dispatch(event), Generation(event, Top.turn + 1)>> \o Below

\* The generation fails on its own, between two events.
Fails ==
  /\ In("generation")
  /\ UNCHANGED <<observers, dispatching, heard, ending>>
  /\ ThrownFrom(Below)

\* A generation that has ended returns to its caller, or throws to it.
Succeeds ==
  /\ In("generation") /\ Top.event = "extended"
  /\ stack' = Below
  /\ ending' = IF Below = <<>> THEN "made" ELSE ending
  /\ UNCHANGED <<observers, dispatching, heard>>

Hears(event) ==
  heard' = IF Top.turn <= Len(heard) THEN [heard EXCEPT ![Top.turn] = Append(@, event)] ELSE heard

Turned == [Top EXCEPT !.turn = @ + 1]

\* Fault: the flag is cleared after the loop, and not when an observer throws.
GuardReleased_late(thrown) == IF thrown THEN dispatching' = dispatching ELSE dispatching' = FALSE

\* The guard's destructor, at the end of the handler or when an observer throws.
GuardReleased(thrown) == dispatching' = FALSE

\* The observer whose turn it is hears of the event, and returns, or calls add_observer,
\* which the guard refuses with an exception that the observer catches.
Told ==
  /\ In("dispatch") /\ Top.turn <= observers
  /\ Hears(Top.event)
  /\ stack' = Replace(Turned)
  /\ UNCHANGED <<observers, dispatching, ending>>

\* It throws, or lets the refusal through: the handler throws into the generation.
Throws ==
  /\ In("dispatch") /\ Top.turn <= observers
  /\ Hears(Top.event)
  /\ GuardReleased(TRUE)
  /\ ThrownFrom(Tail(Below))
  /\ UNCHANGED <<observers, ending>>

\* It generates another trajectory, observed by the same composite.
Nests ==
  /\ In("dispatch") /\ Top.turn <= observers
  /\ Len(stack) < MaxDepth
  /\ Hears(Top.event)
  /\ stack' = <<Generation("none", 0)>> \o Replace(Turned)
  /\ UNCHANGED <<observers, dispatching, ending>>

Dispatched ==
  /\ In("dispatch") /\ Top.turn > observers
  /\ stack' = Below
  /\ GuardReleased(FALSE)
  /\ UNCHANGED <<observers, heard, ending>>

\* on_failed: the flag is tested, but not set, and the observer may not throw.
ToldOfFailure(reaction) ==
  /\ In("failure") /\ Top.turn <= observers
  /\ Hears("failed")
  /\ reaction = "adds" => observers < MaxObservers
  /\ reaction = "nests" => Len(stack) < MaxDepth
  /\ observers' = IF reaction = "adds" /\ ~dispatching THEN observers + 1 ELSE observers
  /\ stack' = (IF reaction = "nests" THEN <<Generation("none", 0)>> ELSE <<>>) \o Replace(Turned)
  /\ UNCHANGED <<dispatching, ending>>

FailureTold ==
  /\ In("failure") /\ Top.turn > observers
  /\ stack' = Below
  /\ UNCHANGED <<observers, dispatching, heard, ending>>

\* The exception arrives at the caller of create. An observer that nested catches it, or
\* lets it through while it is told of an event.
Caught ==
  /\ In("thrown")
  /\ stack' = Below
  /\ ending' = IF Below = <<>> THEN "failed" ELSE ending
  /\ UNCHANGED <<observers, dispatching, heard>>

LetThrough ==
  /\ In("thrown") /\ Below # <<>> /\ Head(Below).call = "dispatch"
  /\ GuardReleased(TRUE)
  /\ ThrownFrom(Tail(Tail(Below)))
  /\ UNCHANGED <<observers, heard, ending>>

ObserversNext ==
  \/ add_observer \/ Generate \/ \E event \in {"forward", "hit", "backward", "extended"} : Emit(event)
  \/ Fails \/ Succeeds
  \/ Told \/ Throws \/ Nests \/ Dispatched
  \/ \E reaction \in FailureReactions : ToldOfFailure(reaction)
  \/ FailureTold \/ Caught \/ LetThrough

ObserversSpec == ObserversInit /\ [][ObserversNext]_observerVars

-----------------------------------------------------------------------------
(* Properties *)

\* What an observer heard but for the failure.
Events(i) == IF ending = "failed" THEN Front(heard[i]) ELSE heard[i]

\* When a generation is over, its observers have heard the same: an observer misses at
\* most the one event that an earlier one threw at, all are told of a failure exactly
\* once and last, and of none if there was none; also when observers threw, nested and
\* let the refusals through (the guard and on_failed).
AllToldAlike ==
  stack = <<>> /\ ending # "none" =>
    \A i \in 1..observers :
      /\ ending = "failed" => heard[i] # <<>> /\ Last(heard[i]) = "failed"
      /\ \A k \in 1..Len(Events(i)) : Events(i)[k] # "failed"
      /\ IsPrefix(Events(i), Events(1)) /\ Len(Events(1)) - Len(Events(i)) <= 1
      /\ ending = "made" => Events(i) = Events(1)

\* observers.hpp: a call of the composite while it dispatches is refused. No event is
\* dispatched, and no observer added, while an observer is being told of something.
NeverReentered ==
  /\ Cardinality({k \in 1..Len(stack) : stack[k].call \in {"dispatch", "failure"}}) <= 1
  /\ In("failure") => observers = Len(heard)

=============================================================================
