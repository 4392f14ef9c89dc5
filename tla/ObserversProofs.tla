---------------------------- MODULE ObserversProofs ----------------------------
(***************************************************************************)
(* What the observers of a generation hear, for any number of them and any *)
(* number of events, as long as none calls back when told of a failure.    *)
(***************************************************************************)
EXTENDS Observers, SequenceTheorems, TLAPS

Event == {"forward", "hit", "backward", "extended"}

\* A dispatch at its j-th observer.
Telling(e, j) == [call |-> "dispatch", event |-> e, turn |-> j]
TellingFailure(j) == [call |-> "failure", event |-> "failed", turn |-> j]

\* The first observers have heard one event more than the others.
HeardUpTo(e, j) ==
  \E history \in Seq(Event) : \A i \in 1..observers :
    heard[i] = IF i < j THEN Append(history, e) ELSE history

\* What an observer heard of a generation that failed at e, or when nobody was told.
Own(history, e, thrower, i) == IF i < thrower THEN Append(history, e) ELSE history

FailedUpTo(j) ==
  \E history \in Seq(Event), e \in Event, thrower \in Nat \ {0} : \A i \in 1..observers :
    heard[i] = IF i < j THEN Append(Own(history, e, thrower, i), "failed")
               ELSE Own(history, e, thrower, i)

Resting == stack = <<>> /\ ~dispatching /\ AllToldAlike

Generating ==
  /\ \E g : stack = <<g>> /\ g.call = "generation"
  /\ ~dispatching
  /\ \E history \in Seq(Event) : \A i \in 1..observers : heard[i] = history

\* An event is told; an observer may generate, and have that refused.
Amid(e, j, g) ==
  /\ dispatching /\ e \in Event /\ j \in 1..observers + 1
  /\ g.call = "generation" /\ HeardUpTo(e, j)

Dispatching ==
  \E e, j, g : /\ Amid(e, j, g)
              /\ \/ stack = <<Telling(e, j), g>>
                 \/ stack = <<Generation("none", 0), Telling(e, j), g>>
                 \/ stack = <<Thrown, Telling(e, j), g>>

Failing ==
  /\ ~dispatching
  /\ \/ \E j \in 1..observers + 1 : stack = <<TellingFailure(j), Thrown>> /\ FailedUpTo(j)
     \/ stack = <<Thrown>> /\ FailedUpTo(observers + 1)

ObserversInv ==
  /\ observers \in Nat \ {0} /\ heard \in Seq(Seq(Event \cup {"failed"})) /\ Len(heard) = observers
  /\ Resting \/ Generating \/ Dispatching \/ Failing

-----------------------------------------------------------------------------
(* Stacks and histories *)

LEMMA Stacks ==
  ASSUME NEW a, NEW b, NEW c
  PROVE  /\ Head(<<a>>) = a /\ Head(<<a, b>>) = a /\ Head(<<a, b, c>>) = a
         /\ Tail(<<a>>) = <<>> /\ Tail(<<a, b>>) = <<b>> /\ Tail(<<a, b, c>>) = <<b, c>>
         /\ <<a>> \o <<>> = <<a>> /\ <<a>> \o <<b>> = <<a, b>> /\ <<a>> \o <<b, c>> = <<a, b, c>>
         /\ <<a, b>> \o <<>> = <<a, b>> /\ <<>> \o <<a, b>> = <<a, b>>
         /\ <<a>> # <<>> /\ <<a, b>> # <<>> /\ <<a, b, c>> # <<>>
<1> DEFINE S == {a, b, c}
<1>1. a \in S /\ b \in S /\ c \in S
  OBVIOUS
<1>2. /\ Head(<<a>>) = a /\ Head(<<a, b>>) = a /\ Head(<<a, b, c>>) = a
      /\ <<a>> # <<>> /\ <<a, b>> # <<>> /\ <<a, b, c>> # <<>>
  OBVIOUS
<1>3. Tail(<<a>>) = <<>> /\ Tail(<<a, b>>) = <<b>>
  OBVIOUS
<1>4. Tail(<<a, b, c>>) = <<b, c>>
  OBVIOUS
<1>5. <<a>> \o <<>> = <<a>> /\ <<a, b>> \o <<>> = <<a, b>>
  OBVIOUS
<1>6. <<a>> \o <<b>> = <<a, b>>
  <2> DEFINE u == <<a>> \o <<b>>
  <2>1. <<a>> \in Seq(S) /\ <<b>> \in Seq(S) /\ <<a, b>> \in Seq(S) /\ Len(<<a>>) = 1 /\ Len(<<b>>) = 1
    BY <1>1
  <2>2. u \in Seq(S) /\ Len(u) = 2
    BY <2>1
  <2>3. u[1] = a /\ u[2] = b
    BY <2>1
  <2> HIDE DEF u
  <2>4. u = <<a, b>>
    BY <2>1, <2>2, <2>3
  <2> QED
    BY <2>4 DEF u
<1>7. <<a>> \o <<b, c>> = <<a, b, c>>
  <2> DEFINE u == <<a>> \o <<b, c>>
  <2>1. <<a>> \in Seq(S) /\ <<b, c>> \in Seq(S) /\ <<a, b, c>> \in Seq(S) /\ Len(<<a>>) = 1 /\ Len(<<b, c>>) = 2
    BY <1>1
  <2>2. u \in Seq(S) /\ Len(u) = 3
    BY <2>1
  <2>3. u[1] = a /\ u[2] = b /\ u[3] = c
    BY <2>1
  <2> HIDE DEF u
  <2>4. u = <<a, b, c>>
    BY <2>1, <2>2, <2>3
  <2> QED
    BY <2>4 DEF u
<1>8. <<>> \o <<a, b>> = <<a, b>>
  OBVIOUS
<1> QED
  BY <1>2, <1>3, <1>4, <1>5, <1>6, <1>7, <1>8

LEMMA Pushes ==
  ASSUME NEW a, NEW b, NEW c, NEW rest, rest = <<b, c>>
  PROVE  <<a>> \o rest = <<a, b, c>>
<1> DEFINE S == {a, b, c}
           u == <<a>> \o rest
<1>1. rest \in Seq(S) /\ Len(rest) = 2 /\ rest[1] = b /\ rest[2] = c
  OBVIOUS
<1>2. <<a>> \in Seq(S) /\ Len(<<a>>) = 1 /\ <<a>>[1] = a /\ <<a, b, c>> \in Seq(S)
  OBVIOUS
<1> HIDE DEF S
<1>3. u \in Seq(S) /\ Len(u) = 3 /\ u[1] = a /\ u[2] = b /\ u[3] = c
  BY <1>1, <1>2
<1> HIDE DEF u
<1>4. u = <<a, b, c>>
  BY <1>2, <1>3
<1> QED
  BY <1>4 DEF u

LEMMA Histories ==
  ASSUME NEW history \in Seq(Event), NEW e \in Event \cup {"failed"}
  PROVE  /\ Append(history, e) \in Seq(Event \cup {"failed"})
         /\ history \in Seq(Event \cup {"failed"})
         /\ Append(history, e) # <<>> /\ Last(Append(history, e)) = e
         /\ Front(Append(history, e)) = history
         /\ Len(Append(history, e)) = Len(history) + 1
         /\ IsPrefix(history, history) /\ IsPrefix(history, Append(history, e))
         /\ e \in Event => Append(history, e) \in Seq(Event)
<1> DEFINE on == Append(history, e)
<1>1. on \in Seq(Event \cup {"failed"}) /\ history \in Seq(Event \cup {"failed"})
  OBVIOUS
<1>2. on # <<>> /\ Len(on) = Len(history) + 1 /\ on[Len(on)] = e
  OBVIOUS
<1>3. \A k \in 1..Len(history) : on[k] = history[k]
  OBVIOUS
<1>4. SubSeq(on, 1, Len(history)) = history /\ SubSeq(history, 1, Len(history)) = history
  OBVIOUS
<1>5. Front(on) = history
  BY <1>2, <1>4 DEF Front
<1>6. e \in Event => on \in Seq(Event)
  OBVIOUS
<1> QED
  BY <1>1, <1>2, <1>4, <1>5, <1>6 DEF Last, IsPrefix

-----------------------------------------------------------------------------
(* Hearing *)

LEMMA HearsEvent ==
  ASSUME ObserversInv, NEW e \in Event, NEW j \in 1..observers, HeardUpTo(e, j),
         observers' = observers, heard' = [heard EXCEPT ![j] = Append(@, e)]
  PROVE  HeardUpTo(e, j + 1)'
<1>1. PICK history \in Seq(Event) : \A i \in 1..observers :
        heard[i] = IF i < j THEN Append(history, e) ELSE history
  BY DEF HeardUpTo
<1>2. observers \in Nat /\ DOMAIN heard = 1..observers
  BY DEF ObserversInv
<1>3. \A i \in 1..observers : heard'[i] = IF i = j THEN Append(heard[j], e) ELSE heard[i]
  BY <1>2
<1>4. \A i \in 1..observers : heard'[i] = IF i < j + 1 THEN Append(history, e) ELSE history
  <2>1. TAKE i \in 1..observers
  <2>2. CASE i = j
    BY <1>1, <1>2, <1>3, <2>2
  <2>3. CASE i # j
    <3>1. (i < j) = (i < j + 1)
      BY <1>2, <2>3
    <3> QED
      BY <1>1, <1>3, <2>3, <3>1
  <2> QED
    BY <2>2, <2>3
<1> QED
  BY <1>4 DEF HeardUpTo

LEMMA HearsFailure ==
  ASSUME ObserversInv, NEW j \in 1..observers, FailedUpTo(j),
         observers' = observers, heard' = [heard EXCEPT ![j] = Append(@, "failed")]
  PROVE  FailedUpTo(j + 1)'
<1>1. PICK history \in Seq(Event), e \in Event, thrower \in Nat \ {0} : \A i \in 1..observers :
        heard[i] = IF i < j THEN Append(Own(history, e, thrower, i), "failed")
                   ELSE Own(history, e, thrower, i)
  BY DEF FailedUpTo
<1>2. observers \in Nat /\ DOMAIN heard = 1..observers
  BY DEF ObserversInv
<1>3. \A i \in 1..observers : heard'[i] = IF i = j THEN Append(heard[j], "failed") ELSE heard[i]
  BY <1>2
<1>4. \A i \in 1..observers :
        heard'[i] = IF i < j + 1 THEN Append(Own(history, e, thrower, i), "failed")
                    ELSE Own(history, e, thrower, i)
  <2>1. TAKE i \in 1..observers
  <2>2. CASE i = j
    BY <1>1, <1>2, <1>3, <2>2
  <2>3. CASE i # j
    <3>1. (i < j) = (i < j + 1)
      BY <1>2, <2>3
    <3> QED
      BY <1>1, <1>3, <2>3, <3>1
  <2> QED
    BY <2>2, <2>3
<1> QED
  BY <1>4 DEF FailedUpTo

\* A failure at an event that some have heard, or before any has.
LEMMA FailureBegins ==
  ASSUME observers \in Nat \ {0}, NEW e \in Event, NEW j \in Nat \ {0}, HeardUpTo(e, j)
  PROVE  FailedUpTo(1)
<1>1. PICK history \in Seq(Event) : \A i \in 1..observers :
        heard[i] = IF i < j THEN Append(history, e) ELSE history
  BY DEF HeardUpTo
<1>2. \A i \in 1..observers : ~(i < 1) /\ heard[i] = Own(history, e, j, i)
  BY <1>1 DEF Own
<1> QED
  BY <1>2 DEF FailedUpTo

LEMMA HeardTypes ==
  ASSUME ObserversInv, NEW e \in Event \cup {"failed"}, NEW j \in 1..observers,
         heard' = [heard EXCEPT ![j] = Append(@, e)]
  PROVE  heard' \in Seq(Seq(Event \cup {"failed"})) /\ Len(heard') = observers
<1> DEFINE S == Seq(Event \cup {"failed"})
<1>1. heard \in Seq(S) /\ j \in 1..Len(heard)
  BY DEF ObserversInv
<1>2. heard[j] \in S
  BY <1>1
<1>3. Append(heard[j], e) \in S
  BY <1>2
<1> HIDE DEF S
<1>4. heard' \in Seq(S) /\ Len(heard') = Len(heard)
  BY <1>1, <1>3
<1> QED
  BY <1>4 DEF S, ObserversInv

-----------------------------------------------------------------------------
(* The steps of a generation *)

LEMMA InGeneration ==
  ASSUME ObserversInv, In("generation")
  PROVE  \/ /\ Generating /\ Below = <<>>
         \/ \E e, j, g : /\ Amid(e, j, g)
                         /\ Top = Generation("none", 0) /\ Below = <<Telling(e, j), g>>
                         /\ Tail(Below) = <<g>>
<1>1. CASE Resting
  BY <1>1 DEF Resting, In
<1>2. CASE Generating
  BY <1>2, Stacks DEF Generating, Below
<1>3. CASE Dispatching
  <2>1. PICK e, j, g : /\ Amid(e, j, g)
                       /\ \/ stack = <<Telling(e, j), g>>
                          \/ stack = <<Generation("none", 0), Telling(e, j), g>>
                          \/ stack = <<Thrown, Telling(e, j), g>>
    BY <1>3 DEF Dispatching
  <2>2. Telling(e, j).call = "dispatch" /\ Thrown.call = "thrown"
    BY DEF Telling, Thrown
  <2>3. stack = <<Generation("none", 0), Telling(e, j), g>>
    BY <2>1, <2>2, Stacks DEF In, Top
  <2> QED
    BY <2>1, <2>3, Stacks DEF Top, Below
<1>4. CASE Failing
  <2>1. \A j : TellingFailure(j).call = "failure" /\ Thrown.call = "thrown"
    BY DEF TellingFailure, Thrown
  <2> QED
    BY <1>4, <2>1, Stacks DEF Failing, In, Top
<1> QED
  BY <1>1, <1>2, <1>3, <1>4 DEF ObserversInv

LEMMA InDispatch ==
  ASSUME ObserversInv, In("dispatch")
  PROVE  \E e, j, g : /\ Amid(e, j, g) /\ stack = <<Telling(e, j), g>>
                      /\ Top = Telling(e, j) /\ Below = <<g>> /\ Tail(Below) = <<>>
<1>1. CASE Resting
  BY <1>1 DEF Resting, In
<1>2. CASE Generating
  BY <1>2, Stacks DEF Generating, In, Top
<1>3. CASE Dispatching
  <2>1. PICK e, j, g : /\ Amid(e, j, g)
                       /\ \/ stack = <<Telling(e, j), g>>
                          \/ stack = <<Generation("none", 0), Telling(e, j), g>>
                          \/ stack = <<Thrown, Telling(e, j), g>>
    BY <1>3 DEF Dispatching
  <2>2. Generation("none", 0).call = "generation" /\ Thrown.call = "thrown"
    BY DEF Generation, Thrown
  <2>3. stack = <<Telling(e, j), g>>
    BY <2>1, <2>2, Stacks DEF In, Top
  <2> QED
    BY <2>1, <2>3, Stacks DEF Top, Below
<1>4. CASE Failing
  <2>1. \A j : TellingFailure(j).call = "failure" /\ Thrown.call = "thrown"
    BY DEF TellingFailure, Thrown
  <2> QED
    BY <1>4, <2>1, Stacks DEF Failing, In, Top
<1> QED
  BY <1>1, <1>2, <1>3, <1>4 DEF ObserversInv

LEMMA InFailure ==
  ASSUME ObserversInv, In("failure")
  PROVE  /\ ~dispatching
         /\ \E j \in 1..observers + 1 : /\ Top = TellingFailure(j) /\ Below = <<Thrown>>
                                        /\ FailedUpTo(j)
<1>1. CASE Resting
  BY <1>1 DEF Resting, In
<1>2. CASE Generating
  BY <1>2, Stacks DEF Generating, In, Top
<1>3. CASE Dispatching
  <2>1. \A e, j : /\ Telling(e, j).call = "dispatch" /\ Thrown.call = "thrown"
                  /\ Generation("none", 0).call = "generation"
    BY DEF Telling, Thrown, Generation
  <2> QED
    BY <1>3, <2>1, Stacks DEF Dispatching, In, Top
<1>4. CASE Failing
  <2>1. Thrown.call = "thrown"
    BY DEF Thrown
  <2>2. PICK j \in 1..observers + 1 : stack = <<TellingFailure(j), Thrown>> /\ FailedUpTo(j)
    BY <1>4, <2>1, Stacks DEF Failing, In, Top
  <2> QED
    BY <1>4, <2>2, Stacks DEF Failing, Top, Below
<1> QED
  BY <1>1, <1>2, <1>3, <1>4 DEF ObserversInv

LEMMA InThrown ==
  ASSUME ObserversInv, In("thrown")
  PROVE  \/ ~dispatching /\ Below = <<>> /\ FailedUpTo(observers + 1)
         \/ \E e, j, g : /\ Amid(e, j, g) /\ Below = <<Telling(e, j), g>>
                         /\ Tail(Tail(Below)) = <<>>
<1>1. CASE Resting
  BY <1>1 DEF Resting, In
<1>2. CASE Generating
  BY <1>2, Stacks DEF Generating, In, Top
<1>3. CASE Dispatching
  <2>1. PICK e, j, g : /\ Amid(e, j, g)
                       /\ \/ stack = <<Telling(e, j), g>>
                          \/ stack = <<Generation("none", 0), Telling(e, j), g>>
                          \/ stack = <<Thrown, Telling(e, j), g>>
    BY <1>3 DEF Dispatching
  <2>2. Generation("none", 0).call = "generation" /\ Telling(e, j).call = "dispatch"
    BY DEF Generation, Telling
  <2>3. stack = <<Thrown, Telling(e, j), g>>
    BY <2>1, <2>2, Stacks DEF In, Top
  <2> QED
    BY <2>1, <2>3, Stacks DEF Below
<1>4. CASE Failing
  <2>1. \A j : TellingFailure(j).call = "failure"
    BY DEF TellingFailure
  <2>2. stack = <<Thrown>> /\ FailedUpTo(observers + 1)
    BY <1>4, <2>1, Stacks DEF Failing, In, Top
  <2> QED
    BY <1>4, <2>2, Stacks DEF Failing, Below
<1> QED
  BY <1>1, <1>2, <1>3, <1>4 DEF ObserversInv

\* A generation that nothing is told of throws to its caller, by way of the observers.
LEMMA ThrowsOut ==
  ASSUME ~dispatching', ThrownFrom(<<>>), FailedUpTo(1)', observers' \in Nat \ {0}
  PROVE  Failing'
<1>1. stack' = <<TellingFailure(1), Thrown>>
  <2>1. Failure = TellingFailure(1)
    BY DEF Failure, TellingFailure
  <2> QED
    BY <2>1, Stacks DEF ThrownFrom
<1>2. 1 \in 1..observers' + 1
  <2>1. \A n \in Nat \ {0} : 1 \in 1..n + 1
    OBVIOUS
  <2> QED
    BY <2>1
<1> QED
  BY <1>1, <1>2 DEF Failing

LEMMA AmidAlong ==
  ASSUME observers' = observers, heard' = heard
  PROVE  /\ \A e, j : HeardUpTo(e, j)' = HeardUpTo(e, j) /\ FailedUpTo(j)' = FailedUpTo(j)
         /\ \A e, j, g : dispatching' = dispatching => Amid(e, j, g)' = Amid(e, j, g)
BY DEF HeardUpTo, FailedUpTo, Amid

LEMMA NoneHeard ==
  ASSUME ObserversInv, Generating, NEW e \in Event
  PROVE  HeardUpTo(e, 1)
<1>1. PICK history \in Seq(Event) : \A i \in 1..observers : heard[i] = history
  BY DEF Generating
<1>2. \A i \in 1..observers : ~(i < 1)
  BY DEF ObserversInv
<1> QED
  BY <1>1, <1>2 DEF HeardUpTo

-----------------------------------------------------------------------------
(* The steps *)

LEMMA EmitSteps ==
  ASSUME ObserversInv, NEW event \in Event, Emit(event)
  PROVE  ObserversInv'
<1>1. /\ In("generation") /\ observers' = observers /\ heard' = heard
  BY DEF Emit
<1>2. /\ observers' \in Nat \ {0} /\ heard' \in Seq(Seq(Event \cup {"failed"})) /\ Len(heard') = observers'
  BY <1>1 DEF ObserversInv
<1>3. CASE Generating /\ Below = <<>>
  <2>1. ~dispatching /\ dispatching'
    BY <1>3 DEF Generating, Emit
  <2>2. PICK g : stack' = <<Dispatch(event), g>> \o <<>> /\ g.call = "generation"
    BY <1>3, <2>1 DEF Emit, Generation
  <2>3. stack' = <<Telling(event, 1), g>>
    BY <2>2, Stacks DEF Dispatch, Telling
  <2>4. 1 \in 1..observers' + 1
    <3>1. \A n \in Nat \ {0} : 1 \in 1..n + 1
      OBVIOUS
    <3> QED
      BY <1>2, <3>1
  <2>5. HeardUpTo(event, 1)'
    BY <1>1, <1>3, NoneHeard, AmidAlong
  <2> QED
    BY <1>2, <2>1, <2>2, <2>3, <2>4, <2>5 DEF ObserversInv, Dispatching, Amid
<1>4. ASSUME NEW e, NEW j, NEW g, Amid(e, j, g), Below = <<Telling(e, j), g>>
      PROVE  ObserversInv'
  <2>1. dispatching /\ dispatching' = dispatching
    BY <1>4 DEF Amid, Emit
  <2>2. stack' = <<Thrown>> \o Below
    BY <1>4, <2>1 DEF Emit, ThrownFrom
  <2>3. stack' = <<Thrown, Telling(e, j), g>>
    BY <1>4, <2>2, Pushes
  <2>4. Amid(e, j, g)'
    BY <1>1, <1>4, <2>1, AmidAlong
  <2> QED
    BY <1>2, <2>3, <2>4 DEF ObserversInv, Dispatching
<1> QED
  BY <1>1, <1>3, <1>4, InGeneration

LEMMA FailsSteps ==
  ASSUME ObserversInv, Fails
  PROVE  ObserversInv'
<1>1. /\ In("generation") /\ observers' = observers /\ heard' = heard /\ dispatching' = dispatching
      /\ ThrownFrom(Below)
  BY DEF Fails
<1>2. /\ observers' \in Nat \ {0} /\ heard' \in Seq(Seq(Event \cup {"failed"})) /\ Len(heard') = observers'
  BY <1>1 DEF ObserversInv
<1>3. CASE Generating /\ Below = <<>>
  <2>1. HeardUpTo("hit", 1)
    BY <1>3, NoneHeard DEF Event
  <2>2. FailedUpTo(1)
    BY <2>1, FailureBegins DEF ObserversInv, Event
  <2>3. FailedUpTo(1)'
    BY <1>1, <2>2, AmidAlong
  <2>4. ~dispatching' /\ ThrownFrom(<<>>)
    BY <1>1, <1>3 DEF Generating
  <2>5. Failing'
    BY <1>2, <2>3, <2>4, ThrowsOut
  <2> QED
    BY <1>2, <2>5 DEF ObserversInv
<1>4. ASSUME NEW e, NEW j, NEW g, Amid(e, j, g), Below = <<Telling(e, j), g>>
      PROVE  ObserversInv'
  <2>1. stack' = <<Thrown>> \o Below
    BY <1>1, <1>4 DEF Amid, ThrownFrom
  <2>2. stack' = <<Thrown, Telling(e, j), g>>
    BY <1>4, <2>1, Pushes
  <2>3. Amid(e, j, g)'
    BY <1>1, <1>4, AmidAlong
  <2> QED
    BY <1>2, <2>2, <2>3 DEF ObserversInv, Dispatching
<1> QED
  BY <1>1, <1>3, <1>4, InGeneration

\* All have heard the same of a generation that succeeds.
LEMMA SucceedsSteps ==
  ASSUME ObserversInv, Succeeds
  PROVE  ObserversInv'
<1>1. /\ In("generation") /\ observers' = observers /\ heard' = heard /\ dispatching' = dispatching
      /\ Top.event = "extended" /\ stack' = Below
      /\ ending' = IF Below = <<>> THEN "made" ELSE ending
  BY DEF Succeeds
<1>2. Generating /\ Below = <<>>
  <2>1. Generation("none", 0).event = "none"
    BY DEF Generation
  <2> QED
    BY <1>1, <2>1, InGeneration
<1>3. PICK history \in Seq(Event) : \A i \in 1..observers : heard[i] = history
  BY <1>2 DEF Generating
<1>4. ending' = "made" /\ observers \in Nat \ {0}
  BY <1>1, <1>2 DEF ObserversInv
<1>5. \A i \in 1..observers' : Events(i)' = history
  BY <1>1, <1>3, <1>4 DEF Events
<1>6. IsPrefix(history, history) /\ Len(history) - Len(history) <= 1
  BY Histories, "hit" \in Event \cup {"failed"} DEF Event
<1>7. \A k \in 1..Len(history) : history[k] # "failed"
  BY DEF Event
<1>8. 1 \in 1..observers'
  BY <1>1, <1>4
<1>9. AllToldAlike'
  BY <1>1, <1>4, <1>5, <1>6, <1>7, <1>8 DEF AllToldAlike
<1> QED
  BY <1>1, <1>2, <1>9 DEF ObserversInv, Resting, Generating

LEMMA DispatchSteps ==
  ASSUME ObserversInv, Told \/ Throws \/ Nests
  PROVE  ObserversInv'
<1>1. In("dispatch") /\ Top.turn <= observers /\ observers' = observers /\ Hears(Top.event)
  BY DEF Told, Throws, Nests
<1>2. PICK e, j, g : /\ Amid(e, j, g) /\ stack = <<Telling(e, j), g>>
                     /\ Top = Telling(e, j) /\ Below = <<g>> /\ Tail(Below) = <<>>
  BY <1>1, InDispatch
<1>3. Top.turn = j /\ Top.event = e /\ Turned = Telling(e, j + 1)
  BY <1>2 DEF Telling, Turned
<1>4. j \in 1..observers /\ e \in Event /\ observers \in Nat \ {0} /\ Len(heard) = observers
  BY <1>1, <1>2, <1>3 DEF Amid, ObserversInv
<1>5. heard' = [heard EXCEPT ![j] = Append(@, e)]
  BY <1>1, <1>3, <1>4 DEF Hears
<1>6. HeardUpTo(e, j + 1)'
  BY <1>1, <1>2, <1>4, <1>5, HearsEvent DEF Amid
<1>7. heard' \in Seq(Seq(Event \cup {"failed"})) /\ Len(heard') = observers' /\ observers' \in Nat \ {0}
  BY <1>1, <1>4, <1>5, HeardTypes
<1>8. j + 1 \in 1..observers' + 1 /\ j + 1 \in Nat \ {0}
  BY <1>1, <1>4
<1>9. CASE Told \/ Nests
  <2>1. dispatching'
    BY <1>2, <1>9 DEF Amid, Told, Nests
  <2>2. Amid(e, j + 1, g)'
    BY <1>2, <1>4, <1>6, <1>8, <2>1 DEF Amid
  <2>3. Replace(Turned) = <<Telling(e, j + 1), g>>
    BY <1>2, <1>3, Stacks DEF Replace
  <2>4. stack' = Replace(Turned) \/ stack' = <<Generation("none", 0)>> \o Replace(Turned)
    BY <1>9 DEF Told, Nests
  <2>5. stack' = <<Telling(e, j + 1), g>> \/ stack' = <<Generation("none", 0), Telling(e, j + 1), g>>
    BY <2>3, <2>4, Stacks
  <2> QED
    BY <1>7, <2>2, <2>5 DEF ObserversInv, Dispatching
<1>10. CASE Throws
  <2>1. ~dispatching' /\ ThrownFrom(<<>>)
    BY <1>2, <1>10 DEF Throws, GuardReleased
  <2>2. FailedUpTo(1)'
    <3>1. HeardUpTo(e, j + 1)' => FailedUpTo(1)'
      <4>1. SUFFICES ASSUME HeardUpTo(e, j + 1)' PROVE FailedUpTo(1)'
        OBVIOUS
      <4>2. PICK history \in Seq(Event) : \A i \in 1..observers' :
              heard'[i] = IF i < j + 1 THEN Append(history, e) ELSE history
        BY <4>1 DEF HeardUpTo
      <4>3. \A i \in 1..observers' : ~(i < 1) /\ heard'[i] = Own(history, e, j + 1, i)
        BY <1>7, <4>2 DEF Own
      <4> QED
        BY <1>4, <1>8, <4>3 DEF FailedUpTo
    <3> QED
      BY <1>6, <3>1
  <2>3. Failing'
    BY <1>7, <2>1, <2>2, ThrowsOut
  <2> QED
    BY <1>7, <2>3 DEF ObserversInv
<1> QED
  BY <1>9, <1>10

LEMMA DispatchedSteps ==
  ASSUME ObserversInv, Dispatched
  PROVE  ObserversInv'
<1>1. /\ In("dispatch") /\ Top.turn > observers /\ observers' = observers /\ heard' = heard
      /\ stack' = Below /\ dispatching' = FALSE
  BY DEF Dispatched, GuardReleased
<1>2. PICK e, j, g : Amid(e, j, g) /\ Top = Telling(e, j) /\ Below = <<g>>
  BY <1>1, InDispatch
<1>3. j = observers + 1 /\ g.call = "generation" /\ e \in Event
  BY <1>1, <1>2 DEF Amid, Telling, ObserversInv
<1>4. PICK history \in Seq(Event) : \A i \in 1..observers :
        heard[i] = IF i < j THEN Append(history, e) ELSE history
  BY <1>2 DEF Amid, HeardUpTo
<1>5. Append(history, e) \in Seq(Event)
  BY <1>3, Histories
<1>6. \A i \in 1..observers : heard[i] = Append(history, e)
  BY <1>3, <1>4 DEF ObserversInv
<1>7. Generating'
  BY <1>1, <1>2, <1>3, <1>5, <1>6 DEF Generating
<1> QED
  BY <1>1, <1>7 DEF ObserversInv

LEMMA ToldOfFailureSteps ==
  ASSUME ObserversInv, ToldOfFailure("returns")
  PROVE  ObserversInv'
<1>1. /\ In("failure") /\ Top.turn <= observers /\ Hears("failed") /\ observers' = observers
      /\ stack' = <<>> \o Replace(Turned) /\ dispatching' = dispatching
  BY DEF ToldOfFailure
<1>2. PICK j \in 1..observers + 1 : Top = TellingFailure(j) /\ Below = <<Thrown>> /\ FailedUpTo(j)
  BY <1>1, InFailure
<1>3. Top.turn = j /\ Turned = TellingFailure(j + 1)
  BY <1>2 DEF TellingFailure, Turned
<1>4. j \in 1..observers /\ observers \in Nat \ {0} /\ Len(heard) = observers
  BY <1>1, <1>2, <1>3 DEF ObserversInv
<1>5. heard' = [heard EXCEPT ![j] = Append(@, "failed")]
  BY <1>1, <1>3, <1>4 DEF Hears
<1>6. FailedUpTo(j + 1)'
  BY <1>1, <1>2, <1>4, <1>5, HearsFailure
<1>7. heard' \in Seq(Seq(Event \cup {"failed"})) /\ Len(heard') = observers' /\ observers' \in Nat \ {0}
  BY <1>1, <1>4, <1>5, HeardTypes
<1>8. j + 1 \in 1..observers' + 1 /\ ~dispatching'
  BY <1>1, <1>4, InFailure
<1>9. stack' = <<TellingFailure(j + 1), Thrown>>
  <2>1. Replace(Turned) = <<TellingFailure(j + 1), Thrown>>
    BY <1>2, <1>3, Stacks DEF Replace
  <2> QED
    BY <1>1, <2>1, Stacks
<1> QED
  BY <1>6, <1>7, <1>8, <1>9 DEF ObserversInv, Failing

LEMMA FailureToldSteps ==
  ASSUME ObserversInv, FailureTold
  PROVE  ObserversInv'
<1>1. /\ In("failure") /\ Top.turn > observers /\ observers' = observers /\ heard' = heard
      /\ stack' = Below /\ dispatching' = dispatching
  BY DEF FailureTold
<1>2. PICK j \in 1..observers + 1 : Top = TellingFailure(j) /\ Below = <<Thrown>> /\ FailedUpTo(j)
  BY <1>1, InFailure
<1>3. j = observers + 1
  BY <1>1, <1>2 DEF TellingFailure, ObserversInv
<1>4. FailedUpTo(observers + 1)'
  BY <1>1, <1>2, <1>3, AmidAlong
<1>5. Failing'
  BY <1>1, <1>2, <1>4, InFailure DEF Failing
<1> QED
  BY <1>1, <1>5 DEF ObserversInv

\* All have been told of the failure that arrives at the caller.
LEMMA ToldOfAll ==
  ASSUME ObserversInv, FailedUpTo(observers + 1), ending' = "failed",
         observers' = observers, heard' = heard
  PROVE  AllToldAlike'
<1>1. PICK history \in Seq(Event), e \in Event, thrower \in Nat \ {0} : \A i \in 1..observers :
        heard[i] = IF i < observers + 1 THEN Append(Own(history, e, thrower, i), "failed")
                   ELSE Own(history, e, thrower, i)
  BY DEF FailedUpTo
<1>2. observers \in Nat \ {0}
  BY DEF ObserversInv
<1> DEFINE own(i) == Own(history, e, thrower, i)
<1>3. \A i \in 1..observers : heard[i] = Append(own(i), "failed")
  <2>1. TAKE i \in 1..observers
  <2>2. i < observers + 1
    BY <1>2
  <2> QED
    BY <1>1, <2>2
<1>4. "failed" \in Event \cup {"failed"} /\ e \in Event \cup {"failed"}
  OBVIOUS
<1>5. \A i \in Nat \ {0} : own(i) = history \/ own(i) = Append(history, e)
  BY DEF Own
<1>6. Append(history, e) \in Seq(Event) /\ Len(Append(history, e)) = Len(history) + 1
  BY <1>4, Histories
<1>7. own(1) = history => \A i \in 1..observers : own(i) = history
  BY <1>2, <1>6 DEF Own
<1> HIDE DEF own
<1>8. ASSUME NEW i \in 1..observers'
      PROVE  /\ heard'[i] # <<>> /\ Last(heard'[i]) = "failed"
             /\ Events(i)' = own(i) /\ \A k \in 1..Len(own(i)) : own(i)[k] # "failed"
             /\ IsPrefix(own(i), own(1)) /\ Len(own(1)) - Len(own(i)) <= 1
  <2>1. i \in 1..observers /\ i \in Nat \ {0} /\ heard'[i] = Append(own(i), "failed")
    BY <1>2, <1>3
  <2>2. own(i) \in Seq(Event)
    BY <1>5, <1>6, <2>1
  <2>3. heard'[i] # <<>> /\ Last(heard'[i]) = "failed" /\ Front(heard'[i]) = own(i)
    BY <1>4, <2>1, <2>2, Histories
  <2>4. Events(i)' = own(i)
    BY <2>3 DEF Events
  <2>5. \A k \in 1..Len(own(i)) : own(i)[k] # "failed"
    BY <2>2 DEF Event
  <2>6. IsPrefix(own(i), own(1)) /\ Len(own(1)) - Len(own(i)) <= 1
    <3>1. CASE own(i) = own(1)
      <4>1. IsPrefix(own(i), own(i))
        BY <1>4, <2>2, Histories
      <4>2. Len(own(i)) \in Nat
        BY <2>2
      <4> QED
        BY <3>1, <4>1, <4>2
    <3>2. CASE own(i) # own(1)
      <4>1. own(i) = history /\ own(1) = Append(history, e)
        BY <1>5, <1>7, <2>1, <3>2
      <4>2. IsPrefix(history, Append(history, e))
        BY <1>4, Histories
      <4>3. Len(history) \in Nat /\ Len(own(1)) = Len(history) + 1 /\ Len(own(i)) = Len(history)
        BY <1>6, <4>1
      <4>4. IsPrefix(own(i), own(1))
        BY <4>1, <4>2
      <4>5. Len(own(1)) - Len(own(i)) <= 1
        BY <4>3
      <4> QED
        BY <4>4, <4>5
    <3> QED
      BY <3>1, <3>2
  <2> QED
    BY <2>3, <2>4, <2>5, <2>6
<1>9. 1 \in 1..observers'
  BY <1>2
<1> QED
  BY <1>8, <1>9 DEF AllToldAlike

LEMMA ThrownSteps ==
  ASSUME ObserversInv, Caught \/ LetThrough
  PROVE  ObserversInv'
<1>1. In("thrown") /\ observers' = observers /\ heard' = heard
  BY DEF Caught, LetThrough
<1>2. /\ observers' \in Nat \ {0} /\ heard' \in Seq(Seq(Event \cup {"failed"})) /\ Len(heard') = observers'
  BY <1>1 DEF ObserversInv
<1>3. CASE ~dispatching /\ Below = <<>> /\ FailedUpTo(observers + 1)
  <2>1. Caught
    BY <1>3 DEF LetThrough
  <2>2. stack' = <<>> /\ ~dispatching' /\ ending' = "failed"
    BY <1>3, <2>1 DEF Caught
  <2>3. AllToldAlike'
    BY <1>1, <1>3, <2>2, ToldOfAll
  <2> QED
    BY <1>2, <2>2, <2>3 DEF ObserversInv, Resting
<1>4. ASSUME NEW e, NEW j, NEW g, Amid(e, j, g), Below = <<Telling(e, j), g>>, Tail(Tail(Below)) = <<>>
      PROVE  ObserversInv'
  <2>1. CASE Caught
    <3>1. stack' = <<Telling(e, j), g>> /\ dispatching' = dispatching
      BY <1>4, <2>1 DEF Caught
    <3>2. Amid(e, j, g)'
      BY <1>1, <1>4, <3>1, AmidAlong
    <3> QED
      BY <1>2, <3>1, <3>2 DEF ObserversInv, Dispatching
  <2>2. CASE LetThrough
    <3>1. ~dispatching' /\ ThrownFrom(<<>>)
      BY <1>4, <2>2 DEF LetThrough, GuardReleased
    <3>2. e \in Event /\ j \in Nat \ {0} /\ HeardUpTo(e, j) /\ observers \in Nat \ {0}
      BY <1>1, <1>2, <1>4 DEF Amid
    <3>3. FailedUpTo(1)
      BY <3>2, FailureBegins
    <3>4. FailedUpTo(1)'
      BY <1>1, <3>3, AmidAlong
    <3>5. Failing'
      BY <1>2, <3>1, <3>4, ThrowsOut
    <3> QED
      BY <1>2, <3>5 DEF ObserversInv
  <2> QED
    BY <2>1, <2>2
<1> QED
  BY <1>1, <1>3, <1>4, InThrown

LEMMA RestingSteps ==
  ASSUME ObserversInv, add_observer \/ Generate
  PROVE  ObserversInv'
<1>1. stack = <<>> /\ ending' = "none" /\ dispatching' = dispatching
  BY DEF add_observer, Generate
<1>2. ~dispatching
  <2>1. \A a, b, c : <<a>> # <<>> /\ <<a, b>> # <<>> /\ <<a, b, c>> # <<>>
    BY Stacks
  <2> QED
    BY <1>1, <2>1 DEF ObserversInv, Resting, Generating, Dispatching, Failing
<1> DEFINE S == Seq(Event \cup {"failed"})
<1>3. <<>> \in S /\ observers \in Nat \ {0} /\ heard \in Seq(S) /\ Len(heard) = observers
  BY DEF ObserversInv
<1> HIDE DEF S
<1>4. CASE add_observer
  <2>1. observers' = observers + 1 /\ heard' = Append(heard, <<>>) /\ stack' = <<>>
    BY <1>1, <1>4 DEF add_observer
  <2>2. heard' \in Seq(S) /\ Len(heard') = observers' /\ observers' \in Nat \ {0}
    BY <1>3, <2>1
  <2>3. AllToldAlike'
    BY <1>1 DEF AllToldAlike
  <2> QED
    BY <1>1, <1>2, <2>1, <2>2, <2>3 DEF ObserversInv, Resting, S
<1>5. CASE Generate
  <2>1. /\ observers' = observers /\ heard' = [i \in 1..observers |-> <<>>]
        /\ stack' = <<Generation("none", 0)>> \o <<>>
    BY <1>1, <1>5 DEF Generate, Enter
  <2>2. stack' = <<Generation("none", 0)>>
    BY <2>1, Stacks
  <2>3. heard' \in Seq(S) /\ Len(heard') = observers'
    BY <1>3, <2>1
  <2>4. <<>> \in Seq(Event) /\ \A i \in 1..observers' : heard'[i] = <<>>
    BY <2>1
  <2>5. Generating'
    <3>1. Generation("none", 0).call = "generation"
      BY DEF Generation
    <3>2. \E g : stack' = <<g>> /\ g.call = "generation"
      BY <2>2, <3>1
    <3> QED
      BY <1>1, <1>2, <2>4, <3>2 DEF Generating
  <2> QED
    BY <1>3, <2>1, <2>3, <2>5 DEF ObserversInv, S
<1> QED
  BY <1>4, <1>5

-----------------------------------------------------------------------------
(* The theorem *)

\* Observers that let failures be: on_failed returns.
CallsBackNever == FailureReactions \subseteq {"returns"}

LEMMA ObserversInvInit == ObserversInit => ObserversInv
<1> SUFFICES ASSUME ObserversInit PROVE ObserversInv
  OBVIOUS
<1>1. observers = 2 /\ ~dispatching /\ stack = <<>> /\ heard = [i \in 1..2 |-> <<>>] /\ ending = "none"
  BY DEF ObserversInit
<1>2. <<>> \in Seq(Event \cup {"failed"})
  OBVIOUS
<1>3. heard \in Seq(Seq(Event \cup {"failed"})) /\ Len(heard) = 2
  BY <1>1, <1>2
<1> QED
  BY <1>1, <1>3 DEF ObserversInv, Resting, AllToldAlike

LEMMA ObserversInvNext == CallsBackNever /\ ObserversInv /\ [ObserversNext]_observerVars => ObserversInv'
<1> SUFFICES ASSUME CallsBackNever, ObserversInv, [ObserversNext]_observerVars
             PROVE  ObserversInv'
  OBVIOUS
<1>1. CASE UNCHANGED observerVars
  <2>1. /\ observers' = observers /\ dispatching' = dispatching /\ stack' = stack
        /\ heard' = heard /\ ending' = ending
    BY <1>1 DEF observerVars
  <2>2. AllToldAlike => AllToldAlike'
    BY <2>1 DEF AllToldAlike, Events
  <2>3. (Resting => Resting') /\ (Generating => Generating')
    BY <2>1, <2>2 DEF Resting, Generating
  <2>4. (Dispatching => Dispatching') /\ (Failing => Failing')
    BY <2>1, AmidAlong DEF Dispatching, Failing
  <2> QED
    BY <2>1, <2>3, <2>4 DEF ObserversInv
<1>2. ASSUME NEW event \in {"forward", "hit", "backward", "extended"}, Emit(event)
      PROVE  ObserversInv'
  BY <1>2, EmitSteps DEF Event
<1>3. ASSUME NEW reaction \in FailureReactions, ToldOfFailure(reaction)
      PROVE  ObserversInv'
  <2>1. reaction = "returns"
    BY DEF CallsBackNever
  <2> QED
    BY <1>3, <2>1, ToldOfFailureSteps
<1> QED
  BY <1>1, <1>2, <1>3, FailsSteps, SucceedsSteps, DispatchSteps, DispatchedSteps,
     FailureToldSteps, ThrownSteps, RestingSteps DEF ObserversNext

\* Whatever observers do in events, when a generation is over all of them have heard the
\* same but for the event that one of them threw at, and each of a failure once and last.
THEOREM ToldAlike == ASSUME CallsBackNever PROVE ObserversSpec => []AllToldAlike
<1>1. ObserversInv => AllToldAlike
  <2>1. \A a, b, c : <<a>> # <<>> /\ <<a, b>> # <<>> /\ <<a, b, c>> # <<>>
    BY Stacks
  <2>2. Generating \/ Dispatching \/ Failing => stack # <<>>
    BY <2>1 DEF Generating, Dispatching, Failing
  <2> QED
    BY <2>2 DEF ObserversInv, Resting, AllToldAlike
<1>2. ObserversInv /\ [ObserversNext]_observerVars => ObserversInv'
  BY ObserversInvNext
<1> QED
  BY <1>1, <1>2, ObserversInvInit, PTL DEF ObserversSpec

=============================================================================
