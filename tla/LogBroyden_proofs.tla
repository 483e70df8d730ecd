-------------------------- MODULE LogBroyden_proofs --------------------------
(***************************************************************************)
(* Theorems about LogBroyden, for any number of markets and iterations and *)
(* any reuse of the Jacobian.                                              *)
(***************************************************************************)
EXTENDS LogBroyden, TLAPS

(* What each stage may rely on. *)

StateAtStart == stage = "start" => world = x

\* The value always is that of the state; the guess is too, until the
\* preconditioner gives a market its old price back.
ValueOfState ==
    stage \in {"precondition", "bsolve"} => fx = world /\ (x = world \/ fail)

NoResultYet == stage # "returned" => result = NoResult

\* B has not been used since it was calculated, and there is an iteration left.
NewJacobian ==
    stage = "loop" /\ iter < MaxIter
        /\ (lsfail \/ (age = 0 /\ iter > 0 /\ MaxReuse > 0))
    => age = 0 /\ jac = FDJac(x, x, x)

\* Together they are inductive.
Relied ==
    /\ StateAtStart /\ ValueOfState /\ StateAtGuess
    /\ NoResultYet /\ NewJacobian
    /\ JacobianTrusted /\ SolutionLeft /\ GivesUpOnNewJacobian

-----------------------------------------------------------------------------
(* Type correctness *)

\* The price that TryPrice sets is one the ring has.
LEMMA IncreasedType ==
    ASSUME TypeOK, Preconditioning
    PROVE  Increased \in Vector /\ PriceBefore \in Level
<1>1. x \in [Markets -> Level] /\ t \in Level /\ j \in Markets
  BY DEF TypeOK, Vector, Preconditioning
<1>2. x[j] \in Level
  BY <1>1
<1>3. (x[j] + 1) % (ItMax + 1) \in Level
  BY <1>2, SolverAssumption DEF Level
<1>4. Increased \in Vector
  BY <1>1, <1>3 DEF Increased, Vector
<1> QED BY <1>1, <1>2, <1>4 DEF PriceBefore

LEMMA TypeInit == Init => TypeOK
<1> SUFFICES ASSUME Init PROVE TypeOK
  OBVIOUS
<1>1. jac \in Jacobian
  BY DEF Init, FDJac, Jacobian
<1>2. 0 \in 0..ItMax - 1 /\ 0 \in Level /\ 1 \in 1..NumMarkets + 1
  BY SolverAssumption DEF Level
<1>3. 0 \in 0..MaxIter /\ 0 \in 0..MaxReuse /\ 0 \in 0..MaxPasses
  BY SolverAssumption
<1> QED BY <1>1, <1>2, <1>3 DEF Init, TypeOK

LEMMA TypeStep == TypeOK /\ [Next]_vars => TypeOK'
<1> SUFFICES ASSUME TypeOK, [Next]_vars PROVE TypeOK'
  OBVIOUS
<1> USE SolverAssumption
<1>1. CASE NothingToSolve
  BY <1>1 DEF NothingToSolve, Return, preVars, loopVars, TypeOK
<1>2. CASE Solve
  <2>1. jac' \in Jacobian
    BY <1>2 DEF Solve, FDJac, Jacobian, TypeOK
  <2>2. j' \in 1..NumMarkets + 1 /\ count' \in 0..ItMax - 1
    BY <1>2 DEF Solve
  <2>3. change' \in BOOLEAN /\ fail' \in BOOLEAN
    BY <1>2 DEF Solve
  <2> QED BY <1>2, <2>1, <2>2, <2>3 DEF Solve, Evaluate, loopVars, TypeOK
<1>3. CASE SolveAgain
  BY <1>3 DEF SolveAgain, preVars, loopVars, TypeOK
<1>4. CASE Responds
  BY <1>4 DEF Responds, Preconditioning, Markets, loopVars, TypeOK
<1>5. CASE TryPrice
  <2>1. Increased \in Vector /\ PriceBefore \in Level
    BY <1>5, IncreasedType DEF TryPrice
  <2>2. world' \in Vector /\ fx' \in Vector /\ t' \in Level
    BY <1>5, <2>1 DEF TryPrice, Evaluate
  <2>3. j \in 1..NumMarkets /\ j' \in 1..NumMarkets + 1 /\ count' \in 0..ItMax - 1
    BY <1>5 DEF TryPrice, Preconditioning, Markets, TypeOK
  <2>4. [x EXCEPT ![j] = PriceBefore] \in Vector
    BY <2>1, <2>3 DEF Vector, Markets, TypeOK
  <2>5. x' \in Vector
    BY <1>5, <2>1, <2>4 DEF TryPrice
  <2>6. change' \in BOOLEAN /\ fail' \in BOOLEAN
    BY <1>5 DEF TryPrice, TypeOK
  <2> QED BY <1>5, <2>2, <2>3, <2>5, <2>6 DEF TryPrice, loopVars, TypeOK
<1>6. CASE Preconditioned
  BY <1>6 DEF Preconditioned, FDJac, Jacobian, preVars, loopVars, TypeOK
<1>7. CASE Bsolve
  <2>1. iter' \in 0..MaxIter /\ age' \in 0..MaxReuse
    BY <1>7 DEF Bsolve
  <2>2. lsfail' \in BOOLEAN
    BY <1>7 DEF Bsolve
  <2> QED BY <1>7, <2>1, <2>2 DEF Bsolve, Evaluate, Return, preVars, TypeOK
<1>8. CASE GradientVanishes
  BY <1>8 DEF GradientVanishes, Return, preVars, loopVars, TypeOK
<1>9. CASE Step
  <2> PICK p \in Vector : \/ Converged(p) \/ Update(p) \/ ResetJacobian(p)
                          \/ GiveUp(p) \/ SearchFailsAgain(p)
    BY <1>9 DEF Step
  <2>1. CASE Converged(p)
    <3>1. lsfail' \in BOOLEAN
      BY <2>1 DEF Converged, Accepted
    <3> QED BY <2>1, <3>1 DEF Converged, Accepted, Return, preVars, TypeOK
  <2>2. CASE Update(p)
    <3>1. lsfail' \in BOOLEAN
      BY <2>2 DEF Update, Accepted
    <3>2. iter' \in 0..MaxIter /\ age' \in 0..MaxReuse
      BY <2>2 DEF Update, Accepted, Looping, TakeStep, TypeOK
    <3> QED BY <2>2, <3>1, <3>2 DEF Update, Accepted, TakeStep, preVars, TypeOK
  <2>3. CASE ResetJacobian(p)
    <3>1. lsfail' \in BOOLEAN
      BY <2>3 DEF ResetJacobian, Accepted
    <3>2. iter' \in 0..MaxIter /\ age' \in 0..MaxReuse
      BY <2>3 DEF ResetJacobian, Accepted, Looping, TakeStep, TypeOK
    <3>3. jac' \in Jacobian
      BY <2>3 DEF ResetJacobian, FDJac, Jacobian, TypeOK
    <3> QED BY <2>3, <3>1, <3>2, <3>3 DEF ResetJacobian, Accepted, TakeStep, preVars, TypeOK
  <2>4. CASE GiveUp(p)
    <3>1. lsfail' \in BOOLEAN
      BY <2>4 DEF GiveUp, Accepted
    <3> QED BY <2>4, <3>1 DEF GiveUp, Accepted, Return, preVars, TypeOK
  <2>5. CASE SearchFailsAgain(p)
    BY <2>5 DEF SearchFailsAgain, Return, preVars, loopVars, TypeOK
  <2> QED BY <2>1, <2>2, <2>3, <2>4, <2>5
<1>10. CASE SearchFails
  <2>1. lsfail' \in BOOLEAN
    BY <1>10 DEF SearchFails
  <2>2. iter' \in 0..MaxIter /\ age' \in 0..MaxReuse
    BY <1>10 DEF SearchFails, Looping, TypeOK
  <2>3. jac' \in Jacobian
    BY <1>10 DEF SearchFails, FDJac, Jacobian, TypeOK
  <2> QED BY <1>10, <2>1, <2>2, <2>3 DEF SearchFails, Evaluate, preVars, TypeOK
<1>11. CASE IterationsEnd
  BY <1>11 DEF IterationsEnd, Return, preVars, loopVars, TypeOK
<1>12. CASE UNCHANGED vars
  BY <1>12 DEF vars, preVars, loopVars, TypeOK
<1> QED BY <1>1, <1>2, <1>3, <1>4, <1>5, <1>6, <1>7, <1>8, <1>9, <1>10, <1>11, <1>12
        DEF Next

\* Every variable keeps its type (LogBroyden::solve, bsolve and
\* jacobian_precondition).
THEOREM TypeCorrect == Spec => []TypeOK
<1>1. TypeOK /\ [Next]_vars => TypeOK'
  BY TypeStep
<1> QED BY TypeInit, <1>1, PTL DEF Spec

-----------------------------------------------------------------------------
(* What the stages rely on *)

LEMMA JacobianFields ==
    \A p, value, state : /\ FDJac(p, value, state).x = p
                         /\ FDJac(p, value, state).fx = value
                         /\ FDJac(p, value, state).world = state
BY DEF FDJac

LEMMA ReliedInit == Init => Relied
BY JacobianFields
   DEF Init, Relied, StateAtStart, ValueOfState, StateAtGuess, NoResultYet, NewJacobian,
       JacobianTrusted, SolutionLeft, GivesUpOnNewJacobian, NoResult, Success, PoorProgress

LEMMA ReliedStep == TypeOK /\ Relied /\ [Next]_vars => Relied'
<1> SUFFICES ASSUME TypeOK, Relied, [Next]_vars PROVE Relied'
  OBVIOUS
<1> USE SolverAssumption, JacobianFields
        DEF Relied, StateAtStart, ValueOfState, StateAtGuess, NoResultYet, NewJacobian,
            JacobianTrusted, SolutionLeft, GivesUpOnNewJacobian, NoResult, Success,
            PoorProgress, MaxIterReached, ZeroGradient
<1>1. CASE NothingToSolve
  BY <1>1 DEF NothingToSolve, Return, preVars, loopVars
<1>2. CASE Solve
  BY <1>2 DEF Solve, Evaluate, loopVars
<1>3. CASE SolveAgain
  BY <1>3 DEF SolveAgain, preVars, loopVars
<1>4. CASE Responds
  BY <1>4 DEF Responds, Preconditioning, loopVars
<1>5. CASE TryPrice
  <2>1. /\ stage = "precondition" /\ stage' = "precondition"
        /\ fx' = world' /\ jac' = jac /\ result' = result
    BY <1>5 DEF TryPrice, Preconditioning, Evaluate
  <2>2. x' = world' \/ fail'
    BY <1>5 DEF TryPrice, Evaluate
  <2>3. fail => fail'
    BY <1>5 DEF TryPrice
  <2>4. ValueOfState'
    BY <2>1, <2>2
  <2>5. JacobianTrusted'
    BY <2>1, <2>3
  <2> QED BY <2>1, <2>4, <2>5
<1>6. CASE Preconditioned
  BY <1>6 DEF Preconditioned, preVars, loopVars
<1>7. CASE Bsolve
  BY <1>7 DEF Bsolve, Evaluate, Return, preVars
<1>8. CASE GradientVanishes
  BY <1>8 DEF GradientVanishes, Return, preVars, loopVars
<1>9. CASE Step
  <2> PICK p \in Vector : \/ Converged(p) \/ Update(p) \/ ResetJacobian(p)
                          \/ GiveUp(p) \/ SearchFailsAgain(p)
    BY <1>9 DEF Step
  <2>1. CASE Converged(p)
    BY <2>1 DEF Converged, Accepted, Looping, Return, preVars
  <2>2. CASE Update(p)
    BY <2>2 DEF Update, Accepted, Looping, TakeStep, preVars, TypeOK
  <2>3. CASE ResetJacobian(p)
    BY <2>3 DEF ResetJacobian, Accepted, Looping, TakeStep, preVars, TypeOK
  <2>4. CASE GiveUp(p)
    BY <2>4 DEF GiveUp, Stalled, Accepted, Looping, Return, preVars, TypeOK
  <2>5. CASE SearchFailsAgain(p)
    BY <2>5 DEF SearchFailsAgain, Looping, Return, preVars, loopVars
  <2> QED BY <2>1, <2>2, <2>3, <2>4, <2>5
<1>10. CASE SearchFails
  BY <1>10 DEF SearchFails, Looping, Evaluate, preVars, TypeOK
<1>11. CASE IterationsEnd
  BY <1>11 DEF IterationsEnd, Return, preVars, loopVars
<1>12. CASE UNCHANGED vars
  BY <1>12 DEF vars, preVars, loopVars
<1> QED BY <1>1, <1>2, <1>3, <1>4, <1>5, <1>6, <1>7, <1>8, <1>9, <1>10, <1>11, <1>12
        DEF Next

LEMMA Invariant == Spec => [](TypeOK /\ Relied)
<1>1. Init => TypeOK /\ Relied
  BY TypeInit, ReliedInit
<1>2. TypeOK /\ Relied /\ [Next]_vars => (TypeOK /\ Relied)'
  BY TypeStep, ReliedStep
<1> QED BY <1>1, <1>2, PTL DEF Spec

\* The Jacobian that LogBroyden works with is made of a value and a state that
\* belong together, and of the guess they belong to unless
\* jacobian_precondition has failed for some market.
THEOREM JacobianOfState == Spec => []JacobianTrusted
<1>1. TypeOK /\ Relied => JacobianTrusted
  BY DEF Relied
<1> QED BY Invariant, <1>1, PTL

\* LogBroyden::bsolve starts every iteration with the model calculated at its
\* guess, whatever the line search before it has left.
THEOREM IterationsFromGuess == Spec => []StateAtGuess
<1>1. TypeOK /\ Relied => StateAtGuess
  BY DEF Relied
<1> QED BY Invariant, <1>1, PTL

\* When LogBroyden::solve returns success after a step, the model has been
\* calculated at the prices that passed the test.
THEOREM SuccessAtSolution == Spec => []SolutionLeft
<1>1. TypeOK /\ Relied => SolutionLeft
  BY DEF Relied
<1> QED BY Invariant, <1>1, PTL

\* LogBroyden::bsolve reports poor progress only after it has tried a Jacobian
\* calculated where it stands.
THEOREM GivesUpLate == Spec => []GivesUpOnNewJacobian
<1>1. TypeOK /\ Relied => GivesUpOnNewJacobian
  BY DEF Relied
<1> QED BY Invariant, <1>1, PTL

=============================================================================
