----------------------------- MODULE LogBroyden -----------------------------
(***************************************************************************)
(* The solver component LogBroyden, called over and over by                *)
(* UserConfigurableSolver: the initial guess and its Jacobian, the search  *)
(* of jacobian_precondition for prices at which the markets respond, and   *)
(* the iterations of bsolve with their line searches.                      *)
(*                                                                         *)
(* Excess demand is a function of the prices that nothing is assumed of:   *)
(* a value F(p) is represented by p, and every test of a value may go      *)
(* either way. What is kept is which prices each piece of the solver's     *)
(* state belongs to.                                                       *)
(***************************************************************************)
EXTENDS Integers

CONSTANTS NumMarkets,   \* markets the component solves
          ItMax,        \* ITMAX of jacobian_precondition
          MaxIter,      \* mMaxIter
          MaxReuse,     \* mMaxJacobainReuse
          MaxPasses     \* bound: calls of the component in one period

ASSUME SolverAssumption ==
    /\ NumMarkets \in Nat \ {0} /\ ItMax \in Nat \ {0}
    /\ MaxIter \in Nat /\ MaxReuse \in Nat /\ MaxPasses \in Nat

Markets == 1..NumMarkets

\* The prices of one market, on a ring so large that the search for a price
\* does not come back to where it started.
Level == 0..ItMax
Vector == [Markets -> Level]

VARIABLES world,    \* the prices that supplies and demands were calculated at
          x, fx,    \* the solver's prices, and the prices fx = F(.) is of
          jac,      \* what the last Jacobian was made of
          stage,    \* where the component is
          j, count, \* preconditioner: market, and prices tried for it
          t,        \*   its price before the search
          change, fail,
          iter, age, lsfail,   \* bsolve: iteration, age of B, failed search
          result,   \* return code of bsolve
          pass      \* calls of the component so far

preVars == <<j, count, t, change, fail>>
loopVars == <<iter, age, lsfail>>
vars == <<world, x, fx, jac, stage, preVars, loopVars, result, pass>>

\* A Jacobian is calculated by changing the prices x one by one in the present
\* state, and subtracting fx (fdjac, jacol).
Jacobian == [x : Vector, fx : Vector, world : Vector]
FDJac(p, value, state) == [x |-> p, fx |-> value, world |-> state]

\* Codes that bsolve returns.
Success == 0
MaxIterReached == -1
ZeroGradient == -3
PoorProgress == -4
NoResult == 1

TypeOK ==
    /\ world \in Vector /\ x \in Vector /\ fx \in Vector
    /\ jac \in Jacobian
    /\ stage \in {"start", "precondition", "bsolve", "loop", "returned"}
    /\ j \in 1..NumMarkets + 1 /\ count \in 0..ItMax - 1 /\ t \in Level
    /\ change \in BOOLEAN /\ fail \in BOOLEAN
    /\ iter \in 0..MaxIter /\ age \in 0..MaxReuse /\ lsfail \in BOOLEAN
    /\ result \in {NoResult, Success, MaxIterReached, ZeroGradient, PoorProgress}
    /\ pass \in 0..MaxPasses

Init ==
    /\ world \in Vector /\ x = world /\ fx = world
    /\ jac = FDJac(world, world, world)
    /\ stage = "start"
    /\ j = 1 /\ count = 0 /\ t = 0 /\ change = FALSE /\ fail = FALSE
    /\ iter = 0 /\ age = 0 /\ lsfail = FALSE
    /\ result = NoResult /\ pass = 0

\* F(p, value): the model is calculated at prices p (LogEDFun::operator()).
Evaluate(p) == world' = p /\ fx' = p

Return(code) == stage' = "returned" /\ result' = code

-----------------------------------------------------------------------------
(* LogBroyden::solve *)

\* All markets are solved, or none is for this component.
NothingToSolve ==
    /\ stage = "start"
    /\ Return(Success)
    /\ UNCHANGED <<world, x, fx, jac, preVars, loopVars, pass>>

Solve ==
    /\ stage = "start"
    /\ Evaluate(x)
    /\ jac' = FDJac(x, x, x)
    /\ stage' = "precondition"
    /\ j' = 1 /\ count' = 0 /\ change' = FALSE /\ fail' = FALSE
    /\ UNCHANGED <<x, t, loopVars, result, pass>>

\* UserConfigurableSolver::solve goes on while markets are unsolved. The next
\* call starts from the prices that the other components left behind.
SolveAgain ==
    /\ stage = "returned" /\ pass < MaxPasses
    /\ pass' = pass + 1
    /\ stage' = "start" /\ result' = NoResult
    /\ world' \in Vector /\ x' = world'
    /\ UNCHANGED <<fx, jac, preVars, loopVars>>

-----------------------------------------------------------------------------
(* jacobian_precondition *)

Preconditioning == stage = "precondition" /\ j \in Markets

\* Market j responds to its price, or its excess demand is small.
Responds ==
    /\ Preconditioning /\ count = 0
    /\ j' = j + 1
    /\ UNCHANGED <<world, x, fx, jac, stage, count, t, change, fail,
                   loopVars, result, pass>>

Increased == [x EXCEPT ![j] = (@ + 1) % (ItMax + 1)]
PriceBefore == IF count = 0 THEN x[j] ELSE t

\* The next price for market j. The change of its excess demand is compared
\* with JPCMIN three times: the search succeeds above it, goes on below it for
\* at most ItMax prices, and ends without either at exactly JPCMIN.
TryPrice ==
    /\ Preconditioning
    /\ Evaluate(Increased)
    /\ t' = PriceBefore
    /\ \E response \in {"above", "at", "below"} :
          /\ change' = (change \/ response = "above")
          /\ IF response = "below" /\ count + 1 < ItMax
             THEN /\ x' = Increased /\ count' = count + 1
                  /\ UNCHANGED <<j, fail>>
             ELSE /\ count' = 0 /\ j' = j + 1
                  /\ fail' = (fail \/ response = "below")
                  /\ x' = IF response = "below"
                          THEN [x EXCEPT ![j] = PriceBefore] ELSE Increased
    /\ UNCHANGED <<jac, stage, loopVars, result, pass>>

\* The Jacobian is calculated again if a price has been found.
Preconditioned ==
    /\ stage = "precondition" /\ j > NumMarkets
    /\ jac' = IF change THEN FDJac(x, fx, world) ELSE jac
    /\ stage' = "bsolve"
    /\ UNCHANGED <<world, x, fx, preVars, loopVars, result, pass>>

-----------------------------------------------------------------------------
(* LogBroyden::bsolve *)

\* Mutant: the model is taken to be at x already.
BsolveOnOldState ==
    /\ stage = "bsolve"
    /\ iter' = 0 /\ age' = 0 /\ lsfail' = FALSE
    /\ \/ Return(Success)
       \/ stage' = "loop" /\ UNCHANGED result
    /\ UNCHANGED <<world, x, fx, jac, preVars, pass>>

Bsolve ==
    /\ stage = "bsolve"
    /\ Evaluate(x)
    /\ iter' = 0 /\ age' = 0 /\ lsfail' = FALSE
    /\ \/ Return(Success)                      \* F(x) is zero
       \/ stage' = "loop" /\ UNCHANGED result
    /\ UNCHANGED <<x, jac, preVars, pass>>

Looping == stage = "loop" /\ iter < MaxIter

GradientVanishes ==
    /\ Looping
    /\ Return(ZeroGradient)
    /\ UNCHANGED <<world, x, fx, jac, preVars, loopVars, pass>>

\* Mutant: the failure of an earlier line search is not forgotten.
AcceptedAfterFailure(p) ==
    /\ Looping
    /\ p # x
    /\ world' = p
    /\ UNCHANGED <<lsfail, preVars, pass>>

\* The line search accepts prices p.
Accepted(p) ==
    /\ Looping
    /\ p # x
    /\ world' = p
    /\ lsfail' = FALSE
    /\ UNCHANGED <<preVars, pass>>

\* Mutant: the iteration is not counted.
TakeStepUncounted(p) ==
    /\ x' = p /\ fx' = p
    /\ UNCHANGED <<iter, stage, result>>

TakeStep(p) ==
    /\ x' = p /\ fx' = p
    /\ iter' = iter + 1
    /\ UNCHANGED <<stage, result>>

Converged(p) ==
    /\ Accepted(p)
    /\ x' = p /\ fx' = p
    /\ Return(Success)
    /\ UNCHANGED <<jac, iter, age>>

\* Mutant: B is used once too often.
UpdateOnceMore(p) ==
    /\ Accepted(p) /\ TakeStep(p)
    /\ age <= MaxReuse
    /\ age' = age + 1
    /\ UNCHANGED jac

\* Broyden's update of B, after good progress or in the first iteration.
Update(p) ==
    /\ Accepted(p) /\ TakeStep(p)
    /\ age < MaxReuse
    /\ age' = age + 1
    /\ UNCHANGED jac

\* Little progress, or B has been used often enough.
Stalled == age >= MaxReuse \/ iter > 0

\* Mutant: the value at the guess before the step is subtracted.
ResetJacobianOnOldValue(p) ==
    /\ Accepted(p) /\ TakeStep(p)
    /\ Stalled /\ age > 0 /\ MaxReuse > 0
    /\ IF iter + 1 < MaxIter THEN jac' = FDJac(p, fx, p) /\ age' = 0
                             ELSE UNCHANGED <<jac, age>>

\* A new Jacobian, if there is an iteration left to use it.
ResetJacobian(p) ==
    /\ Accepted(p) /\ TakeStep(p)
    /\ Stalled /\ age > 0 /\ MaxReuse > 0
    /\ IF iter + 1 < MaxIter THEN jac' = FDJac(p, p, p) /\ age' = 0
                             ELSE UNCHANGED <<jac, age>>

\* B had only just been calculated.
GiveUp(p) ==
    /\ Accepted(p)
    /\ Stalled /\ ~(age > 0 /\ MaxReuse > 0)
    /\ Return(PoorProgress)
    /\ UNCHANGED <<x, fx, jac, iter, age>>

\* Mutant: the state is left where the line search left off.
SearchFailsElsewhere ==
    /\ Looping /\ ~lsfail
    /\ world' \in Vector
    /\ lsfail' = TRUE
    /\ IF iter + 1 < MaxIter THEN jac' = FDJac(x, fx, world') /\ age' = 0
                             ELSE UNCHANGED <<jac, age>>
    /\ iter' = iter + 1
    /\ UNCHANGED <<x, fx, stage, preVars, result, pass>>

\* The line search fails for the first time since a step was taken: the model
\* is calculated at x again before the new Jacobian.
SearchFails ==
    /\ Looping /\ ~lsfail
    /\ Evaluate(x)
    /\ lsfail' = TRUE
    /\ IF iter + 1 < MaxIter THEN jac' = FDJac(x, x, x) /\ age' = 0
                             ELSE UNCHANGED <<jac, age>>
    /\ iter' = iter + 1
    /\ UNCHANGED <<x, stage, preVars, result, pass>>

\* With the Jacobian just calculated there is nothing left to try, but x may
\* pass a relaxed test. The line search left off at prices p, which are still
\* x if it had no direction to search in.
SearchFailsAgain(p) ==
    /\ Looping /\ lsfail
    /\ world' = p
    /\ \E code \in {Success, PoorProgress} : Return(code)
    /\ UNCHANGED <<x, fx, jac, preVars, loopVars, pass>>

IterationsEnd ==
    /\ stage = "loop" /\ iter >= MaxIter
    /\ Return(MaxIterReached)
    /\ UNCHANGED <<world, x, fx, jac, preVars, loopVars, pass>>

-----------------------------------------------------------------------------

Step == \E p \in Vector :
            \/ Converged(p) \/ Update(p) \/ ResetJacobian(p) \/ GiveUp(p)
            \/ SearchFailsAgain(p)

Next ==
    \/ NothingToSolve \/ Solve \/ SolveAgain
    \/ Responds \/ TryPrice \/ Preconditioned
    \/ Bsolve \/ GradientVanishes \/ Step \/ SearchFails \/ IterationsEnd

Spec == Init /\ [][Next]_vars

\* The solver is one thread, and every evaluation returns.
FairSpec == Spec /\ WF_vars(Next)

-----------------------------------------------------------------------------
(* Properties *)

\* fdjac is called with the model calculated at x and with "fx: F(x)"
\* (fdjac.cpp:88): the value it subtracts always belongs to the state it
\* changes the prices in. Both belong to x too, unless the preconditioner has
\* given a market its old price back without calculating the model again
\* (jacobian_precondition).
JacobianTrusted == jac.fx = jac.world /\ (jac.x = jac.world \/ fail)

\* Every iteration of bsolve starts with the model calculated at its guess,
\* wherever the line search before it left off.
StateAtGuess == stage = "loop" => world = x /\ fx = x

\* Success leaves the model at the prices that passed the test, except after a
\* failed line search and the relaxed test (logbroyden.cpp:603).
SolutionLeft == result = Success /\ ~lsfail => world = x

\* Where B may be used again, bsolve gives up only with a Jacobian calculated
\* at the guess it could not improve.
GivesUpOnNewJacobian ==
    result = PoorProgress /\ MaxReuse > 0 => age = 0 /\ jac = FDJac(x, x, x)

\* Every call of the component returns.
ComponentReturns == stage # "returned" ~> stage = "returned"

=============================================================================
