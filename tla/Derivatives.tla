---------------------------- MODULE Derivatives ----------------------------
(***************************************************************************)
(* What LogEDFun and fdjac do to the state of the model: a full            *)
(* calculation by several threads on the base state, and the columns of    *)
(* the Jacobian by several threads, each on a copy in a slot of its own,   *)
(* where an activity adds to a market only what has changed of its result. *)
(*                                                                         *)
(* FlowGraph and CalcOrdering are about the order of the activities; here  *)
(* it is taken as given.                                                   *)
(***************************************************************************)
EXTENDS Integers, Sequences, FiniteSets, FiniteSetsExt

CONSTANTS NumThreads,      \* max_allowed_parallelism
          NumMarkets,      \* the markets that are solved
          NumActivities,   \* activities, by their place in the global order
          ReadsPrice,      \* activity -> market whose price it reads
          Input,           \* activity -> activity whose result it reads, or 0
          AddsTo,          \* activity -> market it adds its result to
          Silent,          \* activities that add nothing if it is not positive
          Result(_, _, _), \* result of an activity, price and input given
          Prices,          \* prices the solver may try
          MaxCalls         \* bound: full calculations

Threads == 1..NumThreads
Markets == 1..NumMarkets
Activities == 1..NumActivities

ASSUME ActivityAssumption ==
    /\ NumThreads \in Nat \ {0} /\ NumMarkets \in Nat /\ NumActivities \in Nat
    /\ ReadsPrice \in [Activities -> Markets]
    /\ AddsTo \in [Activities -> Markets]
    /\ Input \in [Activities -> 0..NumActivities]
    /\ \A a \in Activities : Input[a] < a /\ Input[a] \notin Silent
    /\ Silent \subseteq Activities
    /\ Prices \subseteq Int
    /\ MaxCalls \in Nat

\* The perturbed price of jacol.
Bump(p, m) == [p EXCEPT ![m] = @ + 1]

\* SolutionInfo::getDependencies: the activities that market m's price reaches.
Dependencies(m) ==
    LET reached[a \in Activities] ==
            ReadsPrice[a] = m \/ (Input[a] # 0 /\ reached[Input[a]])
    IN {a \in Activities : reached[a]}

-----------------------------------------------------------------------------
(* What a calculation of the model at prices p should come to *)

Results(p) ==
    LET result[a \in Activities] ==
            Result(a, p[ReadsPrice[a]], IF Input[a] = 0 THEN 0 ELSE result[Input[a]])
    IN result

Adds(a, result) == a \notin Silent \/ result > 0

Totals(p) ==
    LET r == Results(p)
    IN [m \in Markets |->
           MapThenSumSet(LAMBDA a : r[a],
                         {a \in Activities : AddsTo[a] = m /\ Adds(a, r[a])})]

-----------------------------------------------------------------------------

VARIABLES mem,     \* mStateData: slot 0 is the base state
          local,   \* Value::sCentralValue of each thread, as a slot
          queue,   \* mThreadStateIndex
          deriv,   \* Marketplace::mIsDerivativeCalc
          phase,
          todo,    \* activities, or columns, nobody has started
          done,    \* activities calculated in a full calculation
          col,     \* the column a thread is at, or NoMarket
          left,    \* activities it has still to calculate for it
          act,     \* the activity a thread is adding the result of, or 0
          sum,     \* what is to be added, then the total to be written
          loaded,  \* threads that have read the total
          lock,    \* market -> thread that holds its mutex, or NoThread
          out,     \* the columns calculated, with their excess demands
          calls    \* full calculations so far

workVars == <<todo, done, col, left, act, sum, loaded>>
vars == <<mem, local, queue, deriv, phase, workVars, lock, out, calls>>

NumStates == NumThreads + 1
Slots == 0..NumStates - 1
Unassigned == -1
NoMarket == 0
NoThread == 0

State == [price : [Markets -> Int], result : [Activities -> Int],
          total : [Markets -> Int]]

TypeOK ==
    /\ mem \in [Slots -> State]
    /\ local \in [Threads -> {Unassigned} \cup Slots]
    /\ queue \in Seq(Slots)
    /\ deriv \in BOOLEAN
    /\ phase \in {"ready", "calc", "columns", "aborted"}
    /\ todo \subseteq Activities \cup Markets /\ done \subseteq Activities
    /\ col \in [Threads -> Markets \cup {NoMarket}]
    /\ left \in [Threads -> SUBSET Activities]
    /\ act \in [Threads -> 0..NumActivities]
    /\ sum \in [Threads -> Int] /\ loaded \subseteq Threads
    /\ lock \in [Markets -> Threads \cup {NoThread}]
    /\ out \subseteq Markets \X [Markets -> Int]
    /\ calls \in 0..MaxCalls

Zero == [price |-> [m \in Markets |-> 0], result |-> [a \in Activities |-> 0],
         total |-> [m \in Markets |-> 0]]

\* ManageStateVariables::collectState, before anything has been calculated.
Init ==
    /\ mem = [s \in Slots |-> Zero]
    /\ local = [t \in Threads |-> 0]
    /\ queue = <<>>
    /\ deriv = FALSE
    /\ phase = "ready"
    /\ todo = {} /\ done = {}
    /\ col = [t \in Threads |-> NoMarket]
    /\ left = [t \in Threads |-> {}]
    /\ act = [t \in Threads |-> 0]
    /\ sum = [t \in Threads |-> 0] /\ loaded = {}
    /\ lock = [m \in Markets |-> NoThread]
    /\ out = {}
    /\ calls = 0

-----------------------------------------------------------------------------
(* A full calculation *)

\* LogEDFun::operator(): supplies and demands are nulled, prices set, and
\* World::calc starts the flow graph.
Evaluate(p) ==
    /\ phase = "ready" /\ calls < MaxCalls
    /\ calls' = calls + 1
    /\ mem' = [mem EXCEPT ![0].price = p, ![0].total = [m \in Markets |-> 0]]
    /\ phase' = "calc"
    /\ todo' = Activities /\ done' = {}
    /\ out' = {}
    /\ UNCHANGED <<local, queue, deriv, col, left, act, sum, loaded, lock>>

EvaluateEnds ==
    /\ phase = "calc" /\ done = Activities
    /\ phase' = "ready"
    /\ UNCHANGED <<mem, local, queue, deriv, workVars, lock, out, calls>>

-----------------------------------------------------------------------------
(* The Jacobian *)

\* Mutant: the slots are counted one too far.
SlotQueuePastEnd == [i \in 1..NumStates |-> i]

\* Mutant: the base state is counted among the slots of the threads.
SlotQueueOneShort == [i \in 1..NumStates - 2 |-> i]

\* Slots for the threads that come to work: ManageStateVariables::setPartialDeriv
\* and AssignThreadStateFun.
SlotQueue == [i \in 1..NumStates - 1 |-> i]

\* fdjac, for the prices that were calculated last.
FDJac ==
    /\ phase = "ready" /\ calls > 0
    /\ local' = [t \in Threads |-> Unassigned]
    /\ queue' = SlotQueue
    /\ phase' = "columns"
    /\ todo' = Markets
    /\ out' = {}
    /\ UNCHANGED <<mem, deriv, done, col, left, act, sum, loaded, lock, calls>>

AtWork(t) == col[t] # NoMarket

\* Mutant: every thread works in the first slot.
FirstSlot(t) == IF local[t] # Unassigned THEN local[t] ELSE 1

\* The slot of a thread, assigned at its first access.
Slot(t) == IF local[t] # Unassigned THEN local[t] ELSE Head(queue)

StartColumn(t, m) ==
    /\ local' = [local EXCEPT ![t] = Slot(t)]
    /\ queue' = IF local[t] = Unassigned THEN Tail(queue) ELSE queue
    /\ todo' = todo \ {m}
    /\ col' = [col EXCEPT ![t] = m]
    /\ left' = [left EXCEPT ![t] = Dependencies(m)]
    /\ UNCHANGED <<deriv, phase, done, act, sum, loaded, lock, out, calls>>

\* Mutant: the state is copied only when the slot is assigned.
CopyStateOnce(t, m) ==
    /\ phase = "columns" /\ ~AtWork(t) /\ m \in todo
    /\ local[t] # Unassigned \/ queue # <<>>
    /\ mem' = IF local[t] = Unassigned THEN [mem EXCEPT ![Slot(t)] = mem[0]]
              ELSE [mem EXCEPT ![Slot(t)].price = mem[0].price]
    /\ StartColumn(t, m)

\* F.partial(m): the base state is copied over the slot of the thread. The
\* program is aborted if it has none and none is left.
CopyState(t, m) ==
    /\ phase = "columns" /\ ~AtWork(t) /\ m \in todo
    /\ IF local[t] = Unassigned /\ queue = <<>>
       THEN /\ phase' = "aborted"
            /\ UNCHANGED <<mem, local, queue, deriv, workVars, lock, out, calls>>
       ELSE /\ mem' = [mem EXCEPT ![Slot(t)] = mem[0]]
            /\ StartColumn(t, m)

\* LogEDFun::operator() for a partial derivative: one price is changed.
SetPrice(t) ==
    /\ AtWork(t)
    /\ mem[local[t]].price = mem[0].price
    /\ deriv' = TRUE
    /\ mem' = [mem EXCEPT ![local[t]].price = Bump(@, col[t])]
    /\ UNCHANGED <<local, queue, phase, workVars, lock, out, calls>>

\* The excess demands are collected from the slot.
ColumnEnds(t) ==
    /\ AtWork(t) /\ left[t] = {} /\ act[t] = 0
    /\ mem[local[t]].price # mem[0].price
    /\ out' = out \cup {<<col[t], mem[local[t]].total>>}
    /\ col' = [col EXCEPT ![t] = NoMarket]
    /\ UNCHANGED <<mem, local, queue, deriv, phase, todo, done, left, act, sum, loaded,
                   lock, calls>>

\* F.partial(-1), after tg.wait().
FDJacEnds ==
    /\ phase = "columns" /\ todo = {} /\ \A t \in Threads : ~AtWork(t)
    /\ deriv' = FALSE
    /\ local' = [t \in Threads |-> 0]
    /\ phase' = "ready"
    /\ UNCHANGED <<mem, queue, workVars, lock, out, calls>>

-----------------------------------------------------------------------------
(* An activity, calculated by a thread on the state it sees *)

\* The next activities of a thread: those of its column in their order, or any
\* whose input has been calculated.
Ready(t) ==
    CASE phase = "columns" ->
           IF AtWork(t) /\ mem[local[t]].price # mem[0].price /\ left[t] # {}
           THEN {Min(left[t])} ELSE {}
      [] phase = "calc" -> {a \in todo : Input[a] \in done \cup {0}}
      [] OTHER -> {}

\* Value::getDiff or Value::get, of the result just stored.
Contribution(a, result) == IF deriv THEN result - mem[0].result[a] ELSE result

\* The calculation itself. A result that is not positive is neither stored nor
\* added by CDRFinalDemand::setFinalDemand.
Calculate(t, a) ==
    /\ act[t] = 0 /\ a \in Ready(t)
    /\ LET seen   == mem[local[t]]
           input  == IF Input[a] = 0 THEN 0 ELSE seen.result[Input[a]]
           result == Result(a, seen.price[ReadsPrice[a]], input)
       IN IF Adds(a, result)
          THEN /\ mem' = [mem EXCEPT ![local[t]].result[a] = result]
               /\ act' = [act EXCEPT ![t] = a]
               /\ sum' = [sum EXCEPT ![t] = Contribution(a, result)]
               /\ UNCHANGED done
          ELSE /\ done' = IF phase = "calc" THEN done \cup {a} ELSE done
               /\ UNCHANGED <<mem, act, sum>>
    /\ todo' = IF phase = "calc" THEN todo \ {a} ELSE todo
    /\ left' = [left EXCEPT ![t] = @ \ {a}]
    /\ UNCHANGED <<local, queue, deriv, phase, col, loaded, lock, out, calls>>

\* Mutant: the mutex of the market is not taken.
ReadTotalUnlocked(t) ==
    /\ act[t] # 0 /\ t \notin loaded
    /\ sum' = [sum EXCEPT ![t] = mem[local[t]].total[AddsTo[act[t]]] + @]
    /\ loaded' = loaded \cup {t}
    /\ UNCHANGED <<mem, local, queue, deriv, phase, todo, done, col, left, act, lock,
                   out, calls>>

\* Market::addToDemand reads the total, under the mutex of the market unless
\* derivatives are calculated.
ReadTotal(t) ==
    /\ act[t] # 0 /\ t \notin loaded
    /\ LET m == AddsTo[act[t]]
       IN /\ deriv \/ lock[m] = NoThread
          /\ lock' = IF deriv THEN lock ELSE [lock EXCEPT ![m] = t]
          /\ sum' = [sum EXCEPT ![t] = mem[local[t]].total[m] + @]
    /\ loaded' = loaded \cup {t}
    /\ UNCHANGED <<mem, local, queue, deriv, phase, todo, done, col, left, act, out, calls>>

\* Mutant: the mutex of the market is not released.
WriteTotalLocked(t) ==
    /\ act[t] # 0 /\ t \in loaded
    /\ mem' = [mem EXCEPT ![local[t]].total[AddsTo[act[t]]] = sum[t]]
    /\ done' = IF phase = "calc" THEN done \cup {act[t]} ELSE done
    /\ act' = [act EXCEPT ![t] = 0]
    /\ sum' = [sum EXCEPT ![t] = 0]
    /\ loaded' = loaded \ {t}
    /\ UNCHANGED <<local, queue, deriv, phase, todo, col, left, lock, out, calls>>

\* It then writes the sum.
WriteTotal(t) ==
    /\ act[t] # 0 /\ t \in loaded
    /\ LET m == AddsTo[act[t]]
       IN /\ mem' = [mem EXCEPT ![local[t]].total[m] = sum[t]]
          /\ lock' = [lock EXCEPT ![m] = IF @ = t THEN NoThread ELSE @]
    /\ done' = IF phase = "calc" THEN done \cup {act[t]} ELSE done
    /\ act' = [act EXCEPT ![t] = 0]
    /\ sum' = [sum EXCEPT ![t] = 0]
    /\ loaded' = loaded \ {t}
    /\ UNCHANGED <<local, queue, deriv, phase, todo, col, left, out, calls>>

-----------------------------------------------------------------------------

ThreadStep(t) ==
    \/ \E m \in Markets : CopyState(t, m)
    \/ SetPrice(t) \/ ColumnEnds(t)
    \/ \E a \in Activities : Calculate(t, a)
    \/ ReadTotal(t) \/ WriteTotal(t)

Next ==
    \/ \E p \in [Markets -> Prices] : Evaluate(p)
    \/ EvaluateEnds \/ FDJac \/ FDJacEnds
    \/ \E t \in Threads : ThreadStep(t)

Spec == Init /\ [][Next]_vars

\* Every thread that has something to do gets to do it, and the caller waits
\* for them. That it then evaluates again is not assumed.
FairSpec ==
    /\ Spec
    /\ WF_vars(EvaluateEnds) /\ WF_vars(FDJacEnds)
    /\ \A t \in Threads : WF_vars(ThreadStep(t))

-----------------------------------------------------------------------------
(* Properties *)

\* The model that the solver works with is a full calculation at its prices,
\* however the threads took turns at the totals of the markets
\* (Market::addToDemand, World::calc).
BaseIsFullCalculation ==
    phase \in {"ready", "columns"} /\ calls > 0 =>
        mem[0].total = Totals(mem[0].price)

\* Adding only differences to a copy of the base state comes to what a full
\* calculation at the changed prices would (World::calc of the activities
\* affected, Value::getDiff), as long as no activity that the price reaches
\* keeps silent about its result. CDRFinalDemand::setFinalDemand and
\* AGHG::addEmissionsToMarket may do that.
ColumnsExact ==
    \A c \in out :
        LET base    == mem[0].price
            changed == Bump(base, c[1])
            heard   == \A a \in Dependencies(c[1]) :
                          Adds(a, Results(base)[a]) /\ Adds(a, Results(changed)[a])
        IN heard => c[2] = Totals(changed)

\* Threads that calculate columns work in different slots, and leave the base
\* state alone (AssignThreadStateFun::operator()).
NoSharedSlots ==
    \A t, u \in Threads :
        AtWork(t) /\ AtWork(u) /\ t # u =>
            local[t] # local[u] /\ local[t] # 0 /\ local[u] # 0

\* No thread comes to an empty queue, where the program would be aborted
\* (AssignThreadStateFun::operator(), NUM_STATES).
SlotsSuffice == phase # "aborted"

\* Every full calculation and every Jacobian ends, and with it the wait of
\* the solver (tg.wait, wait_for_all).
EvaluationsReturn == phase \in {"calc", "columns"} ~> phase = "ready"

=============================================================================
