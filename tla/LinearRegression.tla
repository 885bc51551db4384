-------------------------- MODULE LinearRegression --------------------------
(***************************************************************************)
(* LinearRegression of algorithms/ml/linear_regression.py: steps of        *)
(* gradient descent on the mean squared error, as many as max_iterations.  *)
(*                                                                         *)
(* Numbers are exact: weights and bias are numerators over scale, which    *)
(* every iteration multiplies by Factor.  All samples have as many         *)
(* features as the first.                                                  *)
(***************************************************************************)
EXTENDS Integers, FiniteSets, Functions

CONSTANTS
  Regressions,     \* datasets: sequences of samples <<features, target>>
  LearningRate,    \* learning_rate, a fraction
  MaxIterations    \* max_iterations

VARIABLES
  data,            \* the samples of this run
  weights, bias,   \* times scale
  scale,
  iterations,
  done             \* the loop has ended

vars == <<data, weights, bias, scale, iterations, done>>

Samples == DOMAIN data

Factor == LearningRate[2] * Cardinality(Samples)

\* prediction - target of sample i, times scale.
Error(i) ==
  LET features == data[i][1] IN
  SumFunction([x \in DOMAIN weights |-> weights[x] * features[x]])
    + bias - data[i][2] * scale

GradientW(x) == SumFunction([i \in Samples |-> Error(i) * data[i][1][x]])

\* A faulty variant: the sum of the errors instead of their mean.
FaultyGradientB == Cardinality(Samples) * SumFunction([i \in Samples |-> Error(i)])

GradientB == SumFunction([i \in Samples |-> Error(i)])

Init ==
  /\ data \in Regressions
  /\ weights = [x \in DOMAIN data[1][1] |-> 0]
  /\ bias = 0
  /\ scale = 1
  /\ iterations = 0
  /\ done = (MaxIterations = 0)

\* weights and bias go against the gradient, all from the same errors.
Iterate ==
  /\ ~done
  /\ weights' = [x \in DOMAIN weights |->
                   Factor * weights[x] - LearningRate[1] * GradientW(x)]
  /\ bias' = Factor * bias - LearningRate[1] * GradientB
  /\ scale' = Factor * scale
  /\ iterations' = iterations + 1
  /\ done' = (iterations' = MaxIterations)
  /\ UNCHANGED data

Next == Iterate

Spec == Init /\ [][Next]_vars

-----------------------------------------------------------------------------
(* Properties.                                                             *)

\* The variables have their types.
TypeOK ==
  /\ data \in Regressions
  /\ \A x \in DOMAIN data[1][1] : weights[x] \in Int
  /\ bias \in Int
  /\ scale \in Nat
  /\ iterations \in 0 .. MaxIterations
  /\ done \in BOOLEAN

SquaredError == SumFunction([i \in Samples |-> Error(i) * Error(i)])

\* A bound on how fast the squared error bends in any direction.
Curvature ==
  SumFunction([i \in Samples |->
    1 + SumFunction([x \in DOMAIN weights |-> data[i][1][x] * data[i][1][x]])])

\* The learning rate is below twice the reciprocal of that bound: a step ends
\* nearer to the best fit than it began, be it on the other side.
RateFits ==
  /\ LearningRate[1] >= 0
  /\ LearningRate[1] * Curvature < 2 * Factor

\* If the learning rate fits the samples, a step that moves a weight lowers the
\* squared error, so the run approaches the best fit; the error of one step is
\* brought to the scale of the next.
ErrorFalls ==
  RateFits =>
    \/ /\ bias' = Factor * bias
       /\ \A x \in DOMAIN weights : weights'[x] = Factor * weights[x]
    \/ SquaredError' < SquaredError * Factor * Factor
=============================================================================
