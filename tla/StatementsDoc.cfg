CONSTANTS
  L = L
  K = K
  Label <- TwoLabels
  Kit <- MCGotos
  Values = {1}
  GcaseLinear = 1
  LateVariables = TRUE
  MixedGotos = FALSE
  MaxOpen = 5
SPECIFICATION Spec
INVARIANTS
  FollowsSource
SYMMETRY SwapLabels
CHECK_DEADLOCK FALSE
