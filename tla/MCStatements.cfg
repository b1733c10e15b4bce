CONSTANTS
  L = L
  K = K
  Label <- TwoLabels
  Kit <- MCKits
  Values = {1, 2, 3, 4}
  GcaseLinear = 1
  LateVariables = FALSE
  MixedGotos = FALSE
  MaxOpen = 5
SPECIFICATION Spec
INVARIANTS
  NoJumpLost
  FollowsSource
SYMMETRY SwapLabels
CHECK_DEADLOCK FALSE
