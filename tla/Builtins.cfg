CONSTANTS
  N = 5
  pow2 <- Powers
  W = 4
  WideCalls = {"udivmoddi4", "udivmodti4", "divXi3", "divmod", "mul", "mulv", "addv", "subv", "unary", "counts", "ashl", "lshr", "ashr", "cmpdi2"}
  S = 3
  E = 4
  SN = 1
  EN = 3
  I = 6
  MaxInt = 240
  Scales = 20
  FloatCalls = {"add", "mulf", "cmpf", "fix", "fixuns", "float", "floatdi", "scalbn", "trunc", "extend"}
SPECIFICATION CallSpec
INVARIANTS
  ComparisonExact
  ResultCorrect
  DivisionExact
  IntegersExact
  ArithmeticRounded
  ConversionsRounded
