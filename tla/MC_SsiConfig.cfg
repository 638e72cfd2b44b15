CONSTANTS
  NsArgs <- MCNsArgs
  KeyArgs <- MCKeyArgs
  ValueArgs <- MCValueArgs
  Files <- MCFiles
  EnvValues <- MCEnvValues
  MaxCalls <- MCMaxCalls
  NoEnv = NoEnv
SPECIFICATION Spec
INVARIANT ConfigRoundTrip
CHECK_DEADLOCK FALSE
