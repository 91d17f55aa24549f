SPECIFICATION StandaloneSpec
CONSTANTS
  WordMax <- MCWordMax
  UsizeMax <- MCUsizeMax
  Packets <- MCPackets
  Subscribers = {s1}
  s1 = s1
  Cap = 2
  MaxEvents = 6
  NaN = NaN
  Malformed = Malformed
  Files <- MCFiles
  Envs <- MCEnvs
  HostArgs <- MCHostArgs
  Names = {1, 2}
  MaxLinks = 2
  Trees <- MCTrees
INVARIANT EnvOverrides
CHECK_DEADLOCK FALSE
