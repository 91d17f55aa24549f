---------------------------- MODULE Configuration ----------------------------
(***************************************************************************)
(* Config of src/config.rs: defaults, from_file, apply_env_vars, validate; *)
(* and src/validation.rs: a second copy of the same limits, and            *)
(* parse_host_port, the one check main makes of its arguments.             *)
(*                                                                         *)
(* A configuration is a record of the fields that a limit, a parse or a    *)
(* special case tells apart; the strings that are only copied are left     *)
(* out, but bind and level, which complete their tables.  buffer_seconds   *)
(* is in tenths of a second.  A hostname is its kind: control has a NUL,   *)
(* CR or LF in it, long more than 253 characters.  The text of a variable  *)
(* is the value it parses to, or Malformed.                                *)
(***************************************************************************)
EXTENDS Integers, Sequences

CONSTANTS
  NaN,        \* a buffer_seconds that TOML and f64::parse accept
  Malformed,  \* a text that does not parse as its field's type
  Files,      \* configuration files: what they set, as a function on fields
  Envs,       \* environments, the same way
  HostArgs    \* values of --host, cut at their colons

Numbers == {"port", "sample_rate", "bitrate", "buffer_seconds", "api_port"}
Strings == {"host", "bind", "level"}
Fields  == Numbers \cup Strings \cup {"use_tls", "format"}

\* Every text is a string; it is numbers and flags that may not parse.
ASSUME ConfigurationAssumption ==
  /\ \A given \in Files \cup Envs : DOMAIN given \subseteq Fields
  /\ \A e \in Envs : \A f \in DOMAIN e \cap Strings : e[f] # Malformed

Default == [host |-> "name", port |-> 8000, use_tls |-> FALSE,
            sample_rate |-> 44100, bitrate |-> 320, buffer_seconds |-> 10,
            api_port |-> 3000, bind |-> "0.0.0.0", level |-> "info", format |-> "text"]

VARIABLES
  step,     \* how far the settings have come
  file,     \* the file
  env,      \* the environment
  hostArg,  \* the argument of --host
  config    \* the Config, or the part of main's arguments that is checked

settingsVars == <<step, file, env, hostArg, config>>

SettingsInit ==
  /\ step = "start" /\ config = Default
  /\ file \in Files /\ env \in Envs /\ hostArg \in HostArgs

\* The fields that given sets take its values.
Over(given, below) == [f \in Fields |-> IF f \in DOMAIN given THEN given[f] ELSE below[f]]

\* x < low || x > high, of which NaN is neither
Outside(x, low, high) == x # NaN /\ (x < low \/ x > high)
-----------------------------------------------------------------------------
\* Mutant: one of the two copies of a limit is changed.
ConfigValid_OtherLimit(c) ==
  /\ c.port # 0 /\ c.api_port # 0 /\ c.host # "empty"
  /\ ~Outside(c.sample_rate, 8000, 192000)
  /\ ~Outside(c.bitrate, 8, 512)
  /\ ~Outside(c.buffer_seconds, 1, 100)

\* Config::validate
ConfigValid(c) ==
  /\ c.port # 0 /\ c.api_port # 0 /\ c.host # "empty"
  /\ ~Outside(c.sample_rate, 8000, 192000)
  /\ ~Outside(c.bitrate, 8, 500)
  /\ ~Outside(c.buffer_seconds, 1, 100)

\* validate_port, validate_hostname, validate_sample_rate, ...
PortValid(port)       == port # 0
HostnameValid(host)   == host \notin {"empty", "control", "long"}
SampleRateValid(rate) == ~Outside(rate, 8000, 192000)
BitrateValid(bitrate) == ~Outside(bitrate, 8, 500)
BufferSizeValid(size) == ~Outside(size, 1, 100)

AllValid(c) ==
  /\ PortValid(c.port) /\ PortValid(c.api_port) /\ HostnameValid(c.host)
  /\ SampleRateValid(c.sample_rate) /\ BitrateValid(c.bitrate)
  /\ BufferSizeValid(c.buffer_seconds)

\* ApiConfig and LoggingConfig have no default for a missing field: a file
\* with a part of one of these tables does not parse.
Parses(f) ==
  \A table \in {{"api_port", "bind"}, {"level", "format"}} :
    table \subseteq DOMAIN f \/ table \cap DOMAIN f = {}
-----------------------------------------------------------------------------
\* Mutant: the file's settings are used as they are.
FromFile_Unvalidated ==
  /\ step = "start"
  /\ Parses(file)
  /\ config' = Over(file, Default) /\ step' = "loaded"
  /\ UNCHANGED <<file, env, hostArg>>

\* Config::from_file: read, parsed over the defaults, validated.
FromFile ==
  /\ step = "start"
  /\ Parses(file) /\ ConfigValid(Over(file, Default))
  /\ config' = Over(file, Default) /\ step' = "loaded"
  /\ UNCHANGED <<file, env, hostArg>>

\* The file cannot be read or parsed, or is invalid.
FromFileFails ==
  /\ step = "start"
  /\ step' = "failed"
  /\ UNCHANGED <<file, env, hostArg, config>>

\* What apply_env_vars makes of a variable that is set: a number that does
\* not parse is ignored, a flag that does not parse is false, and of the
\* formats only json has an effect.
Taken(f) ==
  CASE f \in Numbers -> IF env[f] = Malformed THEN config[f] ELSE env[f]
    [] f \in Strings -> env[f]
    [] f = "use_tls" -> IF env[f] = Malformed THEN FALSE ELSE env[f]
    [] f = "format"  -> IF env[f] = "json" THEN "json" ELSE config[f]

\* Config::apply_env_vars, on Config::default() or what from_file returned.
ApplyEnvVars ==
  /\ step \in {"start", "loaded"} /\ step' = IF step = "loaded" THEN "layered" ELSE "env"
  /\ config' = Over([f \in DOMAIN env |-> Taken(f)], config)
  /\ UNCHANGED <<file, env, hostArg>>

\* main: parse_host_port(&args.host)?, with 8000 for no port
ParseHostPort ==
  /\ step = "start"
  /\ LET host == hostArg[1]
         port == IF Len(hostArg) = 1 THEN 8000 ELSE hostArg[2]
     IN  IF Len(hostArg) <= 2 /\ HostnameValid(host) /\ port # Malformed /\ PortValid(port)
         THEN config' = Over([host |-> host, port |-> port], config) /\ step' = "main"
         ELSE step' = "failed" /\ UNCHANGED config
  /\ UNCHANGED <<file, env, hostArg>>

SettingsNext == FromFile \/ FromFileFails \/ ApplyEnvVars \/ ParseHostPort

SettingsSpec == SettingsInit /\ [][SettingsNext]_settingsVars
-----------------------------------------------------------------------------
\* The fields whose value alone makes a configuration invalid.
Offending == {f \in Fields : ~ConfigValid([Default EXCEPT ![f] = config[f]])}

\* apply_env_vars runs last and nothing validates its result: what is wrong
\* with a configuration in use came from a variable that did parse.
InvalidOnlyFromEnv ==
  /\ step \in {"loaded", "main"} => Offending = {}
  /\ step \in {"env", "layered"} => \A f \in Offending : f \in DOMAIN env /\ env[f] # Malformed

\* The limits of validation.rs are those of Config::validate, hostnames
\* excepted, and the host and port main connects to pass both.
LimitsAgree ==
  /\ AllValid(config) => ConfigValid(config)
  /\ ConfigValid(config) /\ HostnameValid(config.host) => AllValid(config)
  /\ step = "main" => ConfigValid(config) /\ AllValid(config)

\* docs/DEPLOYMENT.md:115 "All configuration can be overridden via environment
\* variables", docs/ARCHITECTURE.md:47 "env > config file > defaults": a
\* variable that has a value its field can take gives the field that value.
EnvOverrides ==
  step \in {"env", "layered"} =>
    \A f \in DOMAIN env :
      (env[f] # Malformed /\ (f = "format" => env[f] \in {"text", "json"}))
        => config[f] = env[f]
=============================================================================
