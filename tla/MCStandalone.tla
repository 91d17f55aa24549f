---------------------------- MODULE MCStandalone ----------------------------
(***************************************************************************)
(* For TLC: the components that share no state with the others while they  *)
(* work.  A behaviour is one of a single component, the unit, so that      *)
(* their states add up; the others stay in one state.                      *)
(***************************************************************************)
EXTENDS VorbisComments, EventStream, Configuration, DirectoryScan

VARIABLE unit

standaloneVars == <<unit, parseVars, streamVars, settingsVars, scanVars>>

IdleParser   == packet = [size |-> 0]
                /\ stage = "none" /\ pos = 0 /\ round = 0 /\ found = NoComment /\ slice = <<0, 0>>
IdleSettings == step = "none" /\ file = <<>> /\ env = <<>>
                /\ hostArg = <<>> /\ config = Default
IdleScan     == tree = <<>> /\ recursive = FALSE /\ calls = {} /\ pushed = {}
                /\ files = <<>> /\ returned = FALSE

\* The settings are combined two at a time.
StandaloneInit ==
  /\ StreamInit
  /\ \/ unit = "parse"    /\ ParseInit  /\ IdleSettings /\ IdleScan
     \/ unit = "events"   /\ IdleParser /\ IdleSettings /\ IdleScan
     \/ unit = "settings" /\ IdleParser /\ SettingsInit /\ IdleScan
                          /\ (hostArg = <<"name">> \/ {file, env} = {<<>>})
     \/ unit = "scan"     /\ IdleParser /\ IdleSettings /\ ScanInit

StandaloneNext ==
  \/ /\ unit = "parse" /\ ParseNext
     /\ UNCHANGED <<unit, streamVars, settingsVars, scanVars>>
  \/ /\ unit = "events" /\ StreamNext
     /\ UNCHANGED <<unit, parseVars, settingsVars, scanVars>>
  \/ /\ unit = "settings" /\ SettingsNext
     /\ UNCHANGED <<unit, parseVars, streamVars, scanVars>>
  \/ /\ unit = "scan" /\ ScanNext
     /\ UNCHANGED <<unit, parseVars, streamVars, settingsVars>>

StandaloneSpec == StandaloneInit /\ [][StandaloneNext]_standaloneVars
-----------------------------------------------------------------------------
\* Packets: cut at every byte, with lengths and counts that fit, that just
\* do not, and that are the largest a u32 can be.
MCWordMax  == 20
MCUsizeMax == 60

MCPackets ==
  {[size |-> n, magic |-> TRUE, vendor |-> v, count |-> c,
    lens |-> <<l1, l2, l3, 0, 0, 0, 0>>,
    texts |-> <<t1, t2, "title", "other", "title", "artist", "other">>] :
     n \in 7..28, v \in {0, 2, MCWordMax}, c \in {0, 1, 3, MCWordMax},
     l1 \in {0, 1, MCWordMax}, l2 \in {0, 1, MCWordMax}, l3 \in {0, 2},
     t1 \in {"title", "artist"}, t2 \in {"title", "other"}}
  \cup {[size |-> n, magic |-> n = 6, vendor |-> 0, count |-> 1,
         lens |-> <<0, 0>>, texts |-> <<"title", "title">>] : n \in {6, 7}}

\* Files and environments: nothing, or one or two fields, each with a value
\* from either side of its limits.
MCValues(f) ==
  CASE f \in {"port", "api_port"} -> {0, 1, 65535}
    [] f = "sample_rate"    -> {7999, 8000, 192000, 192001}
    [] f = "bitrate"        -> {7, 8, 500, 501}
    [] f = "buffer_seconds" -> {0, 1, 100, 101, NaN}
    [] f = "host"           -> {"name", "empty", "long", "control"}
    [] f = "bind"           -> {"127.0.0.1"}
    [] f = "level"          -> {"debug"}
    [] f = "use_tls"        -> {TRUE, FALSE}
    [] f = "format"         -> {"text", "json"}

MCTexts(f) ==
  MCValues(f) \cup (IF f \in Numbers \cup {"use_tls"} THEN {Malformed} ELSE {})
              \cup (IF f = "format" THEN {"other"} ELSE {})

Set(f, v) == [g \in {f} |-> v]

MCFiles ==
  {<<>>} \cup UNION {{Set(f, v) : v \in MCValues(f)} : f \in Fields}
  \cup {[api_port |-> p, bind |-> "127.0.0.1"] : p \in MCValues("api_port")}
  \cup {[level |-> "debug", format |-> v, use_tls |-> TRUE] : v \in MCValues("format")}
  \cup {[bitrate |-> b, host |-> h] : b \in MCValues("bitrate"), h \in MCValues("host")}

MCEnvs ==
  {<<>>} \cup UNION {{Set(f, v) : v \in MCTexts(f)} : f \in Fields}
  \cup {[bitrate |-> b, sample_rate |-> r] :
          b \in MCTexts("bitrate"), r \in MCTexts("sample_rate")}

MCHostArgs ==
  {<<h>> : h \in MCValues("host")} \cup {<<"name", "8000", "x">>}
  \cup {<<h, p>> : h \in {"name", "empty"}, p \in {0, 1, 65535, Malformed}}

\* Trees of a directory, one below it, and one that cannot be read, with
\* links to any of them.
MCEntry(kinds) ==
  {[kind |-> k, to |-> "none"] : k \in {"song", "other"}}
  \cup {[kind |-> kt[1], to |-> kt[2]] : kt \in kinds}

MCTrees ==
  LET listing(entries) == UNION {[S -> entries] : S \in SUBSET Names}
      links == {<<"link", Root>>, <<"link", "sub">>}
      dirs  == {<<"dir", "sub">>, <<"dir", "locked">>}
  IN  {t \in [{Root, "sub"} -> listing(MCEntry(links \cup dirs))] :
         /\ \A n \in DOMAIN t["sub"] : t["sub"][n].kind # "dir"
         /\ Cardinality({n \in DOMAIN t[Root] : t[Root][n].to = "sub"
                                               /\ t[Root][n].kind = "dir"}) <= 1}
=============================================================================
