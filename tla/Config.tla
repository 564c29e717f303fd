-------------------------------- MODULE Config --------------------------------
(***************************************************************************)
(* loadConfig of config.go: where the settings of a process come from, and *)
(* what a start leaves on disk.  A value is given on the command line, in  *)
(* the configuration file, in the environment, or not at all.  Each source *)
(* is a function from the options it gives; only options that loadConfig   *)
(* decides something by are kept.                                          *)
(*                                                                         *)
(* A path is <<directory, name>>, an address <<host, port>> with "" for    *)
(* what is missing.  Directories can be created; permissions and broken    *)
(* links are left out.                                                     *)
(***************************************************************************)
EXTENDS Naturals, FiniteSets, SequencesExt

defaultHomeDir == "home"
Conf(home) == <<home, "pdanalytics.conf">>

Anything == "all" \* of a debug level without a subsystem
LogLevels == {"info", "debug", "error"}
Subsystems == {"PDANA", "NTFN"}

defaultConfig ==
  [ HomeDir |-> defaultHomeDir, ConfigFile |-> Conf(defaultHomeDir),
    DataDir |-> <<defaultHomeDir, "data">>, LogDir |-> <<defaultHomeDir, "logs">>,
    TestNet |-> FALSE, SimNet |-> FALSE, Quiet |-> FALSE, DebugLevel |-> <<<<Anything, "info">>>>,
    DcrdRPCServer |-> <<"", "">>, APIListen |-> <<"", "">> ]

\* The options that a source gives replace those known so far.
With(config, source) ==
  [o \in DOMAIN config |-> IF o \in DOMAIN source THEN source[o] ELSE config[o]]

\* With another home directory, a file that is still the default one moves there.
MovedFile(config, default) ==
  IF config.HomeDir # defaultHomeDir /\ config.ConfigFile = default
  THEN Conf(config.HomeDir) ELSE config.ConfigFile

\* The configuration file, after the environment and again after the command line.
configFile(envs, args) ==
  LET fromEnv == With(defaultConfig, envs)
      envFile == MovedFile(fromEnv, defaultConfig.ConfigFile)
      default == IF fromEnv.ConfigFile = defaultConfig.ConfigFile THEN envFile
                 ELSE defaultConfig.ConfigFile
  IN MovedFile(With([fromEnv EXCEPT !.ConfigFile = envFile], args), default)

\* copyFile: the copy cannot be made in a directory that is not there.
copyFile(file, disk) ==
  IF disk.sample /\ file[1] \in disk.dirs
  THEN [disk EXCEPT !.files = [f \in DOMAIN @ \cup {file} |-> IF f = file THEN <<>> ELSE @[f]]]
  ELSE disk

\* A missing configuration file becomes a copy of the sample, in which nothing is set.
\* For it the default home directory is created, never another one.
WithSample(file, disk) ==
  IF file \in DOMAIN disk.files THEN disk
  ELSE copyFile(file, [disk EXCEPT !.dirs = @ \cup {defaultHomeDir}])

\* Directories that are still the default ones follow the home directory.
UnderHome(config) ==
  IF config.HomeDir = defaultHomeDir THEN config
  ELSE [config EXCEPT
         !.DataDir = IF @ = defaultConfig.DataDir THEN <<config.HomeDir, "data">> ELSE @,
         !.LogDir  = IF @ = defaultConfig.LogDir  THEN <<config.HomeDir, "logs">> ELSE @]

OneNet(config) == ~(config.TestNet /\ config.SimNet)

activeNet(config) ==
  CASE config.SimNet -> "simnet"
    [] config.TestNet /\ ~config.SimNet -> "testnet3"
    [] OTHER -> "mainnet"

\* Where pdanalytics listens, where dcrd does.
DefaultPort(net) == CASE net = "mainnet" -> "7070" [] net = "testnet3" -> "7171" [] OTHER -> "7272"
JSONRPCClientPort(net) ==
  CASE net = "mainnet" -> "9109" [] net = "testnet3" -> "19109" [] OTHER -> "19556"

\* An address with a protocol in it.
Invalid == <<"https", "">>

normalizeNetworkAddress(a, host, port) ==
  <<IF a[1] = "" THEN host ELSE a[1], IF a[2] = "" THEN port ELSE a[2]>>

ValidLevels(pairs) == \A i \in DOMAIN pairs : pairs[i][2] \in LogLevels

\* The level of each subsystem; those that are not known are passed over.
parseAndSetDebugLevels(pairs, levels) ==
  LET Set(l, pair) == [s \in DOMAIN l |-> IF pair[1] \in {s, Anything} THEN pair[2] ELSE l[s]]
  IN FoldLeft(Set, levels, pairs)

\* A failed start has no configuration, but what it has created stays.
Failed(disk) == [config |-> <<>>, levels |-> <<>>, disk |-> disk]

\* The rest, once the options are known: directories, network, addresses, debug levels.
Settled(given, disk) ==
  LET config == UnderHome(given)
      net    == activeNet(config)
      home   == [disk EXCEPT !.dirs = @ \cup {config.HomeDir}]
      all    == [home EXCEPT !.dirs = @ \cup {config.DataDir[1], config.LogDir[1]}]
      pairs  == IF config.Quiet THEN <<<<Anything, "error">>>> ELSE config.DebugLevel
  IN IF ~OneNet(config) THEN Failed(home)
     ELSE IF Invalid \in {config.DcrdRPCServer, config.APIListen} \/ ~ValidLevels(pairs)
     THEN Failed(all)
     ELSE [ config |-> [config EXCEPT
              !.DataDir = Append(@, net), !.LogDir = Append(@, net),
              !.DcrdRPCServer = normalizeNetworkAddress(@, "localhost", JSONRPCClientPort(net)),
              !.APIListen = normalizeNetworkAddress(@, "localhost", DefaultPort(net))],
            levels |-> parseAndSetDebugLevels(pairs, [s \in Subsystems |-> "info"]),
            disk |-> all ]

loadConfig(envs, args, disk) ==
  LET file == configFile(envs, args)
      made == WithSample(file, disk)
  IN IF file \notin DOMAIN made.files THEN Failed(made)
     ELSE Settled(With(With(With(defaultConfig, envs), made.files[file]), args), made)

-----------------------------------------------------------------------------
(* What loadConfig promises, for every choice of a few options in each source. *)

Values ==
  [ HomeDir |-> {"home", "new", "opt"}, ConfigFile |-> {<<"etc", "pdanalytics.conf">>},
    DataDir |-> {<<"var", "data">>}, TestNet |-> {TRUE}, SimNet |-> {TRUE}, Quiet |-> {TRUE},
    APIListen |-> {<<"", "8000">>, Invalid}, DebugLevel |-> {<<<<"NTFN", "debug">>>>} ]

\* The sources that give one option or none, and those that give two or fewer.
Single == UNION {{[o \in {p} |-> v] : v \in Values[p]} : p \in DOMAIN Values}
          \cup {[o \in {} |-> 0]}

Double == {[o \in DOMAIN s \cup DOMAIN t |-> IF o \in DOMAIN s THEN s[o] ELSE t[o]] :
             s, t \in Single}

\* A first start and later ones, with or without the directory of the configuration file.
Disks(file, content) ==
  { [dirs |-> dirs, files |-> files, sample |-> sample] :
      dirs \in {{}, {file[1]}}, sample \in BOOLEAN,
      files \in {[f \in {} |-> <<>>], [f \in {file} |-> content]} }

\* The first of the sources that gives the option.
FirstGiven(o, sources) ==
  LET gives == {i \in DOMAIN sources : o \in DOMAIN sources[i]}
  IN sources[CHOOSE i \in gives : \A j \in gives : i <= j][o]

\* The comments of loadConfig: command line before file before environment before default,
\* and a home directory that was moved takes along what was not placed elsewhere.
TakesPrecedence(envs, args, disk) ==
  LET r    == loadConfig(envs, args, disk)
      file == r.disk.files[configFile(envs, args)]
      given(o) == FirstGiven(o, <<args, file, envs, defaultConfig>>)
      Placed(o, name) ==
        IF given(o) = defaultConfig[o] THEN <<given("HomeDir"), name>> ELSE given(o)
  IN r.config # <<>> =>
       /\ \A o \in {"HomeDir", "TestNet", "SimNet", "Quiet"} : r.config[o] = given(o)
       /\ r.config.DataDir = Append(Placed("DataDir", "data"), activeNet(r.config))
       /\ r.config.LogDir = Append(Placed("LogDir", "logs"), activeNet(r.config))

\* The file named, or else that of the home directory named, on the command line before in
\* the environment; except that the command line cannot lead back to the default file.
FileFollowsHome(envs, args) ==
  LET given(o) == FirstGiven(o, <<args, envs, defaultConfig>>)
  IN configFile(envs, args) =
       IF "ConfigFile" \in DOMAIN args \cup DOMAIN envs THEN given("ConfigFile")
       ELSE IF given("HomeDir") = defaultHomeDir THEN Conf(With(defaultConfig, envs).HomeDir)
       ELSE Conf(given("HomeDir"))

\* A start with usable options misses nothing but a configuration file that it cannot create:
\* there is no sample, or no directory for it, unless that is the default one.
StartsWhere(envs, args, disk) ==
  LET file == configFile(envs, args)
      content == IF file \in DOMAIN disk.files THEN disk.files[file] ELSE <<>>
      given(o) == FirstGiven(o, <<args, content, envs, defaultConfig>>)
  IN loadConfig(envs, args, disk).config # <<>> <=>
       /\ file \in DOMAIN disk.files \/ (disk.sample /\ file[1] \in disk.dirs \cup {defaultHomeDir})
       /\ ~(given("TestNet") /\ given("SimNet")) /\ given("APIListen") # Invalid

\* A start that succeeds leaves a disk on which the next one finds the same configuration, and
\* one that fails stays so: what a failed start creates never lets the next one succeed.
StartsAlike(envs, args, disk) ==
  LET r == loadConfig(envs, args, disk) IN loadConfig(envs, args, r.disk) = r

ASSUME ConfigIsFound ==
  \A envs \in Single, args \in Double :
    /\ FileFollowsHome(envs, args)
    /\ \A content \in Single : \A disk \in Disks(configFile(envs, args), content) :
         /\ TakesPrecedence(envs, args, disk)
         /\ StartsWhere(envs, args, disk) /\ StartsAlike(envs, args, disk)
=============================================================================
