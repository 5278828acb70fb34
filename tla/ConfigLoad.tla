----------------------------- MODULE ConfigLoad -----------------------------
(***************************************************************************)
(* The loader of the configuration: config_load (src/project/src/config.c), *)
(* one line a step. An error ends the process with an exit code of its own *)
(* and not with a return.                                                  *)
(***************************************************************************)
EXTENDS Integers, Sequences

CONSTANTS
  Configs,        \* the configuration files, sequences of lines
  Directories,    \* the directories there are at first
  Creatable,      \* what mkdir can create
  MaxPeerRange,   \* MAX_PEER_RANGE
  MinPortRange,   \* MIN_PORT_RANGE
  MaxPortRange,   \* MAX_PORT_RANGE
  IntSpan,        \* the number of values of an int
  NotSet          \* memory of the configuration that was not written

\* A line: its key ("other" for all that are unknown), its number (NotNumber if
\* there are other characters than digits), its path.
NotNumber == -1
Setting(key, num, path) == [key |-> key, num |-> num, path |-> path]

ASSUME ConfigAssumption ==
  /\ MaxPeerRange \in Nat /\ MinPortRange \in Nat /\ MaxPortRange \in Nat
  /\ IntSpan \in Nat \ {0} /\ NotSet \notin Int
  /\ \A t \in Configs : DOMAIN t = 1 .. Len(t) /\ Len(t) \in Nat
  /\ \A t \in Configs : \A i \in DOMAIN t : t[i].num \in Int

VARIABLES
  config_text,   \* the lines of the file
  config_line,   \* the number of the next one
  config,        \* config_file: directory, max_peers, port
  directories,   \* the directories there are
  config_state   \* "reading", "loaded", or an exit code, or "undefined"

configVars == <<config_text, config_line, config, directories, config_state>>

NoConfig == [directory |-> NotSet, max_peers |-> NotSet, port |-> NotSet]

ConfigInit ==
  /\ config_text \in Configs
  /\ config_line = 1 /\ config = NoConfig
  /\ directories = Directories
  /\ config_state = "reading"

ConfigAtEnd == config_line > Len(config_text)
Entry == config_text[config_line]
Reading(key) == config_state = "reading" /\ ~ConfigAtEnd /\ Entry.key = key

\* atoi, whose result is cut to the width of an int.
Atoi(num) ==
  LET low == num % IntSpan IN IF 2 * low < IntSpan THEN low ELSE low - IntSpan

ConfigNext(c) ==
  /\ config' = c
  /\ config_line' = config_line + 1
  /\ UNCHANGED config_state

\* exit, after config_file->directory was freed, whether or not it was set.
ExitWith(code) ==
  /\ config_state' \in {code} \cup IF config.directory = NotSet THEN {"undefined"} ELSE {}
  /\ UNCHANGED <<config, config_line, directories>>

\* Mutant of ReadDirectory: the directory is not created.
ReadDirectoryOnly ==
  /\ Reading("directory")
  /\ ConfigNext([config EXCEPT !.directory = Entry.path])
  /\ UNCHANGED directories

ReadDirectory ==
  /\ Reading("directory")
  /\ Entry.path \in directories \cup Creatable
  /\ directories' = directories \cup {Entry.path}
  /\ ConfigNext([config EXCEPT !.directory = Entry.path])

\* mkdir fails: this exit frees what it should.
NoDirectory ==
  /\ Reading("directory")
  /\ Entry.path \notin directories \cup Creatable
  /\ config_state' = "exit 3"
  /\ UNCHANGED <<config, config_line, directories>>

InPeerRange(val) == 1 <= val /\ val <= MaxPeerRange
InPortRange(val) == MinPortRange < val /\ val <= MaxPortRange

ReadMaxPeers ==
  LET val == Atoi(Entry.num)
  IN /\ Reading("max_peers")
     /\ IF Entry.num = NotNumber THEN ExitWith("exit -1")
        ELSE IF ~InPeerRange(val) THEN ExitWith("exit 4")
        ELSE ConfigNext([config EXCEPT !.max_peers = val]) /\ UNCHANGED directories

ReadPort ==
  LET val == Atoi(Entry.num)
  IN /\ Reading("port")
     /\ IF Entry.num = NotNumber THEN ExitWith("exit -1")
        ELSE IF ~InPortRange(val) THEN ExitWith("exit 5")
        ELSE ConfigNext([config EXCEPT !.port = val]) /\ UNCHANGED directories

SkipLine == Reading("other") /\ ConfigNext(config) /\ UNCHANGED directories

\* The end of the file, or no file at all: what was not set stays unset.
ConfigReturns ==
  /\ config_state = "reading" /\ (ConfigAtEnd \/ config_line = 1)
  /\ config_state' = "loaded"
  /\ UNCHANGED <<config, config_line, directories>>

ConfigStep ==
  /\ ReadDirectory \/ NoDirectory \/ ReadMaxPeers \/ ReadPort \/ SkipLine \/ ConfigReturns
  /\ UNCHANGED config_text

-----------------------------------------------------------------------------
(* The meaning of a configuration file, as a whole.                        *)

Of(key) == {i \in DOMAIN config_text : config_text[i].key = key}

\* The last line of that key; the lines before `config_line` have been read.
LastBefore(key) == {i \in Of(key) : i < config_line /\ \A k \in Of(key) : k < config_line => k <= i}

\* Every field is from the last line read of its key, and within its range as
\* an int; a directory that was named is there, on exit too. The file is read
\* line by line, with an early end anywhere, and later lines replace earlier
\* ones.
ConfigReflectsText ==
  /\ \A i \in LastBefore("max_peers") :
       config.max_peers = config_text[i].num % IntSpan /\ config.max_peers \in 1 .. MaxPeerRange
  /\ \A i \in LastBefore("port") :
       /\ config.port = config_text[i].num % IntSpan
       /\ config.port \in MinPortRange + 1 .. MaxPortRange
  /\ \A i \in LastBefore("directory") :
       config.directory = config_text[i].path /\ config.directory \in directories
  /\ LastBefore("max_peers") = {} => config.max_peers = NotSet
  /\ LastBefore("port") = {} => config.port = NotSet
  /\ LastBefore("directory") = {} => config.directory = NotSet
=============================================================================
