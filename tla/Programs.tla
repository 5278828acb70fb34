------------------------------ MODULE Programs ------------------------------
(***************************************************************************)
(* The two programs that use packages, as far as files go: btide loads its *)
(* configuration, adds a package in the directory it names and shows its   *)
(* status (src/project/src/btide.c, package.c); pkgmain loads a package,   *)
(* answers one query and ends (pkgmain.c). ConfigLoad, BpkgLoad and        *)
(* PackageQueries are their parts, the file and the directories are what   *)
(* survives them. One package; several of them are in ManagedPackages.     *)
(***************************************************************************)
EXTENDS ConfigLoad, PackageQueries

CONSTANT Runs   \* [program, config, text]: what is started on which files

ASSUME RunsAssumption == \A r \in Runs : r.program \in {"btide", "pkgmain"}

VARIABLE program   \* "btide" or "pkgmain"

vars == <<configVars, loadVars, queryVars, program>>

Start(s) == IF s = "btide" THEN "config" ELSE "prompt"

Init ==
  /\ \E r \in Runs : program = r.program /\ config_text = r.config /\ text = r.text
  /\ ConfigInit /\ LoadInit /\ QueryInit
  /\ stage = Start(program)

Hashes == {text[i].hash : i \in DOMAIN text}
Stages == {"config", "prompt", "load", "check", "hash", "walk", "print", "exit", "undefined"}

\* The types of the variables of the two programs and of their parts.
TypeOK ==
  /\ program \in {"btide", "pkgmain"}
  /\ stage \in Stages
  /\ config_state \in {"reading", "loaded", "undefined", "exit -1", "exit 3", "exit 4", "exit 5"}
  /\ config_line \in 1 .. Len(config_text) + 1
  /\ directories \subseteq Directories \cup Creatable
  /\ load \in {"idle", "keys", "hashes", "chunks", "loaded", "rejected", "undefined"}
  /\ line \in 1 .. Len(text) + 1
  /\ order_iterator \in 0 .. Len(Keys)
  /\ file # NULL => file \in Seq(0 .. FileMax) /\ Len(file) <= FileMax
  /\ query.kind \in Kinds /\ query.next \in Nat
  /\ stage \in {"check", "hash", "walk", "print"} => load = "loaded"
  /\ \A k \in DOMAIN answer : answer[k] \in Hashes
  /\ load = "loaded" /\ stage # "load" => \A c \in 1 .. n + 1 : computed[c] \in Seq(0 .. FileMax)

-----------------------------------------------------------------------------
(* btide.                                                                  *)

LoadConfig ==
  /\ stage = "config" /\ ConfigStep
  /\ UNCHANGED <<loadVars, queryVars, program>>

\* main goes on with whatever the configuration has; arrays of a size that was
\* not set are not defined, and a port that was not set may do.
MainStarts ==
  /\ stage = "config" /\ config_state # "reading"
  /\ \/ config_state = "loaded" /\ config.max_peers # NotSet /\ stage' = "prompt"
     \/ config_state = "loaded" /\ NotSet \in {config.max_peers, config.port}
        /\ stage' = "undefined"
     \/ config_state = "undefined" /\ stage' = "undefined"
     \/ config_state \notin {"loaded", "undefined"} /\ stage' = "exit"
  /\ UNCHANGED <<configVars, loadVars, file, computed, query, begun, stale, answer, program>>

\* ADDPACKAGE: the name of the file is made from the directory.
AddPackage ==
  /\ program = "btide" /\ stage = "prompt" /\ bpkg = NULL
  /\ \/ /\ config.directory # NotSet
        /\ StartLoad /\ UNCHANGED text
        /\ stage' = "load"
     \/ /\ config.directory = NotSet
        /\ stage' = "undefined" /\ UNCHANGED loadVars
  /\ UNCHANGED <<configVars, file, computed, query, begun, stale, answer, program>>

Packages ==
  /\ program = "btide" /\ stage = "prompt" /\ bpkg # NULL
  /\ Ask("status", <<>>)
  /\ UNCHANGED <<configVars, loadVars, program>>

\* REMPACKAGE.
RemovePackage ==
  /\ program = "btide" /\ stage = "prompt" /\ bpkg # NULL
  /\ bpkg' = NULL /\ load' = "idle" /\ computed' = <<>>
  /\ UNCHANGED <<configVars, text, line, order_iterator, counter,
                 file, stage, query, begun, stale, answer, program>>

-----------------------------------------------------------------------------
(* pkgmain.                                                                *)

\* arg_select; an unknown flag ends the program before anything is loaded.
Invoke(kind, hash) ==
  /\ program = "pkgmain" /\ stage = "prompt" /\ kind \notin {"status", "unknown"}
  /\ StartLoad /\ UNCHANGED text
  /\ query' = [kind |-> kind, hash |-> hash, next |-> 0]
  /\ stage' = "load"
  /\ UNCHANGED <<configVars, file, computed, begun, stale, answer, program>>

-----------------------------------------------------------------------------
(* Both.                                                                   *)

LoadPackage ==
  /\ stage = "load" /\ LoadStep
  /\ UNCHANGED <<configVars, queryVars, program>>

\* A rejected package: the ADDPACKAGE or the process ends.
Rejected ==
  /\ stage = "load" /\ load = "rejected"
  /\ load' = "idle" /\ stage' = "prompt" /\ query' = NoQuery
  /\ UNCHANGED <<configVars, text, line, order_iterator, counter, bpkg,
                 file, computed, begun, stale, answer, program>>

LoadUndefined ==
  /\ stage = "load" /\ load = "undefined"
  /\ stage' = "undefined"
  /\ UNCHANGED <<configVars, loadVars, file, computed, query, begun, stale, answer, program>>

\* A new tree has no computed hashes. add_package checks the file of it, pkgmain
\* starts its query.
Loaded ==
  /\ stage = "load" /\ load = "loaded"
  /\ computed' = NotComputed
  /\ LET kind == IF program = "btide" THEN "file_check" ELSE query.kind
     IN /\ query' = [query EXCEPT !.kind = kind]
        /\ stage' = CASE kind \in Hashing -> "hash"
                      [] kind = "file_check" -> "check"
                      [] OTHER -> "walk"
  /\ begun' = Whole /\ stale' = {}
  /\ UNCHANGED <<configVars, loadVars, file, answer, program>>

CheckFile ==
  /\ FileCheck
  /\ UNCHANGED <<configVars, loadVars, program>>

QueryPackage == QueryStep /\ UNCHANGED <<configVars, loadVars, program>>

\* The answer is printed and destroyed; with it pkgmain ends, and may be
\* started again.
Return ==
  /\ stage = "print"
  /\ stage' = "prompt"
  /\ query' = NoQuery /\ begun' = {} /\ stale' = {} /\ answer' = <<>>
  /\ IF program = "btide" THEN UNCHANGED <<bpkg, load, computed>>
     ELSE bpkg' = NULL /\ load' = "idle" /\ computed' = <<>>
  /\ UNCHANGED <<configVars, text, line, order_iterator, counter, file, program>>

\* btide ends, at any point after its configuration, and is started again:
\* files and directories are still there, and nothing else.
Restart ==
  /\ stage \notin {"config", "undefined"} /\ stage' = "config" /\ program = "btide"
  /\ config_line' = 1 /\ config' = NoConfig /\ config_state' = "reading"
  /\ bpkg' = NULL /\ load' = "idle" /\ computed' = <<>>
  /\ line' = 1 /\ order_iterator' = 0 /\ counter' = [hashes |-> 0, chunks |-> 0]
  /\ query' = NoQuery /\ begun' = {} /\ stale' = {} /\ answer' = <<>>
  /\ UNCHANGED <<config_text, directories, text, file, program>>

\* Peers write at any time, the user between commands.
FileChanges ==
  /\ \/ \E u \in 1 .. FileMax : Received(u)
     \/ stage = "prompt" /\ Edited
  /\ UNCHANGED <<configVars, loadVars, computed, stage, query, begun, stale, answer, program>>

Next ==
  \/ LoadConfig \/ MainStarts \/ AddPackage \/ Packages \/ RemovePackage
  \/ \E kind \in Kinds :
       \E hash \in IF kind = "hashes_of" THEN Hashes ELSE {<<>>} : Invoke(kind, hash)
  \/ LoadPackage \/ Rejected \/ LoadUndefined \/ Loaded \/ CheckFile \/ QueryPackage
  \/ Return \/ Restart \/ FileChanges

Spec == Init /\ [][Next]_vars

-----------------------------------------------------------------------------
(* Properties of the composition.                                          *)

RightUnits == IF file = NULL THEN {} ELSE {u \in DOMAIN file : file[u] = u}

\* What was received stays in the file, whatever is written to it later, however
\* often the programs are started again and the package is removed and added: it
\* is lost only if the user changes the file, or if bpkg_file_check cannot open
\* a file that is there and makes it anew.
ReceivedKept == [][RightUnits \subseteq RightUnits' \/ Edited \/ CreateFile]_vars
=============================================================================
