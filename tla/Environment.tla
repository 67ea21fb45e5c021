---------------------------- MODULE Environment ----------------------------
(***************************************************************************)
(* The names a shell session knows: its environment variables              *)
(* (src/environment.c, src/slash_env_var_cmds.c), its table of host names  *)
(* (src/known_hosts.c, src/slash_nodes_cmds.c), and what running a script  *)
(* does to them (src/slash_run_environment.c).  main runs the hosts file   *)
(* at every start (src/main.c), and `node save -f` writes it.              *)
(*                                                                         *)
(* Both tables are SLISTs: sequences whose head is the newest entry.  An   *)
(* address is written as its decimal text, which is what a variable holds. *)
(* Scripts contain any commands; the hosts file contains the lines that    *)
(* were saved.  slash_run itself (read a line, execute it, call the hooks) *)
(* is external.                                                            *)
(***************************************************************************)
EXTENDS Naturals, Sequences, SequencesExt

CONSTANTS
  Nodes,       (* addresses other than 0                                   *)
  HostNames,   (* names nodes are given                                    *)
  UserVars,    (* names used in var set and var unset                      *)
  UserValues,  (* values used in var set                                   *)
  Scripts,     (* scripts that can be run; "" is one realpath cannot find  *)
  DirOf(_),    (* the directory of a script                                *)
  MaxDepth,    (* bound: how deep scripts are nested                       *)
  MaxFailures  (* bound: how often calloc fails in a session               *)

HOSTS == "csh_hosts"
INITFILE == "init.csh"
Undefined == "undefined"   (* what csh_getvar's NULL stands for            *)
Node0 == "0"
FileVars == {"__FILE__", "__FILE_DIR__"}   (* what the hooks of run set    *)

(* What the constants must satisfy; the MC module assumes it.              *)
EnvironmentAssumption ==
  /\ Node0 \notin Nodes /\ Nodes \cap HostNames = {}
  /\ MaxDepth \in Nat \ {0} /\ MaxFailures \in Nat
  /\ HOSTS \notin Scripts

VARIABLES
  csh_env,        (* entries [name, value]                                 *)
  known_hosts,    (* entries [node, name]                                  *)
  slash_dfl_node,
  runs,           (* the scripts that are being run, the innermost first   *)
  hosts_file,     (* the saved lines [node, name]; saved: is there a file? *)
  saved,
  saved_hosts,    (* history: the table when it was saved                  *)
  phase,          (* "start", "hosts" (main runs the hosts file), "up"     *)
  changed,        (* history: was __FILE__ changed at the prompt           *)
  failures        (* how often calloc has failed in this session           *)

vars == <<csh_env, known_hosts, slash_dfl_node, runs, hosts_file, saved,
          saved_hosts, phase, changed, failures>>
fileVars == <<hosts_file, saved, saved_hosts>>

Init ==
  /\ csh_env = << >> /\ known_hosts = << >> /\ slash_dfl_node = Node0
  /\ runs = << >> /\ hosts_file = << >> /\ saved = FALSE /\ saved_hosts = << >>
  /\ phase = "start" /\ changed = FALSE /\ failures = 0

-----------------------------------------------------------------------------
(* environment.c.                                                          *)

(* The first entry of that name, 0 if there is none.                       *)
csh_get_env_entry(env, name) == SelectInSeq(env, LAMBDA e : e.name = name)

csh_getvar(env, name) ==
  LET i == csh_get_env_entry(env, name) IN IF i = 0 THEN Undefined ELSE env[i].value

csh_putvar(env, name, value, alloc) ==
  LET i == csh_get_env_entry(env, name)
  IN  IF i # 0 THEN [env EXCEPT ![i] = [name |-> name, value |-> value]]
      ELSE IF alloc THEN <<[name |-> name, value |-> value]>> \o env
      ELSE env

csh_delvar(env, name) ==
  LET i == csh_get_env_entry(env, name) IN IF i = 0 THEN env ELSE RemoveAt(env, i)

csh_clearenv == << >>

-----------------------------------------------------------------------------
(* known_hosts.c.  (A name ending in Mut is a deliberately wrong variant.) *)

known_hosts_delMut(hosts, addr) ==
  LET i == SelectInSeq(hosts, LAMBDA h : h.node = addr)
  IN  IF i <= 1 THEN hosts ELSE RemoveAt(hosts, i)
known_hosts_del(hosts, addr) ==
  LET kept[i \in 0 .. Len(hosts)] ==
        IF i = 0 THEN << >>
        ELSE IF hosts[i].node = addr THEN kept[i - 1] ELSE Append(kept[i - 1], hosts[i])
  IN  kept[Len(hosts)]

known_hosts_get_name(hosts, addr) ==
  LET i == SelectInSeq(hosts, LAMBDA h : h.node = addr)
  IN  IF i = 0 THEN Undefined ELSE hosts[i].name

known_hosts_get_node(hosts, name) ==
  LET i == SelectInSeq(hosts, LAMBDA h : h.name = name)
  IN  IF i = 0 THEN Undefined ELSE hosts[i].node

(* Node 0 gets no name, and a known node keeps its name without -o.        *)
AddRefused(addr, override) ==
  \/ addr = Node0
  \/ ~override /\ \E i \in DOMAIN known_hosts : known_hosts[i].node = addr

(* The host is removed before memory for its new entry is found.           *)
known_hosts_add(addr, name, override, alloc) ==
  LET rest == IF override THEN known_hosts_del(known_hosts, addr) ELSE known_hosts
  IN  IF AddRefused(addr, override)
      THEN UNCHANGED <<known_hosts, csh_env>>
      ELSE IF alloc
      THEN /\ known_hosts' = <<[node |-> addr, name |-> name]>> \o rest
           /\ csh_env' = csh_putvar(csh_env, name, addr, TRUE)
      ELSE known_hosts' = rest /\ UNCHANGED csh_env

(* A number is taken as it is, a name is looked up.                        *)
get_host_by_addr_or_name(arg) ==
  IF arg \in Nodes \cup {Node0} THEN arg ELSE known_hosts_get_node(known_hosts, arg)

(* node_save: a file that cannot be opened is replaced by the terminal.    *)
node_saveMut(opens) == IF opens THEN SubSeq(known_hosts, 2, Len(known_hosts)) ELSE hosts_file
node_save(opens) == IF opens THEN known_hosts ELSE hosts_file

-----------------------------------------------------------------------------
(* Commands, typed at the prompt or read from a script other than the      *)
(* hosts file, which is executed line by line.                             *)

Calloc(alloc) ==
  /\ ~alloc => failures < MaxFailures
  /\ failures' = IF alloc THEN failures ELSE failures + 1

Typed == phase = "up" /\ (runs # << >> => Head(runs).file # HOSTS)

(* Someone else than the hooks changes __FILE__ at the current level, if   *)
(* it is among the names.                                                  *)
Touch(names) ==
  IF names \cap FileVars = {} THEN UNCHANGED <<runs, changed>>
  ELSE IF runs = << >> THEN changed' = TRUE /\ UNCHANGED runs
  ELSE runs' = [runs EXCEPT ![1].changed = TRUE] /\ UNCHANGED changed

slash_var_set(name, value, alloc) ==
  /\ Typed
  /\ csh_env' = csh_putvar(csh_env, name, value, alloc)
  /\ Touch({name})
  /\ Calloc(alloc)
  /\ UNCHANGED <<known_hosts, slash_dfl_node, fileVars, phase>>

slash_var_unset(name) ==
  /\ Typed
  /\ csh_env' = csh_delvar(csh_env, name)
  /\ Touch({name})
  /\ UNCHANGED <<known_hosts, slash_dfl_node, fileVars, phase, failures>>

slash_var_clear ==
  /\ Typed
  /\ csh_env' = csh_clearenv
  /\ Touch(FileVars)
  /\ UNCHANGED <<known_hosts, slash_dfl_node, fileVars, phase, failures>>

(* node <arg>: an argument that does not resolve leaves the default.       *)
cmd_node(arg) ==
  /\ Typed
  /\ slash_dfl_node' = IF get_host_by_addr_or_name(arg) = Undefined THEN slash_dfl_node
                       ELSE get_host_by_addr_or_name(arg)
  /\ UNCHANGED <<csh_env, known_hosts, runs, fileVars, phase, changed, failures>>

(* node add [-n arg] name.                                                 *)
cmd_node_add(arg, name, alloc) ==
  /\ Typed
  /\ arg \notin {Node0, Undefined}
  /\ known_hosts_add(arg, name, TRUE, alloc)
  /\ Touch({name})
  /\ Calloc(alloc)
  /\ UNCHANGED <<slash_dfl_node, fileVars, phase>>

cmd_node_save(opens) ==
  /\ Typed
  /\ hosts_file' = node_save(opens)
  /\ saved' = (saved \/ opens)
  /\ saved_hosts' = IF opens THEN known_hosts ELSE saved_hosts
  /\ UNCHANGED <<csh_env, known_hosts, slash_dfl_node, runs, phase, changed, failures>>

(* A node's answer tells its name, to ident or to csp scan, which asks     *)
(* address after address.                                                  *)
IdentAnswer(addr, name, override, alloc) ==
  /\ Typed
  /\ known_hosts_add(addr, name, override, alloc)
  /\ Touch({name})
  /\ Calloc(alloc)
  /\ UNCHANGED <<slash_dfl_node, fileVars, phase>>

slash_csp_cmp_ident(addr, name, override, alloc) == IdentAnswer(addr, name, override, alloc)

csp_scan(addr, name, override, alloc) == IdentAnswer(addr, name, override, alloc)

-----------------------------------------------------------------------------
(* run <file>: the hooks around a script.                                  *)

(* What the context of a script keeps for its end.                         *)
ContextMut(env) == [old_file |-> Undefined, old_file_dir |-> csh_getvar(env, "__FILE_DIR__")]
Context(env) ==
  [old_file |-> csh_getvar(env, "__FILE__"), old_file_dir |-> csh_getvar(env, "__FILE_DIR__")]

slash_on_run_pre_hook(file, alloc) ==
  /\ runs' = <<[file |-> file, ctx |-> Context(csh_env), kept |-> alloc, changed |-> FALSE,
                todo |-> IF file = HOSTS THEN hosts_file ELSE << >>]>> \o runs
  /\ csh_env' = csh_putvar(csh_putvar(csh_env, "__FILE__", file, TRUE),
                           "__FILE_DIR__", DirOf(file), TRUE)

Restore(env, name, old) ==
  IF old = Undefined THEN csh_delvar(env, name) ELSE csh_putvar(env, name, old, TRUE)

(* Without a context (no memory) the variables stay as they are.           *)
slash_on_run_post_hook ==
  LET run  == Head(runs)
      rest == Tail(runs)
  IN  IF run.kept
      THEN /\ csh_env' = Restore(Restore(csh_env, "__FILE__", run.ctx.old_file),
                                 "__FILE_DIR__", run.ctx.old_file_dir)
           /\ runs' = rest /\ UNCHANGED changed
      ELSE /\ UNCHANGED csh_env
           /\ runs' = IF rest = << >> THEN rest ELSE [rest EXCEPT ![1].changed = TRUE]
           /\ changed' = (changed \/ rest = << >>)

Run(file, alloc) ==
  /\ Typed /\ Len(runs) < MaxDepth /\ (file = HOSTS => saved)
  /\ slash_on_run_pre_hook(file, alloc)
  /\ Calloc(alloc)
  /\ UNCHANGED <<known_hosts, slash_dfl_node, fileVars, phase, changed>>

(* The next line of the hosts file: node add -n <node> <name>.             *)
HostsLine(alloc) ==
  /\ runs # << >> /\ Head(runs).todo # << >>
  /\ LET line == Head(Head(runs).todo)
     IN  /\ known_hosts_add(line.node, line.name, TRUE, alloc)
         /\ runs' = [runs EXCEPT ![1].todo = Tail(@),
                                 ![1].changed = @ \/ line.name \in FileVars]
  /\ Calloc(alloc)
  /\ UNCHANGED <<slash_dfl_node, fileVars, phase, changed>>

RunEnds ==
  /\ runs # << >> /\ Head(runs).todo = << >>
  /\ slash_on_run_post_hook
  /\ UNCHANGED <<known_hosts, slash_dfl_node, fileVars, phase, failures>>

-----------------------------------------------------------------------------
(* main: the hosts file if there is one, then the init file's variables.   *)
(* The init script is a script as any other.                               *)

PersistHosts ==
  /\ phase = "start" /\ saved
  /\ slash_on_run_pre_hook(HOSTS, TRUE)
  /\ phase' = "hosts"
  /\ UNCHANGED <<known_hosts, slash_dfl_node, fileVars, changed, failures>>

InitFile ==
  /\ \/ phase = "start" /\ ~saved
     \/ phase = "hosts" /\ runs = << >>
  /\ csh_env' = csh_putvar(csh_putvar(csh_env, "INIT_FILE", INITFILE, TRUE),
                           "INIT_DIR", DirOf(INITFILE), TRUE)
  /\ phase' = "up"
  /\ UNCHANGED <<known_hosts, slash_dfl_node, runs, fileVars, changed, failures>>

(* The shell ends, or is killed, and is started again.                     *)
Restart ==
  /\ csh_env' = csh_clearenv /\ known_hosts' = << >> /\ slash_dfl_node' = Node0
  /\ runs' = << >> /\ changed' = FALSE /\ failures' = 0 /\ phase' = "start"
  /\ UNCHANGED fileVars

-----------------------------------------------------------------------------
Args == Nodes \cup HostNames

Next ==
  \/ \E name \in UserVars, value \in UserValues, alloc \in BOOLEAN : slash_var_set(name, value, alloc)
  \/ \E name \in UserVars : slash_var_unset(name)
  \/ slash_var_clear
  \/ \E arg \in Args \cup {Node0} : cmd_node(arg)
  \/ \E arg \in Args \cup {slash_dfl_node}, name \in HostNames, alloc \in BOOLEAN :
       cmd_node_add(get_host_by_addr_or_name(arg), name, alloc)
  \/ \E opens \in BOOLEAN : cmd_node_save(opens)
  \/ \E addr \in Nodes \cup {Node0}, name \in HostNames, override \in BOOLEAN, alloc \in BOOLEAN :
       \/ slash_csp_cmp_ident(addr, name, override, alloc)
       \/ csp_scan(addr, name, override, alloc)
  \/ \E file \in Scripts \cup {HOSTS}, alloc \in BOOLEAN : Run(file, alloc)
  \/ \E alloc \in BOOLEAN : HostsLine(alloc)
  \/ RunEnds
  \/ PersistHosts
  \/ InitFile
  \/ Restart

Spec == Init /\ [][Next]_vars

-----------------------------------------------------------------------------
(* Properties.                                                             *)

HostLine == [node : Nodes, name : HostNames]

(* Types of all variables; node 0 has no entry (node_save asserts it).     *)
TypeOK ==
  /\ \A i \in DOMAIN csh_env : {"name", "value"} = DOMAIN csh_env[i]
  /\ known_hosts \in Seq(HostLine) /\ hosts_file \in Seq(HostLine)
  /\ saved_hosts \in Seq(HostLine)
  /\ slash_dfl_node \in Nodes \cup {Node0}
  /\ Len(runs) <= MaxDepth
  /\ saved \in BOOLEAN /\ changed \in BOOLEAN /\ failures \in 0 .. MaxFailures
  /\ phase \in {"start", "hosts", "up"}

(* All variables have their types, and a node has at most one name,        *)
(* however names are typed, reloaded from the hosts file or learned from   *)
(* the nodes.  A variable is defined once, too, so that unsetting or       *)
(* restoring it never brings an older value back.                          *)
OneNamePerNode ==
  /\ TypeOK
  /\ \A i, j \in DOMAIN known_hosts : known_hosts[i].node = known_hosts[j].node => i = j
  /\ \A i, j \in DOMAIN csh_env : csh_env[i].name = csh_env[j].name => i = j

(* __FILE__ and __FILE_DIR__ tell the innermost script that is running,    *)
(* and are undefined at the prompt, unless the script (or the user) itself *)
(* set or cleared them or there was no memory to restore them.             *)
FileIsInnermost ==
  LET current == IF runs = << >> THEN changed ELSE Head(runs).changed
      file    == IF runs = << >> THEN Undefined ELSE Head(runs).file
  IN  ~current =>
        /\ csh_getvar(csh_env, "__FILE__") = file
        /\ csh_getvar(csh_env, "__FILE_DIR__") = IF runs = << >> THEN Undefined ELSE DirOf(file)

(* main has just run the hosts file, and there was memory for all of it.   *)
Reloaded == phase = "hosts" /\ runs = << >> /\ failures = 0

(* After a restart ("Persist hosts file") every node has the name it had   *)
(* when the table was saved, and a name that a single node had resolves to *)
(* that node again; of a name that several nodes had the code promises     *)
(* nothing, as reloading reverses the order of the table.  Meanwhile no    *)
(* node has two names.                                                     *)
NodesSurviveRestart ==
  /\ OneNamePerNode
  /\ Reloaded =>
    /\ \A n \in Nodes :
         known_hosts_get_name(known_hosts, n) = known_hosts_get_name(saved_hosts, n)
    /\ \A i \in DOMAIN saved_hosts :
         (\A j \in DOMAIN saved_hosts : saved_hosts[j].name = saved_hosts[i].name => j = i)
           => known_hosts_get_node(known_hosts, saved_hosts[i].name) = saved_hosts[i].node
============================================================================
